---------------------------- MODULE Configuration ----------------------------
(***************************************************************************)
(* The registry of a simulation: what the configuration creates under a    *)
(* name, and how finalize brings it together with the actors and ports the *)
(* application registers.  An exception ends the program.                  *)
(***************************************************************************)
EXTENDS SNGImporter, Texts

CONSTANT Functions    \* those the actions and guards of each actor call

\* observedBy has the types of the observers of each component, execModels the
\* power modes of the execution model of each, timings its table, and routes the
\* trees of hops of each route.
Empty == [failed |-> FALSE, timingModifiers |-> <<>>, tracers |-> <<>>, observers |-> <<>>,
          components |-> <<>>, observedBy |-> <<>>, execModels |-> <<>>, vpcTasks |-> <<>>,
          timings |-> <<>>, routes |-> <<>>, ignoreMissingRoutes |-> FALSE]

fail(conf) == [conf EXCEPT !.failed = TRUE]

\* Mutant: what was created under a name before is replaced.
createAnew(conf, map, name, value) ==
  [conf EXCEPT ![map] = [n \in DOMAIN @ \cup {name} |-> IF n = name THEN value ELSE @[n]]]

\* A name can be created once in each map.
create(conf, map, name, value) ==
  IF name \in DOMAIN conf[map] THEN fail(conf)
  ELSE [conf EXCEPT ![map] = [n \in DOMAIN @ \cup {name} |-> IF n = name THEN value ELSE @[n]]]

hasComponent(conf, name) == name \in DOMAIN conf.components

createComponent(conf, name, scheduler) == create(conf, "components", name, scheduler)
createVpcTask(conf, name, component) == create(conf, "vpcTasks", name, component)
createRoute(conf, name, trees) == create(conf, "routes", name, trees)
createTimingModifier(conf, name, type) == create(conf, "timingModifiers", name, type)

\* What is looked up by its name has to be there.
getTimingModifier(conf, name) ==
  IF name \in DOMAIN conf.timingModifiers THEN conf ELSE fail(conf)

-----------------------------------------------------------------------------
(* LookupPowerTimeModelImpl *)

\* The power mode an execution model starts in, and those that it knows.
newExecModel == [startup |-> "DEFAULT", modes |-> {}]

addMode(model, mode) == [model EXCEPT !.modes = @ \cup {mode}]

\* A timing of a component is entered for a power mode, and there for a function
\* or for an actor as its default, for either only once.
addTiming(conf, component, mode, name, delay) ==
  create([conf EXCEPT !.execModels[component] = addMode(@, mode)],
         "timings", <<component, mode, name>>, delay)

\* A function has a timing in a mode or falls back to the actor's.
timed(conf, component, mode, actor, function) ==
  {<<component, mode, function>>, <<component, mode, actor>>} \cap DOMAIN conf.timings # {}

timing(conf, component, mode, actor, function) ==
  IF <<component, mode, function>> \in DOMAIN conf.timings
  THEN conf.timings[<<component, mode, function>>] ELSE conf.timings[<<component, mode, actor>>]

\* The actions of an actor are registered for each power mode there is.
registered(conf, component, actor) ==
  LET model == conf.execModels[component]
  IN  /\ model.startup \in model.modes
      /\ \A mode \in model.modes, fn \in Functions[actor] : timed(conf, component, mode, actor, fn)

-----------------------------------------------------------------------------
(* finalize *)

Port == {f.source : f \in Fifos} \cup {f.target : f \in Fifos}

\* The channels a port is connected to, and those the hops of its route name.
provided(port) == {f.name : f \in {f \in Fifos : port \in {f.source, f.target}}}
destinations(trees) == UNION {UNION {t[i].destinations : i \in DOMAIN t} : t \in trees}

\* Every actor is mapped and its functions have timings there; every port has
\* a route, to just its channels or to none, unless missing routes are ignored.
finalized(conf) ==
  /\ \A a \in Actor : a \in DOMAIN conf.vpcTasks /\ registered(conf, conf.vpcTasks[a], a)
  /\ \A port \in Port : IF port \in DOMAIN conf.routes
                        THEN destinations(conf.routes[port]) \in {provided(port), {}}
                        ELSE conf.ignoreMissingRoutes

finalize(conf) == IF conf.failed \/ finalized(conf) THEN conf ELSE fail(conf)

=============================================================================
