------------------------------ MODULE VPCBuilder ------------------------------
(***************************************************************************)
(* VPCBuilder sets up the simulation from a configuration file: its        *)
(* distributions, resources, mappings and topology, in this order.         *)
(***************************************************************************)
EXTENDS Attributes

-----------------------------------------------------------------------------
(* The distributions a configuration declares, and what is asked of their  *)
(* parameters: numbers, as multiples of 1 / One, of those given.  A timing *)
(* takes a modifier but never uses it (modify has no caller), so what the  *)
(* modifiers compute, their seeds and their limits are left out.           *)

CONSTANT One

ASSUME OneAssumption == One \in Nat \ {0}

given(p, indices) == indices \subseteq DOMAIN p

bernoulli(p) == given(p, {1}) /\ 0 <= p[1] /\ p[1] <= One

binomial(p) == given(p, {1, 2}) /\ 0 <= p[1] /\ 0 <= p[2] /\ p[2] <= One

cauchy(p) == given(p, {1, 2})

exponential(p) == given(p, {1}) /\ p[1] > 0

gamma(p) == given(p, {1, 2}) /\ p[1] > 0 /\ p[2] > 0

geometric(p) == given(p, {1}) /\ 0 < p[1] /\ p[1] < One

lognormal(p) == given(p, {1, 2}) /\ p[1] > 0

normal(p) == given(p, {1, 2}) /\ p[2] >= 0

poisson(p) == given(p, {1}) /\ p[1] > 0

triangle(p) == given(p, {1, 2, 3}) /\ p[1] <= p[2] /\ p[2] <= p[3]

\* Its data are on a scale, the time that is one; the file of the data is there.
empiric(distribution) == distribution.scale \in Time

uniformReal(p) == given(p, {1, 2}) /\ p[1] < p[2]

\* Some other type is not known.
valid(distribution) ==
  LET p == distribution.parameters
  IN  CASE distribution.type = "bernoulli"   -> bernoulli(p)
        [] distribution.type = "binomial"    -> binomial(p)
        [] distribution.type = "cauchy"      -> cauchy(p)
        [] distribution.type = "exponential" -> exponential(p)
        [] distribution.type = "gamma"       -> gamma(p)
        [] distribution.type = "geometric"   -> geometric(p)
        [] distribution.type = "lognormal"   -> lognormal(p)
        [] distribution.type = "normal"      -> normal(p)
        [] distribution.type = "poisson"     -> poisson(p)
        [] distribution.type = "triangle"    -> triangle(p)
        [] distribution.type = "empiric"     -> empiric(distribution)
        [] distribution.type = "uniformReal" -> uniformReal(p)
        [] OTHER                             -> FALSE

\* The base of a distribution has been declared before it.
parseTimingModifier(distribution, conf) ==
  IF ~valid(distribution) THEN fail(conf)
  ELSE IF distribution.base = "none" THEN conf ELSE getTimingModifier(conf, distribution.base)

initDistribution(distribution, conf) ==
  createTimingModifier(parseTimingModifier(distribution, conf),
                       distribution.name, distribution.type)

-----------------------------------------------------------------------------
(* The components, with their attributes, and what is mapped to them.      *)

\* The scheduler a name stands for; there is none for some other name.
parseScheduler(name) ==
  CASE name = "RR"      -> "RoundRobin"
    [] name = "RRNOPRE" -> "RoundRobinNoPreempt"
    [] name = "SP"      -> "StaticPriority"
    [] name = "SPNOPRE" -> "StaticPriorityNoPreempt"
    [] name = "RM"      -> "RateMonotonic"
    [] name = "FCFS"    -> "FirstComeFirstServed"
    [] OTHER            -> name

Schedulers ==
  Preemptive \cup {"RoundRobinNoPreempt", "StaticPriorityNoPreempt", "FirstComeFirstServed"}

\* The modifier of an attribute "distribution" is looked up, and then the
\* attribute is added like any other.
initCompAttribute(conf, component, a) ==
  CASE conf.failed -> conf
    [] ~conf.failed /\ a.type = "distribution" ->
         addAttribute(getTimingModifier(conf, a.value), component, a)
    [] OTHER -> addAttribute(conf, component, a)

\* A component without an execution model gets one.
initCompAttributes(component, conf) ==
  LET set == FoldLeft(LAMBDA c, a : initCompAttribute(c, component.name, a),
                      conf, component.attributes)
  IN  IF component.name \in DOMAIN set.execModels THEN set
      ELSE setExecModel(set, component.name, newExecModel)

initComponent(component, conf) ==
  LET scheduler == parseScheduler(component.scheduler)
      new       == createComponent(conf, component.name, scheduler)
  IN  IF scheduler \notin Schedulers \/ new.failed THEN fail(conf)
      ELSE initCompAttributes(component, [new EXCEPT !.observedBy = @ @@ (component.name :> <<>>)])

\* A component that cannot be created is to be ignored; but a time that cannot
\* be read leaves the walk through the document among its attributes, so the
\* other sections are passed over or the next element is refused.
parseResource(conf, element) ==
  CASE conf.failed -> conf
    [] ~conf.failed /\ element.tag = "component" -> initComponent(element, conf)
    [] ~conf.failed /\ element.tag = "observer"  -> parseResourceObserve(element, conf)
    [] ~conf.failed /\ element.tag = "tracer"    -> parseResourceTracer(element, conf)

parseResources(elements, conf) == FoldLeft(parseResource, conf, elements)

\* A delay is a time; a timing without a mode is for the default mode.
parseTiming(t, conf) == IF t.delay \in Time THEN conf ELSE fail(conf)

\* A timing without a function is the default of the actor.
addTimings(mapping, conf) ==
  FoldSet(LAMBDA t, c : addTiming(parseTiming(t, c), mapping.target, "DEFAULT",
                                  IF t.fname = "" THEN mapping.source ELSE t.fname, t.delay),
          conf, mapping.timing)

\* A mapping to a component that does not exist is left out.
initMapping(mapping, conf) ==
  IF ~conf.failed /\ hasComponent(conf, mapping.target)
  THEN addTimings(mapping, createVpcTask(conf, mapping.source, mapping.target)) ELSE conf

\* A route names components that exist and each channel at one hop only.
parseStaticRoute(conf, port, trees) ==
  LET hops == UNION {{<<t, i>> : i \in DOMAIN t} : t \in trees}
  IN  IF /\ \A h \in hops : hasComponent(conf, h[1][h[2]].component)
         /\ \A g, h \in hops :
              g # h => g[1][g[2]].destinations \cap h[1][h[2]].destinations = {}
      THEN createRoute(conf, port, trees) ELSE fail(conf)

parseTopology(topology, conf) ==
  FoldSet(LAMBDA port, c : parseStaticRoute(c, port, topology.routes[port]),
          [conf EXCEPT !.ignoreMissingRoutes = topology.default = "ignore"],
          DOMAIN topology.routes)

buildVPC(text) ==
  LET distributions == FoldLeft(LAMBDA c, d : initDistribution(d, c), Empty, text.distributions)
      components    == parseResources(text.resources, distributions)
      mapped        == FoldSet(initMapping, components, text.mappings)
  IN  parseTopology(text.topology, mapped)

\* What the option for the configuration file leads to: without the file the
\* application is simulated without a model of its platform.
evaluateOptionsMap(file, text) ==
  CASE file = "absent" -> [on |-> FALSE, conf |-> Empty]
    [] file = "truncated" -> [on |-> TRUE, conf |-> fail(Empty)]
    [] OTHER -> [on |-> TRUE, conf |-> finalize(buildVPC(text))]

=============================================================================
