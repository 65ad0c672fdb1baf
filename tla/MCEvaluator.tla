------------------------------ MODULE MCEvaluator ------------------------------
(* A generation of three individuals for TLC. *)
EXTENDS SplitParallelIndividualCompleter

CONSTANTS i1, i2, i3,            \* individuals
          cpu1, cpu2, bus, mem,  \* resources
          src, snk, mon,         \* a producer and two consumers of one class
          out, in,               \* ports
          chan1, chan2,          \* fifos
          produce, consume,      \* functions
          slow, fast,            \* times
          watt, trace,           \* a power and a file name
          distributed, local, shared, modified, annotated

Generation == <<i1, i2, i3>>

\* The last one survived from an earlier generation.
MCInitialStates ==
  {s \in [Individual -> {"GENOTYPED", "PHENOTYPED", "EVALUATED"}] : s[i3] = "EVALUATED"}

\* The producer writes the same to both consumers.
MCFifos == {[name |-> chan1, source |-> <<src, out>>, target |-> <<snk, in>>],
            [name |-> chan2, source |-> <<src, out>>, target |-> <<mon, in>>]}
MCActorTypes == <<"producer", "consumer">>
MCActorInstances ==
  <<[name |-> src, type |-> "producer"], [name |-> snk, type |-> "consumer"],
    [name |-> mon, type |-> "consumer"]>>
MCFunctions == [a \in Actor |-> IF a = src THEN {produce} ELSE {consume}]

-----------------------------------------------------------------------------
(* The other ways to translate a network graph, one with registers, too: the *)
(* producer writes two, and a monitor both reads and writes one of them.     *)

MCRegisters ==
  {[name |-> "both", sources |-> {<<src, "state">>, <<mon, "state">>},
    targets |-> {<<mon, "both">>, <<snk, "both">>}],
   [name |-> "one", sources |-> {<<src, "state">>}, targets |-> {<<snk, "one">>}],
   [name |-> "unread", sources |-> {<<mon, "unread">>}, targets |-> {}]}

Imported(types, instances, translation, merging, multicast) ==
  INSTANCE SNGImporter
    WITH ActorTypes <- types, ActorInstances <- instances, Registers <- MCRegisters,
         ChanTranslation <- translation, FifoMerging <- merging, GenerateMulticast <- multicast

\* The pairs of actors data flows between, directly or by a memory.
Connected(flows) ==
  {pair \in Actor \X Actor :
     \E x, y \in flows : /\ x[1] = pair[1] /\ y[3] = pair[2]
                         /\ x = y \/ (x[3] = y[1] /\ x[3] \notin Actor)}

Channels == {<<f.source[1], f.target[1]>> : f \in MCFifos}
              \cup UNION {{<<p[1], q[1]>> : p \in r.sources, q \in r.targets} : r \in MCRegisters}

\* However channels are translated, data flows between actors that have one, and
\* a message comes from one task; a wrong actor type or instance is refused.
ASSUME TranslationsAssumption ==
  \A translation \in {"DROPPED", "MEMORY_TASKS"}, multicast \in BOOLEAN,
     merging \in {"NO", "SAME_CONTENT", "SAME_PRODUCER"} :
    LET flows == Imported(MCActorTypes, MCActorInstances, translation, merging, multicast)!Flow
        wrong(types, instances) ==
          Imported(types, instances, translation, merging, multicast)!FormatError
    IN  /\ Connected(flows) = Channels
        /\ \A x, y \in flows : x[2] = y[2] => x[1] = y[1]
        /\ ~wrong(MCActorTypes, MCActorInstances)
        /\ wrong(Append(MCActorTypes, "producer"), MCActorInstances)
        /\ wrong(Tail(MCActorTypes), MCActorInstances)
        /\ wrong(MCActorTypes, Tail(MCActorInstances))
        /\ wrong(MCActorTypes, Append(MCActorInstances, Head(MCActorInstances)))

-----------------------------------------------------------------------------
(* The template: distributions of every type, tracers and observers of every *)
(* type, on their own and within components.                                 *)

Drawn(name, type, parameters) ==
  [name |-> name, type |-> type, parameters |-> parameters, scale |-> "none", base |-> "none"]

Distributions1 ==
  <<Drawn("bit", "bernoulli", <<1>>), Drawn("bits", "binomial", <<4, 1>>),
    Drawn("peak", "cauchy", <<0, 1>>), Drawn("gap", "exponential", <<1>>),
    Drawn("sum", "gamma", <<1, 1>>), Drawn("tries", "geometric", <<1>>),
    Drawn("log", "lognormal", <<1, 1>>), Drawn("noise", "normal", <<0, 0>>),
    Drawn("count", "poisson", <<1>>), Drawn("three", "triangle", <<1, 1, 2>>),
    [Drawn("data", "empiric", <<>>) EXCEPT !.scale = slow],
    [Drawn("flat", "uniformReal", <<0, 1>>) EXCEPT !.base = "data"]>>

Attribute(type, value) == [type |-> type, value |-> value, attributes |-> <<>>]
Nested(type, value, attributes) == [type |-> type, value |-> value, attributes |-> attributes]
File1 == Attribute("resultFileName", "file")

Component(name, scheduler, attributes) ==
  [tag |-> "component", name |-> name, scheduler |-> scheduler, attributes |-> attributes,
   opendse |-> <<>>]

Elements ==
  <<[tag |-> "tracer", name |-> "vcd", type |-> "VCD", attributes |->
       <<Attribute("traceFileName", trace), Attribute("traceTimeUnit", "ns")>>],
    [tag |-> "observer", name |-> "energy", type |-> "PowerSumming", attributes |-> <<File1>>],
    Component(cpu1, "RRNOPRE",
      <<Attribute("tracer", "vcd"), Attribute("observer", "energy"),
        Nested("execModel", "LookupPowerTimeModel",
          <<Attribute("startupPowermode", "DEFAULT"),
            Nested("powermode", "DEFAULT",
              <<Attribute("powerIdle", watt), Attribute("guardComplexityFactor", fast)>>)>>),
        Nested("scheduler", "", <<Attribute("fireActorInLoop", "true")>>)>>),
    Component(cpu2, "SP",
      <<Nested("tracing", "PAJE", <<Attribute("traceFileName", "file")>>),
        Nested("observer", "DeadlineMonitor",
          <<File1, Nested("startActor", src,
              <<Nested("endActor", snk, <<Attribute("deadline", slow)>>)>>)>>)>>),
    Component(bus, "FCFS", <<Attribute("transfer_delay", fast)>>),
    Component(mem, "FCFS", <<Attribute("distribution", "flat")>>)>>

One1(id) == [named |-> TRUE, ids |-> {id}, optional |-> FALSE]
Matching(ids) == [named |-> FALSE, ids |-> ids, optional |-> FALSE]
Maybe(ids) == [named |-> FALSE, ids |-> ids, optional |-> TRUE]

Link(directed, from, to) ==
  [directed |-> directed, source |-> from, target |-> to, opendse |-> <<>>]
Links ==
  <<Link(FALSE, One1(cpu1), One1(bus)), Link(TRUE, One1(bus), Matching({cpu2, mem})),
    Link(TRUE, Matching({cpu2, mem}), One1(bus))>>

\* Memory tasks are named by a regular expression.
Memory == CHOOSE t \in Task : t \notin Actor
Default(d) == [fname |-> "", delay |-> d]
Named(f, d) == [fname |-> f, delay |-> d]
ActorDelays(f, d) == [type |-> "MAP", name |-> <<"vpc", "actor-delay">>,
                      nested |-> <<[type |-> "DOUBLE", name |-> f, value |-> d]>>]
Element(from, to, delaysGiven, opendse) ==
  [source |-> from, target |-> to, timings |-> delaysGiven, attributes |-> <<>>,
   opendse |-> opendse]

\* The second mapping gives its delay twice; the last two are not used, or are
\* used and not supported.
Mappings ==
  <<Element(One1(src), Matching({cpu1, cpu2}), <<Default(fast)>>, <<>>),
    Element(One1(src), One1(cpu1), <<Default(slow)>>, <<ActorDelays(produce, fast)>>),
    Element(One1(snk), One1(cpu2), <<Named(consume, slow)>>, <<>>),
    Element(One1(snk), Matching({cpu1, cpu2}), <<>>, <<ActorDelays(consume, slow)>>),
    Element(One1(mon), Matching({cpu1, cpu2}), <<>>, <<ActorDelays(consume, fast)>>),
    Element(One1(mon), Matching({cpu1, cpu2}), <<Default(fast)>>,
            <<[type |-> "INT", name |-> <<"tutorial", "cost">>, value |-> 1]>>),
    Element(Matching({Memory}), Matching({cpu1, cpu2, mem}), <<Default(fast)>>, <<>>),
    Element(Maybe({}), One1(cpu1), <<>>, <<>>),
    [Element(One1(src), One1(cpu1), <<Default(fast)>>, <<>>)
       EXCEPT !.attributes = <<Attribute("priority", "1")>>]>>

MCTemplate ==
  [distributions |-> Distributions1, resources |-> Elements, links |-> Links,
   mappings |-> Mappings]

-----------------------------------------------------------------------------
(* Implementations. *)

WriteMessage == CHOOSE m \in Message : m \notin ReadMessages
Read(actor) == CHOOSE m \in ReadMessages : actor \in Succs[m]

Chosen(t, r, k) ==
  CHOOSE m \in toMappings(Template) : m.source = t /\ m.target = r /\ m.element = k

\* Of the source, of both consumers and of the memory: where, and by which element.
Mapped(p, pk, c, ck, d, dk, m) ==
  src :> Chosen(src, p, pk) @@ snk :> Chosen(snk, c, ck) @@ mon :> Chosen(mon, d, dk)
    @@ Memory :> Chosen(Memory, m, 7)
Routed(w, r1, r2) == (WriteMessage :> w @@ Read(snk) :> r1 @@ Read(mon) :> r2)

\* The memory and one consumer are across the bus.
Distributed ==
  [resources |-> {cpu1, cpu2, bus},
   mapping   |-> Mapped(cpu1, 1, cpu2, 3, cpu1, 5, cpu2),
   routing   |-> Routed({<<cpu1, bus>>, <<bus, cpu2>>}, {}, {<<cpu2, bus>>, <<bus, cpu1>>})]

\* Both consumers are across the bus, with a default of their own.
Local ==
  [resources |-> {cpu1, cpu2, bus},
   mapping   |-> Mapped(cpu1, 2, cpu2, 3, cpu2, 6, cpu1),
   routing   |-> Routed({}, {<<cpu1, bus>>, <<bus, cpu2>>}, {<<cpu1, bus>>, <<bus, cpu2>>})]

\* Both consumers time the same function on the same processor.
Shared ==
  [resources |-> {cpu1},
   mapping   |-> Mapped(cpu1, 1, cpu1, 4, cpu1, 5, cpu1),
   routing   |-> Routed({}, {}, {})]

\* A resource with a distribution.
Modified ==
  [resources |-> {cpu1, cpu2, bus, mem},
   mapping   |-> Mapped(cpu1, 1, cpu2, 4, cpu1, 6, mem),
   routing   |-> Routed({<<cpu1, bus>>, <<bus, mem>>}, {<<mem, bus>>, <<bus, cpu2>>},
                        {<<mem, bus>>, <<bus, cpu1>>})]

\* A mapping with an attribute that is not supported.
Annotated == [Shared EXCEPT !.mapping[src] = Chosen(src, cpu1, 9)]

MCImplementation ==
  distributed :> Distributed @@ local :> Local @@ shared :> Shared @@ modified :> Modified
    @@ annotated :> Annotated

MCGenerations == {(i1 :> distributed @@ i2 :> local @@ i3 :> shared),
                  (i1 :> shared @@ i2 :> modified @@ i3 :> local),
                  (i1 :> annotated @@ i2 :> local @@ i3 :> local)}

=============================================================================
