--------------------------- MODULE VPCConfiguration ---------------------------
(***************************************************************************)
(* VPCEvaluator writes the configuration of a simulation: the template,    *)
(* cut down to what an implementation uses, with the mappings and routings *)
(* of the implementation.  Data flows from tasks to memories in write      *)
(* messages and back in read messages; the library wants every route to    *)
(* start at the task.                                                      *)
(*                                                                         *)
(* A resource has no name besides its id, and no more than one task of a   *)
(* message is at a resource.  The routing of a message is a tree of links  *)
(* (an assertion the program runs without says so).  The template has all  *)
(* sections of a configuration.                                            *)
(***************************************************************************)
EXTENDS VPCConfigImporter

CONSTANT VpcIgnoreRouting

\* An implementation has resources, a mapping to one of them for each task,
\* and the links each message is routed over.
IsImplementation(impl) ==
  /\ impl.resources \subseteq Resources(Template)
  /\ DOMAIN impl.mapping = Task /\ DOMAIN impl.routing = Message
  /\ \A t \in Task : /\ impl.mapping[t] \in toMappings(Template)
                     /\ impl.mapping[t].source = t /\ impl.mapping[t].target \in impl.resources
  /\ \A m \in Message :
       impl.routing[m] \subseteq toArchitecture(Template) \cap (impl.resources \X impl.resources)

target(impl, t) == impl.mapping[t].target

\* Components of resources that are missing are removed.
processResources(impl) ==
  SelectSeq(Template.resources,
            LAMBDA element : element.tag = "component" => element.name \in impl.resources)

\* As are links from or to one; of those by a regular expression there is none.
processLinks(impl) ==
  SelectSeq(Template.links,
            LAMBDA link : \A end \in {link.source, link.target} :
              end.named => end.ids \subseteq impl.resources)

-----------------------------------------------------------------------------
(* processMappings *)

\* Of the attributes of a mapping only those for the library are looked at, and
\* of them only the delays are known; a delay is a double.
unsupported(impl) ==
  \E t \in Task : LET attributes == impl.mapping[t].attributes IN
    \E name \in DOMAIN attributes :
      /\ name[1] = "vpc"
      /\ \/ name # ActorDelay
         \/ /\ attributes[name].type = "MAP"
            /\ \E fname \in DOMAIN attributes[name].nested :
                 attributes[name].nested[fname].type # "DOUBLE"

\* The timings of a mapping; delays that are not in a map are passed over.
timings(impl, t) ==
  LET attributes == impl.mapping[t].attributes
  IN  IF ActorDelay \in DOMAIN attributes /\ attributes[ActorDelay].type = "MAP"
      THEN {[fname |-> name, delay |-> attributes[ActorDelay].nested[name].value] :
              name \in DOMAIN attributes[ActorDelay].nested}
      ELSE {}

\* SourceTarget objects are equal only to themselves, so no mapping of the
\* template is found among those of the implementation: all are removed, and
\* all of the implementation appended.
processMappings(impl) ==
  {[source |-> t, target |-> target(impl, t), timing |-> timings(impl, t)] : t \in Task}

-----------------------------------------------------------------------------
(* processTopology *)

\* A message has to represent some port.
undescribed == ~VpcIgnoreRouting /\ \E m \in Message : Represented[m] = {}

\* The resources a route starts from and ends at.
srcResource(impl, m) ==
  LET tasks == IF m \in ReadMessages THEN Succs[m] ELSE {Pred[m]}
  IN  target(impl, CHOOSE t \in tasks : TRUE)

dstResources(impl, m) ==
  {target(impl, t) : t \in IF m \in ReadMessages THEN {Pred[m]} ELSE Succs[m]}

\* Mutant: read messages are routed in the direction of the data.
linkedForward(impl, m, r) == {l[2] : l \in {l \in impl.routing[m] : r = l[1]}}

\* The hops after a resource: a read message is routed against the data flow.
linked(impl, m, r) ==
  {IF m \in ReadMessages THEN l[1] ELSE l[2] :
     l \in {l \in impl.routing[m] : r = IF m \in ReadMessages THEN l[2] ELSE l[1]}}

\* One round of the loop: the first resource of the queue becomes a hop below
\* its parent, the position of another hop, and those after it are queued.
nextHop(impl, m, rep, loop) ==
  IF loop.queue = <<>> THEN loop
  ELSE LET res   == Head(loop.queue).res
           hop   == [component |-> res, parent |-> Head(loop.queue).parent,
                     destinations |-> IF res \in dstResources(impl, m)
                                      THEN rep.channels ELSE {}]
           after == SetToSeq({[res |-> r, parent |-> Len(loop.hops) + 1] :
                                r \in linked(impl, m, res)})
       IN  [queue |-> Tail(loop.queue) \o after, hops |-> Append(loop.hops, hop)]

\* The queue is empty after as many rounds as there are resources.
processRoute(impl, m, rep) ==
  FoldLeft(LAMBDA loop, round : nextHop(impl, m, rep, loop),
           [queue |-> <<[res |-> srcResource(impl, m), parent |-> 0]>>, hops |-> <<>>],
           [round \in 1..Cardinality(impl.resources) |-> round]).hops

\* A route has a tree of hops for each message that represents its port; the
\* routes of the template are replaced or removed.
processTopology(impl) ==
  LET routings == {<<m, rep>> \in (DOMAIN impl.routing) \X (UNION {Represented[m] : m \in Message}) :
                     rep \in Represented[m]}
  IN  [port \in {x[2].port : x \in routings} |->
         {processRoute(impl, x[1], x[2]) : x \in {x \in routings : x[2].port = port}}]

configurable(impl) == ~unsupported(impl) /\ ~undescribed

configuration(impl) ==
  [distributions |-> Template.distributions, resources |-> processResources(impl),
   links |-> processLinks(impl), mappings |-> processMappings(impl),
   topology |-> IF VpcIgnoreRouting THEN [default |-> "ignore", routes |-> <<>>]
                ELSE [default |-> "none", routes |-> processTopology(impl)]]

=============================================================================
