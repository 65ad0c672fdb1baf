--------------------------- MODULE VPCConfigImporter ---------------------------
(***************************************************************************)
(* VPCConfigImporter reads a template: a configuration with the components *)
(* there may be, links between them and the mappings of tasks to them that *)
(* the exploration chooses from.                                           *)
(*                                                                         *)
(* An end of a link or mapping names a vertex or gives a regular           *)
(* expression; ids are those it stands for, in the graph or not.  The      *)
(* reader has validated the document against vpc.dtd.                      *)
(***************************************************************************)
EXTENDS SNGImporter, Texts

CONSTANT Template   \* [resources, links, mappings, distributions]: of its elements

found(end, vertices) == end.ids \cap vertices

missing(end, vertices) == found(end, vertices) = {}

-----------------------------------------------------------------------------
(* AttributeHelper: the attributes of an element become those of what it is *)
(* imported as.                                                             *)

\* Of the types there are, these are the ones templates use here.
classMap == {"INT", "DOUBLE", "STRING", "BOOL", "MAP"}

\* A double is a number: the time it gives in seconds.
toInstance(attribute) == attribute.type = "DOUBLE" => attribute.value \in Time

\* A map of attributes; of those with the same name the last one counts.
toAttributeMap(attribute) ==
  [name \in {a.name : a \in ToSet(attribute.nested)} |->
     Last(SelectSeq(attribute.nested, LAMBDA a : a.name = name))]

toAttribute(attribute) ==
  IF attribute.type = "MAP" THEN [attribute EXCEPT !.nested = toAttributeMap(attribute)]
  ELSE attribute

\* The maps that templates hold are maps of scalars.
toAttributeFails(attribute) ==
  LET scalars == IF attribute.type = "MAP" THEN ToSet(attribute.nested) ELSE {attribute}
  IN  ~(attribute.type \in classMap /\ \A a \in scalars : a.type \in classMap /\ toInstance(a))

\* Mutant: an attribute that is there is kept.
addAttributesAfter(element, attributes) ==
  LET added == [i \in DOMAIN element.opendse |-> toAttribute(element.opendse[i])]
      names == {a.name : a \in ToSet(added)}
  IN  [name \in DOMAIN attributes \cup names |->
         IF name \in DOMAIN attributes THEN attributes[name]
         ELSE Last(SelectSeq(added, LAMBDA a : a.name = name))]

\* An attribute is added under a name with a prefix, as a text, and an OpenDSE
\* attribute under its own name; of those with the same name the last one counts.
addAttributes(element, attributes) ==
  LET texts == [i \in DOMAIN element.attributes |->
                  [type |-> "STRING", name |-> <<"vpc", element.attributes[i].type>>]]
      added == texts \o [i \in DOMAIN element.opendse |-> toAttribute(element.opendse[i])]
      names == {a.name : a \in ToSet(added)}
  IN  [name \in DOMAIN attributes \cup names |->
         IF name \in names THEN Last(SelectSeq(added, LAMBDA a : a.name = name))
         ELSE attributes[name]]

-----------------------------------------------------------------------------
(* toArchitecture *)

componentsOf(template) ==
  SelectSeq(template.resources, LAMBDA element : element.tag = "component")

Resources(template) == {c.name : c \in ToSet(componentsOf(template))}

\* Components have different names, and the ends of links are not optional.
architectureFails(template) ==
  \/ \E element \in ToSet(componentsOf(template)) \cup ToSet(template.links) :
       \E a \in ToSet(element.opendse) : toAttributeFails(a)
  \/ ~IsInjective([i \in DOMAIN componentsOf(template) |-> componentsOf(template)[i].name])
  \/ \E link \in ToSet(template.links) :
       \/ missing(link.source, Resources(template))
       \/ missing(link.target, Resources(template))

\* The edges of the links; one that is not directed leads both ways.
toArchitecture(template) ==
  UNION {LET there == found(link.source, Resources(template))
                        \X found(link.target, Resources(template))
         IN  there \cup IF link.directed THEN {} ELSE {<<e[2], e[1]>> : e \in there} :
           link \in ToSet(template.links)}

-----------------------------------------------------------------------------
(* toMappings *)

ActorDelay == <<"vpc", "actor-delay">>

\* The name of a timing is read from the attribute "name", which the document
\* type does not have: it has fname.
timingName(timing) == ""

timingsClash(element) ==
  \E i, k \in DOMAIN element.timings :
    i # k /\ timingName(element.timings[i]) = timingName(element.timings[k])

\* The timings of a mapping: a map to their delays.
vpcActorDelay(element) ==
  [type |-> "MAP", name |-> ActorDelay,
   nested |-> [name \in {timingName(t) : t \in ToSet(element.timings)} |->
                 [type |-> "DOUBLE", name |-> name, value |-> Last(element.timings).delay]]]

\* An end that is missing has to be optional; if it is named it stands for null,
\* which cannot be mapped, or mapped to, when there is anything at the other end.
mappingFails(element, resources) ==
  \/ \E end \in {"source", "target"} :
       LET other == IF end = "source" THEN "target" ELSE "source"
           vertices == [source |-> Task, target |-> resources]
       IN  /\ missing(element[end], vertices[end])
           /\ \/ ~element[end].optional
              \/ /\ element[end].named
                 /\ ~missing(element[other], vertices[other]) \/ element[other].named
  \/ \E t \in ToSet(element.timings) : t.delay \notin Time
  \/ timingsClash(element)
  \/ \E a \in ToSet(element.opendse) : toAttributeFails(a)

\* Each mapping of a task to a resource remembers the element it comes from.
toMappings(template) ==
  UNION {LET element == template.mappings[k]
             delays  == IF element.timings = <<>> THEN <<>>
                        ELSE ActorDelay :> vpcActorDelay(element)
         IN  [element : {k}, source : found(element.source, Task),
              target : found(element.target, Resources(template)),
              attributes : {addAttributes(element, delays)}] :
           k \in DOMAIN template.mappings}

\* A template that cannot be imported: there is nothing to explore.
VPCConfigImporterFails(template) ==
  \/ architectureFails(template)
  \/ \E k \in DOMAIN template.mappings :
       mappingFails(template.mappings[k], Resources(template))

ASSUME TemplateAssumption == ~VPCConfigImporterFails(Template)

=============================================================================
