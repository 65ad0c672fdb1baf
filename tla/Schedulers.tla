------------------------------ MODULE Schedulers ------------------------------
(***************************************************************************)
(* The schedulers a PreemptiveComponent may have; the class in its state   *)
(* says which one it is (PreemptiveComponent::setScheduler).               *)
(***************************************************************************)
EXTENDS SchedulingDecision

CONSTANTS Delay,         \* the DII of each job
          Priority,      \* PRIORITY, MOST
          TimeSlice,     \* ROUNDROBIN
          TdmaTable, CcTable, FrameTable,   \* the slots of TDMA, TTCC and FLEXRAY
          CycleRound, Longest, SharedIds,   \* TTCC, FLEXRAY
          Microtick,                        \* FLEXRAY
          ShapeCycle,                       \* SHAPER
          Share, LevelOf, CreditBound,      \* AVB
          Stream, MostCycle,                \* MOST
          Policies                          \* the classes to choose from

Prio    == INSTANCE PriorityScheduler
Rr      == INSTANCE RoundRobinScheduler
Tdma    == INSTANCE TDMAScheduler WITH Slots <- TdmaTable.slots, SlotOf <- TdmaTable.slotOf
Ttcc    == INSTANCE TimeTriggeredCCScheduler
             WITH Slots <- CcTable.slots, SlotOf <- CcTable.slotOf,
                  Multiplex <- CcTable.multiplex, CycleOffset <- CcTable.offset
FlexRay == INSTANCE FlexRayScheduler
             WITH Slots <- FrameTable.slots, SlotOf <- FrameTable.slotOf,
                  Multiplex <- FrameTable.multiplex, CycleOffset <- FrameTable.offset,
                  Dynamic <- FrameTable.dynamic, DynLength <- FrameTable.length
Shaper  == INSTANCE StreamShaperScheduler
Avb     == INSTANCE AVBScheduler
Most    == INSTANCE MostScheduler WITH Length <- Delay, Rank <- Priority

ASSUME SchedulerAssumption ==
  /\ JobAssumption
  /\ Policies # {}
  /\ Policies \subseteq {"PRIORITY", "ROUNDROBIN", "TDMA", "TTCC", "FLEXRAY", "SHAPER",
                         "AVB", "MOST"}
  /\ Prio!PriorityAssumption /\ Rr!TimeSliceAssumption
  /\ Tdma!SlotsAssumption /\ Ttcc!SlotsAssumption /\ FlexRay!SlotsAssumption
  /\ \A table \in {TdmaTable, CcTable} : Range(table.slotOf) \subseteq DOMAIN table.slots
  /\ Range(FrameTable.slotOf) \subseteq 1..(Len(FrameTable.slots) + Len(FrameTable.dynamic))
  /\ Ttcc!MultiplexAssumption /\ FlexRay!MultiplexAssumption /\ FlexRay!DynamicAssumption
  /\ Shaper!ShapeCycleAssumption /\ Avb!ShareAssumption /\ Most!MostAssumption

initialSchedulers ==
  {s \in {Prio!initial, Rr!initial, Tdma!initial, Ttcc!initial, FlexRay!initial,
          Shaper!initial, Avb!initial, Most!initial} : s.class \in Policies}

schedulerTypeOK(s) ==
  CASE s.class = "PRIORITY"   -> s \in Prio!State
    [] s.class = "ROUNDROBIN" -> s \in Rr!State
    [] s.class = "TDMA"       -> s \in Tdma!State
    [] s.class = "TTCC"       -> s \in Ttcc!State
    [] s.class = "FLEXRAY"    -> s \in FlexRay!State
    [] s.class = "SHAPER"     -> s \in Shaper!State
    [] s.class = "AVB"        -> s \in Avb!State
    [] s.class = "MOST"       -> s \in Most!State

addedNewTask(s, j) ==
  CASE s.class = "PRIORITY"   -> Prio!addedNewTask(s, j)
    [] s.class = "ROUNDROBIN" -> Rr!addedNewTask(s, j)
    [] s.class = "TDMA"       -> Tdma!addedNewTask(s, j)
    [] s.class = "TTCC"       -> Ttcc!addedNewTask(s, j)
    [] s.class = "FLEXRAY"    -> FlexRay!addedNewTask(s, j)
    [] s.class = "SHAPER"     -> Shaper!addedNewTask(s, j)
    [] s.class = "AVB"        -> Avb!addedNewTask(s, j)
    [] s.class = "MOST"       -> Most!addedNewTask(s, j)

removedTask(s, j) ==
  CASE s.class = "PRIORITY"   -> Prio!removedTask(s, j)
    [] s.class = "ROUNDROBIN" -> Rr!removedTask(s, j)
    [] s.class = "TDMA"       -> Tdma!removedTask(s, j)
    [] s.class = "TTCC"       -> Ttcc!removedTask(s, j)
    [] s.class = "FLEXRAY"    -> FlexRay!removedTask(s, j)
    [] s.class = "SHAPER"     -> Shaper!removedTask(s, j)
    [] s.class = "AVB"        -> Avb!removedTask(s, j)
    [] s.class = "MOST"       -> Most!removedTask(s, j)

schedulingDecision(s, ready, running) ==
  CASE s.class = "PRIORITY"   -> Prio!schedulingDecision(s, running)
    [] s.class = "ROUNDROBIN" -> Rr!schedulingDecision(s, running)
    [] s.class = "TDMA"       -> Tdma!schedulingDecision(s, running)
    [] s.class = "TTCC"       -> Ttcc!schedulingDecision(s, running)
    [] s.class = "FLEXRAY"    -> FlexRay!schedulingDecision(s, running)
    [] s.class = "SHAPER"     -> Shaper!schedulingDecision(s, running)
    [] s.class = "AVB"        -> Avb!schedulingDecision(s, running)
    [] s.class = "MOST"       -> Most!schedulingDecision(s, ready, running)

getSchedulerTimeSlice(s, ready, running) ==
  CASE s.class = "PRIORITY"   -> Prio!getSchedulerTimeSlice(s, ready, running)
    [] s.class = "ROUNDROBIN" -> Rr!getSchedulerTimeSlice(s, ready, running)
    [] s.class = "TDMA"       -> Tdma!getSchedulerTimeSlice(s, ready, running)
    [] s.class = "TTCC"       -> Ttcc!getSchedulerTimeSlice(s, ready, running)
    [] s.class = "FLEXRAY"    -> FlexRay!getSchedulerTimeSlice(s, ready, running)
    [] s.class = "SHAPER"     -> Shaper!getSchedulerTimeSlice(s, ready, running)
    [] s.class = "AVB"        -> Avb!getSchedulerTimeSlice(s, ready, running)
    [] s.class = "MOST"       -> Most!getSchedulerTimeSlice(s, ready, running)

elapsed(s) ==
  CASE s.class = "PRIORITY"   -> Prio!elapsed(s)
    [] s.class = "ROUNDROBIN" -> Rr!elapsed(s)
    [] s.class = "TDMA"       -> Tdma!elapsed(s)
    [] s.class = "TTCC"       -> Ttcc!elapsed(s)
    [] s.class = "FLEXRAY"    -> FlexRay!elapsed(s)
    [] s.class = "SHAPER"     -> Shaper!elapsed(s)
    [] s.class = "AVB"        -> Avb!elapsed(s)
    [] s.class = "MOST"       -> Most!elapsed(s)

\* The assertions of the schedulers, before they decide ...
decisionAssertion(s, running) == s.class = "ROUNDROBIN" => Rr!assertion(s, running)

\* ... and when they are asked for the time slice.
sliceAssertion(s, ready, running) == s.class = "AVB" => Avb!assertion(s, ready, running)

\* The queues the scheduler holds its task instances in, and the instances of
\* the component it has to hold: the waiting ones, or those in its slots.
fifos(s) ==
  CASE s.class \in {"PRIORITY", "ROUNDROBIN"} -> <<s.queue>>
    [] s.class = "SHAPER"                     -> <<s.fifo>>
    [] s.class = "AVB"                        -> s.queue
    [] s.class = "MOST"                       -> <<s.async>>
    [] s.class \in {"TDMA", "TTCC", "FLEXRAY"} -> s.fifo

\* The places of task instance j: queue i, position k.
placesOf(s, j) ==
  {place \in UNION {{i} \X DOMAIN fifos(s)[i] : i \in DOMAIN fifos(s)} :
     fifos(s)[place[1]][place[2]] = j}

responsible(s, ready, running) ==
  CASE s.class \in {"PRIORITY", "ROUNDROBIN", "SHAPER", "AVB"} -> ready
    [] s.class = "MOST"                        -> (ready \cup {running}) \ (Stream \cup {NoTask})
    [] s.class \in {"TDMA", "TTCC", "FLEXRAY"} -> (ready \cup {running}) \ {NoTask}

\* The running task is in its slot.
slotRespected(s, running) ==
  CASE s.class = "TDMA"    -> Tdma!slotRespected(s, running)
    [] s.class = "TTCC"    -> Ttcc!slotRespected(s, running)
    [] s.class = "FLEXRAY" -> FlexRay!slotRespected(s, running)
    [] OTHER               -> TRUE

-----------------------------------------------------------------------------
(* The slots that the attributes of a scheduler set up, and the tasks they *)
(* bind to the slots.  Slots are bound by name: one without a slot of that *)
(* name silently goes to the last one.                                     *)

\* The search of _setProperty, in slots with names; it is asserted that there
\* is a slot.
found(slots, name) ==
  LET named == {i \in DOMAIN slots : slots[i].name = name}
  IN  IF named = {} THEN Len(slots) ELSE CHOOSE i \in named : \A k \in named : i <= k

lengths(slots) == [i \in DOMAIN slots |-> slots[i].length]

-----------------------------------------------------------------------------
(* TDMAScheduler.  An attribute defines a slot (type "slotX") or binds a    *)
(* task (value "slotX"), and they are kept until initialize().             *)

slot(name, length, unit) == [type |-> "slot", name |-> name, length |-> length, unit |-> unit]
binding(j, name)         == [type |-> "task", name |-> name, task |-> j]

\* A slot counts only if its length is given in ns.
tdmaSlots(properties) ==
  SelectSeq(properties, LAMBDA p : p.type = "slot" /\ p.unit = "ns")

binds(p, j) == p.type = "task" /\ p.task = j

\* The last binding of a task counts, and finds the slots that come before it.
\* A task without one is bound to "slot0" when it first becomes ready.
tdmaSlotOf(properties) ==
  [j \in Job |->
     LET i == SelectLastInSeq(properties, LAMBDA p : binds(p, j))
     IN  IF i = 0 THEN found(tdmaSlots(properties), "slot0")
         ELSE found(tdmaSlots(SubSeq(properties, 1, i)), properties[i].name)]

tdmaTable(properties) ==
  [slots |-> lengths(tdmaSlots(properties)), slotOf |-> tdmaSlotOf(properties)]

-----------------------------------------------------------------------------
(* TimeTriggeredCCScheduler and FlexRayScheduler.  The attribute           *)
(* FlexRayParams has static and dynamic slots, and these have mappings.    *)

mapping(j, offset, multiplex) == [task |-> j, offset |-> offset, multiplex |-> multiplex]

\* The bindings in the order of the mappings: the last one of a task counts.
\* Only those in static slots set its parameters.
mappings(slots) ==
  FlattenSeq([i \in DOMAIN slots |->
    [k \in DOMAIN slots[i].tasks |->
       [name |-> slots[i].name, mapping |-> slots[i].tasks[k]]]])

lastOf(bindings, j) == SelectLastInSeq(bindings, LAMBDA p : p.mapping.task = j)

\* A static slot of that name comes before a dynamic one; a task that is not
\* bound has the first slot, as PIDmap has 0 for it.
slotOf(params) ==
  LET bindings == mappings(params.static \o params.dynamic)
  IN  [j \in Job |->
         IF lastOf(bindings, j) = 0 THEN 1
         ELSE found(params.static \o params.dynamic, bindings[lastOf(bindings, j)].name)]

\* ProcessParams: 0 unless the last static mapping of the task says otherwise.
processParams(params) ==
  LET bindings == mappings(params.static)
  IN  [j \in Job |->
         IF lastOf(bindings, j) = 0 THEN mapping(j, 0, 0)
         ELSE bindings[lastOf(bindings, j)].mapping]

\* setAttribute, initialize.  All slots have lengths (30us is the default of a
\* dynamic one), and there is a dynamic slot unless all names are found.
flexRayTable(params) ==
  [slots     |-> lengths(params.static),
   slotOf    |-> slotOf(params),
   offset    |-> [j \in Job |-> processParams(params)[j].offset],
   multiplex |-> [j \in Job |-> processParams(params)[j].multiplex],
   dynamic   |-> lengths(params.dynamic),
   length    |-> params.length]

=============================================================================
