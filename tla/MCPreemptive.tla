----------------------------- MODULE MCPreemptive -----------------------------
(* Small instances of PreemptiveComponent for TLC. *)
EXTENDS PreemptiveComponent

CONSTANTS a, b, p, n   \* model values

Jobs == Task \cup Msg

\* a is the least urgent, the messages n are the most urgent.
JobPriority == [j \in Jobs |-> IF j = a THEN 3 ELSE IF j = b THEN 2 ELSE 1]

\* All jobs but n are longer than the time slice and than some of the slots,
\* one of them by more than 1.
LongDelay   == [j \in Jobs |-> IF j = a THEN 4 ELSE IF j = b THEN 3 ELSE 1]

\* Two slots in a cycle: a and n in the first one, b in the second one, of which
\* it may use every second cycle only in TTCC.
zeroBut(j, k) == [i \in Jobs |-> IF i = j THEN k ELSE 0]

TwoSlots == [slots |-> <<2, 3>>, slotOf |-> [j \in Jobs |-> IF j = b THEN 2 ELSE 1]]

CycledSlots ==
  [slots |-> TwoSlots.slots, slotOf |-> TwoSlots.slotOf, offset |-> zeroBut(b, 1),
   multiplex |-> zeroBut(b, 1), dynamic |-> <<>>, length |-> 0]

\* One static slot for b, then two dynamic slots.
Frames ==
  [slots |-> <<2>>, slotOf |-> [j \in Jobs |-> IF j = b THEN 1 ELSE IF j = n THEN 2 ELSE 3],
   offset |-> zeroBut(b, 1), multiplex |-> zeroBut(b, 1), dynamic |-> <<1, 2>>, length |-> 3]

\* Attributes that set these up: n has no binding for TDMA and TTCC, and b a
\* second one that counts, to a slot that does not come before it for TDMA.
ASSUME AttributesAssumption ==
  /\ TwoSlots =
       tdmaTable(<<slot("slot0", 2, "ns"), binding(b, "slot0"), slot("slot1", 1, "us"),
                   slot("slot2", 3, "ns"), binding(a, "slot0"), binding(b, "slot3"),
                   slot("slot3", 4, "us")>>)
  /\ CycledSlots =
       flexRayTable(
         [static  |-> <<[name |-> "slot1", length |-> 2, tasks |-> <<mapping(a, 0, 0)>>],
                        [name |-> "slot2", length |-> 3, tasks |-> <<mapping(b, 1, 1)>>]>>,
          dynamic |-> <<>>, length |-> 0])
  /\ Frames =
       flexRayTable(
         [static  |-> <<[name |-> "slot1", length |-> 2,
                         tasks |-> <<mapping(a, 0, 0), mapping(b, 1, 1)>>]>>,
          dynamic |-> <<[name |-> "slot2", length |-> 1, tasks |-> <<mapping(n, 0, 0)>>],
                        [name |-> "slot3", length |-> 2,
                         tasks |-> <<mapping(a, 0, 0), mapping(p, 0, 0)>>]>>,
          length  |-> 3])

\* The first instance in a static slot has the id of the process b.
FirstIds == <<b>>

\* A level that may use half of the line, and the default one.
HalfTheLine == <<2, 1>>
JobLevel    == [j \in Jobs |-> IF j = n THEN 1 ELSE 2]

\* The periodic actors a and p leave the component idle at times.
TaskPeriod  == [t \in Periodic |-> IF t = a THEN 4 ELSE 6]
TaskOffset  == [t \in Periodic |-> IF t = a THEN 1 ELSE 2]
UnitDelay   == [j \in Jobs |-> 1]

=============================================================================
