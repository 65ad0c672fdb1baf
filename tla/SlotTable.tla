------------------------------- MODULE SlotTable -------------------------------
(***************************************************************************)
(* What the schedulers with static slots share: the table of slots their   *)
(* attributes set up, the slot of each task, and the fifo of the tasks of  *)
(* a slot, which a task stays in while it is running.                      *)
(***************************************************************************)
EXTENDS SchedulingDecision

CONSTANTS Slots,    \* the lengths of the slots, in the order of the attributes
          SlotOf    \* PIDmap: the slot of each task

SlotsAssumption ==
  /\ Slots \in Seq(Nat \ {0}) /\ Slots # <<>>
  /\ SlotOf \in [Job -> Nat]

\* slotOffsets: where a slot starts; the last entry is the end of the cycle.
offsets == startsOf(Slots)

lastOffset == offsets[Len(Slots) + 1]

noTasks == [i \in DOMAIN Slots |-> <<>>]

enqueued(fifo, j) == [fifo EXCEPT ![SlotOf[j]] = Append(@, j)]

dequeued(fifo, j) == [fifo EXCEPT ![SlotOf[j]] = without(@, j)]

=============================================================================
