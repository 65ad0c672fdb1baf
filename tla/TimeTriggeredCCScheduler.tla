----------------------- MODULE TimeTriggeredCCScheduler -----------------------
(***************************************************************************)
(* TimeTriggeredCCScheduler: static slots only.  The time of a slot stands *)
(* still for the scheduler while it is not asked because there is no task. *)
(***************************************************************************)
EXTENDS StaticSegment

State == [class : {"TTCC"}, fifo : [DOMAIN Slots -> Seq(Job)], slot : 0..Len(Slots),
          slice : 0..Longest, since : 0..Longest, cycle : 0..(2 * CycleRound - 1),
          params : [Job -> Job], own : [Job -> Job], ids : 0..Len(SharedIds)]

initial ==
  [class |-> "TTCC", fifo |-> noTasks, slot |-> 0, slice |-> 0, since |-> 0, cycle |-> 0,
   params |-> asConfigured, own |-> asConfigured, ids |-> 0]

addedNewTask(s, j) == registered([s EXCEPT !.fifo = enqueued(@, j)], j)

removedTask(s, j) == [s EXCEPT !.fifo = dequeued(@, j)]

static(s, running) ==
  IF aged(s).slice = 0 THEN slotStarts(nextSlot(aged(s)), running)
  ELSE withinSlot(aged(s), running)

\* Nothing happens within the last slot; the cycle starts again after it.
schedulingDecision(s, running) ==
  CASE s.slot < Len(Slots)                 -> static(s, running)
    [] s.slot = Len(Slots) /\ s.slice > 0  -> {noChange(aged(s))}
    [] s.slot = Len(Slots) /\ s.slice = 0  ->
         static([s EXCEPT !.slot = 0, !.cycle = nextCycle(@)], running)

\* Mutated getSchedulerTimeSlice: the end of a slot that nobody uses is not
\* waited for.
sliceOfRunning(s, ready, running) == IF running = NoTask THEN NoSlice ELSE s.slice

getSchedulerTimeSlice(s, ready, running) ==
  IF running = NoTask /\ \A i \in DOMAIN Slots : s.fifo[i] = <<>> THEN NoSlice ELSE s.slice

elapsed(s) == [s EXCEPT !.since = elapsedSince(@)]

\* A task runs in its own slot, in a cycle its parameters allow, as long as the
\* slot.
slotRespected(s, running) ==
  SlotOf[running] = s.slot /\ allowed(s, running) /\ s.since < s.slice

=============================================================================
