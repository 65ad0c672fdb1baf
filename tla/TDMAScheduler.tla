----------------------------- MODULE TDMAScheduler -----------------------------
(***************************************************************************)
(* TDMAScheduler: the slot is read off the clock in every decision.        *)
(***************************************************************************)
EXTENDS SlotTable

\* pid_fifo of each slot, and the time modulo tdmaCycle.
State == [class : {"TDMA"}, fifo : [DOMAIN Slots -> Seq(Job)], clock : 0..(lastOffset - 1)]

initial == [class |-> "TDMA", fifo |-> noTasks, clock |-> 0]

addedNewTask(s, j) == [s EXCEPT !.fifo = enqueued(@, j)]

removedTask(s, j) == [s EXCEPT !.fifo = dequeued(@, j)]

\* slotOffsets.upper_bound(cycleTime) and the slot before it.
current(s) == CHOOSE i \in DOMAIN Slots : offsets[i] <= s.clock /\ s.clock < offsets[i + 1]

\* front() of an empty fifo is undefined: what is read there may be the
\* number of the running task, which then runs on in a slot that nobody uses.
schedulingDecision(s, running) ==
  LET q == s.fifo[current(s)]
  IN  CASE q # <<>> /\ running = Head(q) -> {noChange(s)}
        [] q # <<>> /\ running # Head(q) -> {switch(running, Head(q), s)}
        [] q = <<>>                      -> {stopRunning(running, s), noChange(s)}

\* The rest of the slot, unless there is no task at all.
getSchedulerTimeSlice(s, ready, running) ==
  IF \A i \in DOMAIN Slots : s.fifo[i] = <<>> THEN NoSlice
  ELSE offsets[current(s) + 1] - s.clock

elapsed(s) == [s EXCEPT !.clock = (@ + 1) % lastOffset]

\* A task runs in its own slot, or in one that nobody uses.
slotRespected(s, running) ==
  SlotOf[running] = current(s) \/ s.fifo[current(s)] = <<>>

=============================================================================
