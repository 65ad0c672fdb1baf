-------------------------- MODULE RoundRobinScheduler --------------------------
(***************************************************************************)
(* RoundRobinScheduler: a task runs for a time slice and goes to the end   *)
(* of the queue.                                                           *)
(***************************************************************************)
EXTENDS SchedulingDecision

CONSTANT TimeSlice   \* the attribute "timeslice"

TimeSliceAssumption == TimeSlice \in Nat \ {0}

Passed == -1

\* rr_fifo, and the time to timeSliceExpires_ or Passed.
State == [class : {"ROUNDROBIN"}, queue : Seq(Job), expires : {Passed} \cup Nat]

initial == [class |-> "ROUNDROBIN", queue |-> <<>>, expires |-> 0]

addedNewTask(s, j) == [s EXCEPT !.queue = Append(@, j)]

removedTask(s, j) == [s EXCEPT !.queue = without(@, j)]

\* RoundRobinScheduler.cpp:96: the slice of a running task has not passed.
assertion(s, running) == s.expires # Passed \/ running = NoTask

\* assignFromFront starts a new time slice.
fromFront(s) == [s EXCEPT !.queue = Tail(@), !.expires = TimeSlice]

\* Mutated schedulingDecision: an expired slice does not preempt.
decisionKeeps(s, running) ==
  IF s.queue = <<>> \/ running # NoTask THEN {noChange(s)}
  ELSE {onlyAssign(Head(s.queue), fromFront(s))}

\* The next task is assigned when the running one has finished or its slice
\* has expired; without a waiting task nothing changes, and no slice starts.
schedulingDecision(s, running) ==
  IF s.queue = <<>> \/ (running # NoTask /\ s.expires # 0) THEN {noChange(s)}
  ELSE LET back == IF running = NoTask THEN <<>> ELSE <<running>>
       IN  {switch(running, Head(s.queue), [fromFront(s) EXCEPT !.queue = @ \o back])}

getSchedulerTimeSlice(s, ready, running) ==
  IF (s.queue # <<>> \/ running # NoTask) /\ s.expires > 0 THEN s.expires ELSE NoSlice

elapsed(s) == [s EXCEPT !.expires = IF @ = Passed THEN @ ELSE @ - 1]

=============================================================================
