--------------------------- MODULE SchedulingDecision ---------------------------
(***************************************************************************)
(* The interface between a PreemptiveComponent and its scheduler.  Every   *)
(* scheduler is a module of operators on its state s, a record whose field *)
(* "class" names it:                                                       *)
(*   addedNewTask(s, j), removedTask(s, j)   the state afterwards          *)
(*   schedulingDecision(s, running)          the decisions it may take     *)
(*   getSchedulerTimeSlice(s, ready, running) the longest wait, or NoSlice *)
(*   elapsed(s)                              one unit of time has passed   *)
(***************************************************************************)
EXTENDS SequencesExt, Integers

CONSTANTS Job,     \* the task instances of the component
          NoTask   \* the null pointer

JobAssumption == NoTask \notin Job

NoSlice == -1

\* A decision, and the state of the scheduler after it.
decide(decision, resign, assign, s) ==
  [decision |-> decision, resign |-> resign, assign |-> assign, state |-> s]

noChange(s)      == decide("NOCHANGE", NoTask, NoTask, s)
onlyAssign(j, s) == decide("ONLY_ASSIGN", NoTask, j, s)
resigned(r, s)   == decide("RESIGNED", r, NoTask, s)
preempt(r, j, s) == decide("PREEMPT", r, j, s)

\* Task j goes to the running state, whoever is in it, or the running task
\* is taken out of it.
switch(running, j, s) ==
  IF running = NoTask THEN onlyAssign(j, s) ELSE preempt(running, j, s)

stopRunning(running, s) ==
  IF running = NoTask THEN noChange(s) ELSE resigned(running, s)

\* The first occurrence of j is erased, if there is one.
without(q, j) == RemoveFirst(q, j)

\* Where slots of these lengths start; the last entry is the end of them all.
startsOf(lengths) ==
  LET start[i \in 1..(Len(lengths) + 1)] ==
        IF i = 1 THEN 0 ELSE start[i - 1] + lengths[i - 1]
  IN  start

\* A time that has passed is not told from one that has passed for longer.
until(n) == IF n > 0 THEN n ELSE 0

=============================================================================
