--------------------------- MODULE PriorityScheduler ---------------------------
(***************************************************************************)
(* PriorityScheduler, and RateMonotonicScheduler, whose code is the same:  *)
(* it compares priorities, not periods.                                    *)
(***************************************************************************)
EXTENDS SchedulingDecision

CONSTANT Priority   \* of each job: the lesser value goes first

PriorityAssumption == Priority \in [Job -> Int]

\* pqueue, in the order of fifo_order.
State == [class : {"PRIORITY"}, queue : Seq(Job)]

initial == [class |-> "PRIORITY", queue |-> <<>>]

addedNewTask(s, j) == [s EXCEPT !.queue = Append(@, j)]

\* It knows the waiting tasks only and has nothing to remove.
removedTask(s, j) == s

\* The top of pqueue: the first one of the least priority value.
top(q) ==
  q[CHOOSE i \in DOMAIN q : \A k \in DOMAIN q :
      \/ Priority[q[i]] < Priority[q[k]]
      \/ Priority[q[i]] = Priority[q[k]] /\ i <= k]

\* Mutated schedulingDecision: the preempted task is not put back into pqueue.
decisionForgets(s, running) ==
  IF s.queue = <<>> THEN {noChange(s)}
  ELSE LET j == top(s.queue)
       IN  IF running # NoTask /\ Priority[running] <= Priority[j] THEN {noChange(s)}
           ELSE {switch(running, j, [s EXCEPT !.queue = without(@, j)])}

\* A preempted task gets the fifo_order 0, ahead of all of its priority.
schedulingDecision(s, running) ==
  IF s.queue = <<>> THEN {noChange(s)}
  ELSE LET j    == top(s.queue)
           back == IF running = NoTask THEN <<>> ELSE <<running>>
       IN  IF running # NoTask /\ Priority[running] <= Priority[j] THEN {noChange(s)}
           ELSE {switch(running, j, [s EXCEPT !.queue = back \o without(@, j)])}

getSchedulerTimeSlice(s, ready, running) == NoSlice

elapsed(s) == s

=============================================================================
