----------------------------- MODULE MostScheduler -----------------------------
(***************************************************************************)
(* MostScheduler and its MostSecondaryScheduler: the streams use slots at  *)
(* the start of each cycle, as many and as long as they have been seen,    *)
(* and the other tasks the rest of the cycle.                              *)
(***************************************************************************)
EXTENDS SchedulingDecision

CONSTANTS Stream,      \* areaMap: the tasks announced by addStream
          Length,      \* getDelay() of each task
          Rank,        \* getPriority() of each task
          MostCycle    \* 1 / sysFreq

MostAssumption ==
  /\ Stream \subseteq Job
  /\ Length \in [Job -> Nat \ {0}] /\ Rank \in [Job -> Int]
  /\ MostCycle \in Nat \ {0}

\* Most_slots, Asynch_slots, curr_slicecount + 1, and the time modulo cycle.
State == [class : {"MOST"}, slots : Seq(Stream), async : Seq(Job), curr : Nat,
          clock : 0..(MostCycle - 1)]

initial == [class |-> "MOST", slots |-> <<>>, async |-> <<>>, curr |-> 0, clock |-> 0]

\* The first instance of a stream opens its slot, which stays.
addedNewTask(s, j) ==
  IF j \in Stream
  THEN [s EXCEPT !.slots = IF j \in ToSet(@) THEN @ ELSE Append(@, j)]
  ELSE [s EXCEPT !.async = Append(@, j)]

removedTask(s, j) == [s EXCEPT !.async = without(@, j)]

\* Where slot i ends, and all of them: setboundary.
slotEnd(s, i) == startsOf([k \in DOMAIN s.slots |-> Length[s.slots[k]]])[i + 1]

boundary(s) == slotEnd(s, Len(s.slots))

\* area
synchronous(s) == s.clock < boundary(s)

\* One slot per decision: currSlotStartTime is where the slots before end.
advanced(s) ==
  LET t == [s EXCEPT !.curr = IF @ = 0 THEN 1 ELSE @]
  IN  IF slotEnd(t, t.curr) <= t.clock THEN [t EXCEPT !.curr = @ + 1] ELSE t

\* The candidates are the instances of the slot's stream that are ready.
synchronousDecision(s, ready, running) ==
  LET j == s.slots[s.curr]
  IN  IF running # NoTask \/ j \notin ready THEN noChange(s) ELSE onlyAssign(j, s)

\* The last two tasks are compared, whatever came before them.
candidate(q) ==
  LET end == Len(q)
  IN  IF end = 1 \/ Rank[q[end]] > Rank[q[end - 1]] THEN q[end] ELSE q[end - 1]

rest(s) == MostCycle - s.clock

\* The oldest task is asked whether it fits into the cycle.
asynchronousDecision(s, running) ==
  LET t == [s EXCEPT !.curr = 0]
  IN  IF running # NoTask \/ s.async = <<>> \/ Length[Head(s.async)] > rest(s)
      THEN noChange(t) ELSE onlyAssign(candidate(s.async), t)

schedulingDecision(s, ready, running) ==
  IF synchronous(s) THEN {synchronousDecision(advanced(s), ready, running)}
  ELSE {asynchronousDecision(s, running)}

\* In a slot but the last the next one is waited for by its length, from now.
\* Without a task in Asynch_slots its first element is undefined, and both
\* outcomes of asking for it are the rest of the cycle.
getSchedulerTimeSlice(s, ready, running) ==
  CASE ready = {} /\ running = NoTask -> NoSlice
    [] (ready # {} \/ running # NoTask) /\ synchronous(s) ->
         IF s.curr = Len(s.slots) THEN boundary(s) - s.clock ELSE Length[s.slots[s.curr]]
    [] (ready # {} \/ running # NoTask) /\ ~synchronous(s) ->
         IF running = NoTask /\ s.async # <<>> /\ Length[Head(s.async)] <= rest(s)
         THEN 0 ELSE rest(s)

elapsed(s) == [s EXCEPT !.clock = (@ + 1) % MostCycle]

=============================================================================
