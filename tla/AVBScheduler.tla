------------------------------ MODULE AVBScheduler ------------------------------
(***************************************************************************)
(* AVBScheduler: the credit based shaper.  A level of priority may send    *)
(* while its credit is not negative; it pays for what the line carries for *)
(* it and earns its share of the line otherwise.  There is no preemption.  *)
(*                                                                         *)
(* Level i may use one Share[i]-th of the line, and its credit is counted  *)
(* in units of one Share[i]-th of the time.                                *)
(***************************************************************************)
EXTENDS SchedulingDecision

CONSTANTS Share,        \* of each level in the order of p_list, the default one last
          LevelOf,      \* the first level of a job whose number is not less
          CreditBound   \* Bound: more credit, or a longer idle time, is not told apart

ShareAssumption ==
  /\ Share \in Seq(Nat \ {0}) /\ Share # <<>> /\ Share[Len(Share)] = 1
  /\ LevelOf \in [Job -> DOMAIN Share]
  /\ CreditBound \in Nat \ {0}

Level == DOMAIN Share

\* p_list, the level last_active or 0, and the time since time_last_assign.
\* The thread asks for the first decision at time 0: firstrun is of no effect.
State == [class : {"AVB"}, queue : [Level -> Seq(Job)], credit : [Level -> Int],
          wasEmpty : [Level -> BOOLEAN], lastActive : {0} \cup Level, since : 0..CreditBound]

initial ==
  [class |-> "AVB", queue |-> [i \in Level |-> <<>>], credit |-> [i \in Level |-> 0],
   wasEmpty |-> [i \in Level |-> TRUE], lastActive |-> 0, since |-> 0]

empty(s, i) == s.queue[i] = <<>>

addedNewTask(s, j) ==
  [s EXCEPT !.queue[LevelOf[j]] = Append(@, j),
            !.wasEmpty[LevelOf[j]] = @ \/ empty(s, LevelOf[j])]

removedTask(s, j) == s

\* increment_credit or decrement_credit since the last decision.
changed(s, i) ==
  LET c == s.credit[i] + (IF i = s.lastActive THEN -s.since * (Share[i] - 1) ELSE s.since)
  IN  IF c > CreditBound THEN CreditBound ELSE c

\* A level starts anew with no credit.
settled(c) == IF c > 0 THEN 0 ELSE c

\* A level that has just got its first task.
begins(s, i) == s.wasEmpty[i] /\ ~empty(s, i) /\ i # s.lastActive

\* The credits while a task is running ...
creditRunning(s, i) ==
  CASE i = s.lastActive                      -> changed(s, i)
    [] i # s.lastActive /\ ~empty(s, i)      -> IF begins(s, i) THEN settled(changed(s, i))
                                                ELSE changed(s, i)
    [] i # s.lastActive /\ empty(s, i)       -> IF s.credit[i] < 0 THEN settled(changed(s, i))
                                                ELSE s.credit[i]

\* ... and when one has ended.
creditEnded(s, i) ==
  IF empty(s, i) \/ begins(s, i) THEN settled(changed(s, i)) ELSE changed(s, i)

afterRunning(s) ==
  [s EXCEPT !.credit   = [i \in Level |-> creditRunning(s, i)],
            !.wasEmpty = [i \in Level |-> s.wasEmpty[i] /\ i # s.lastActive /\ empty(s, i)],
            !.since    = 0]

afterEnd(s) ==
  [s EXCEPT !.credit   = [i \in Level |-> creditEnded(s, i)],
            !.wasEmpty = [i \in Level |-> s.wasEmpty[i] /\ ~(begins(s, i) /\ changed(s, i) >= 0)],
            !.since    = 0]

\* The levels a task may be taken from.
mayBeSent(s) == {i \in Level : ~empty(s, i) /\ s.credit[i] >= 0}

schedulingDecision(s, running) ==
  LET e    == afterEnd(s)
      open == mayBeSent(e)
      i    == Min(open)
  IN  CASE running # NoTask                -> {noChange(afterRunning(s))}
        [] running = NoTask /\ open = {}   -> {noChange([e EXCEPT !.lastActive = 0])}
        [] running = NoTask /\ open # {}   ->
             {onlyAssign(Head(e.queue[i]),
                         [e EXCEPT !.queue[i] = Tail(@), !.lastActive = i])}

\* AVBScheduler.cpp:94, which is evaluated before the task is assigned.
assertion(s, ready, running) == ready = {} \/ running # NoTask \/ mayBeSent(s) = {}

\* Until a level has its credit back; 0 if the only task is just assigned.
getSchedulerTimeSlice(s, ready, running) ==
  LET waiting == {-s.credit[i] : i \in {k \in Level : ~empty(s, k)}}
  IN  CASE ready = {} \/ running # NoTask                     -> NoSlice
        [] ready # {} /\ running = NoTask /\ waiting = {}     -> 0
        [] ready # {} /\ running = NoTask /\ waiting # {}     ->
             Min(waiting)

elapsed(s) == [s EXCEPT !.since = IF @ = CreditBound THEN @ ELSE @ + 1]

=============================================================================
