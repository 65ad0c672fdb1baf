--------------------------- MODULE DeadlineMonitor ---------------------------
(***************************************************************************)
(* The observer that supervises deadlines between the release of a start   *)
(* actor and the end of the latency of its end actors.                     *)
(***************************************************************************)
EXTENDS Integers, SequencesExt

CONSTANTS Actor,         \* the actors and message hops observed
          NoActor,       \* the null pointer
          DeadlineInfos  \* the startActor attributes: [start, ends], with the
                         \* endActor attributes [end, deadline] as a sequence

State ==
  [tasks             : SUBSET Actor,                        \* those created so far
   endActors         : [Actor -> Seq([end : Actor, deadline : Nat])],
   pendingEndActors  : SUBSET [start : Actor, end : Actor], \* ends not created
   reportGroupReport : [Actor -> Actor \cup {NoActor}],     \* named by its start
   activeDeadlines   : [Actor -> Seq(Int)]]                 \* times to them

nothing ==
  [tasks |-> {}, pendingEndActors |-> {},
   endActors         |-> [t \in Actor |-> <<>>],
   reportGroupReport |-> [t \in Actor |-> NoActor],
   activeDeadlines   |-> [t \in Actor |-> <<>>]]

\* matchStartActor clears the list it fills before it compares the names: t
\* is left with the end actors of the last attribute, if that names t.
matched(t) ==
  LET last == DeadlineInfos[Len(DeadlineInfos)]
  IN  IF DeadlineInfos # <<>> /\ last.start = t THEN last.ends ELSE <<>>

\* The end actors of t, named by any attribute, that are still to be created.
unresolved(s, t) ==
  {[start |-> t, end |-> e.end] :
     e \in {e \in UNION {Range(i.ends) : i \in {i \in Range(DeadlineInfos) : i.start = t}} :
              e.end \notin s.tasks \cup {t}}}

\* taskOperation, ALLOCATE: the start actor that waits for t gets to know it,
\* then t, if it is a start actor, its end actors, if they are created.
allocate(s, t) ==
  LET waited == {p \in s.pendingEndActors : p.end = t}
  IN  [s EXCEPT
        !.tasks = @ \cup {t},
        !.reportGroupReport[t] =
          IF waited = {} THEN @ ELSE (CHOOSE p \in waited : TRUE).start,
        !.endActors[t] = matched(t),
        !.pendingEndActors = (@ \ waited) \cup unresolved(s, t)]

\* The tasks are created in the order in which the actors are registered.
allocated(order) == FoldLeft(allocate, nothing, order)

\* Mutated started: the deadline is not supervised if one is active.
startedOnce(s, e) ==
  IF s.activeDeadlines[e.end] # <<>> THEN s
  ELSE [s EXCEPT !.activeDeadlines[e.end] = Append(@, e.deadline)]

\* A deadline of an end actor begins.
started(s, e) == [s EXCEPT !.activeDeadlines[e.end] = Append(@, e.deadline)]

\* RELEASE begins the deadlines of a start actor, FINISHLAT ends the oldest
\* deadline of an end actor.
taskInstanceOperation(s, op, t) ==
  CASE op = "RELEASE"   -> FoldLeft(started, s, s.endActors[t])
    [] op = "FINISHLAT" -> IF s.activeDeadlines[t] = <<>> THEN s
                           ELSE [s EXCEPT !.activeDeadlines[t] = Tail(@)]
    [] OTHER            -> s

\* Bound: how far a deadline has passed is not told apart.
elapsed(s) ==
  [s EXCEPT !.activeDeadlines = [t \in Actor |->
     [i \in DOMAIN s.activeDeadlines[t] |->
        IF s.activeDeadlines[t][i] < 0 THEN -1 ELSE s.activeDeadlines[t][i] - 1]]]

=============================================================================
