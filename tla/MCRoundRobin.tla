---------------------------- MODULE MCRoundRobin ----------------------------
(* Small instances of RoundRobinComponent for TLC. *)
EXTENDS RoundRobinComponent

CONSTANTS a, b, c, m, n   \* model values

\* Actor a, fed from outside, sends to b over hop m of the same component;
\* c, fed from outside, has a guard; n is a hop of other routes.
LineOrder   == <<c, a, b>>
LineSucc    == [t \in Task |-> IF t = a THEN b ELSE NoJob]
LineHop     == [t \in Task |-> IF t = a THEN m ELSE NoJob]
LineMessage == [j \in Msg |-> IF j = m THEN [dii |-> 1, latency |-> 1]
                              ELSE [dii |-> 1, latency |-> 2]]

\* Power modes, with functions of actor a that have timings of their own.
LineModes   == {"SLOW", "FAST"}
LineTimings ==
  [mode \in LineModes |->
     LET one == [dii |-> 1, latency |-> 1]
         two == IF mode = "SLOW" THEN [dii |-> 1, latency |-> 2] ELSE one
     IN  ("read" :> one) @@ (b :> two) @@ (c :> one) @@ (a :> two)]
LineActions == [t \in Task |-> IF t = a THEN <<"read", "run">> ELSE <<"run">>]
LineGuards  == [t \in Task |-> IF t = c THEN <<"test">> ELSE <<>>]
NoGuards    == [t \in Task |-> 0]
NoFactor    == [mode \in LineModes |-> 0]
LineIdle    == [mode \in LineModes |-> IF mode = "SLOW" THEN 1 ELSE 2]
LineRunning == [mode \in LineModes |-> IF mode = "SLOW" THEN 3 ELSE 4]

\* A deadline from a to b, and before it one of message n alone.
StartFirst == {<<c, a, b, m, n>>, <<a, n, b, c, m>>}
Result     == [start |-> a, ends |-> <<[end |-> b, deadline |-> 1]>>]
Transfer   == [start |-> n, ends |-> <<[end |-> n, deadline |-> 1]>>]
OneInfo    == <<Result>>
TwoInfos   == <<Transfer, Result>>

\* Of the two the monitor can supervise the first.
ASSUME SupervisableInstance == Supervisable <=> DeadlineInfos = OneInfo

=============================================================================
