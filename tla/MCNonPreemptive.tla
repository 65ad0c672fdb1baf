--------------------------- MODULE MCNonPreemptive ---------------------------
(* Small instances of NonPreemptiveComponent for TLC. *)
EXTENDS NonPreemptiveComponent

CONSTANTS a, b, c, m, n   \* model values

\* A pipeline: a, fed from outside, sends to b over hop m of the same
\* component; n is a hop of routes between other components.  b is the more
\* urgent actor and waits for one input that takes time to read.
PipeDelay    == [j \in Job |-> IF j = b THEN 2 ELSE 1]
PipeLatency  == [j \in Job |-> CASE j = n -> 3 [] j = m -> 1 [] OTHER -> 2]
PipePriority == [j \in Job |-> IF j = a THEN 2 ELSE 1]
PipeRemote   == [t \in Task |-> IF t = b THEN 1 ELSE 0]
PipeSucc     == [t \in Task |-> IF t = a THEN b ELSE NoTask]
PipeHop      == [t \in Task |-> IF t = a THEN m ELSE NoTask]

\* Actors without channels between them, some of them periodic.
AloneSucc    == [t \in Task |-> NoTask]
AlonePeriod  == [t \in Periodic |-> IF t = a THEN 4 ELSE 8]
AloneLatency == [j \in Job |-> IF j = a THEN 4 ELSE 2]

\* Two periodic actors, of which a sends to b, which is slow at times: a may
\* have no place for its output when it is released, and is announced again, in
\* time for its next release or after it.
ForkSucc     == [t \in Task |-> IF t = a THEN b ELSE NoTask]
ForkPeriod   == [t \in Periodic |-> IF t = a THEN 4 ELSE 6]
ForkNoHop    == [t \in Task |-> NoTask]

=============================================================================
