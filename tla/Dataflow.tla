------------------------------- MODULE Dataflow -------------------------------
(***************************************************************************)
(* What the schedulers of the library promise the application: actors that *)
(* are connected by bounded channels fire as they would without any        *)
(* timing, only later.                                                     *)
(***************************************************************************)
EXTENDS Integers

CONSTANTS Task, NoTask, Periodic, Succ, Fed, Capacity

VARIABLES tokens,  \* tokens an actor may read
          used,    \* places taken in its input channel
          firing,  \* actors between the start of a firing and its end
          output   \* outputs of an actor that have not been delivered yet

vars == <<tokens, used, firing, output>>

Init ==
  /\ tokens = [t \in Task |-> 0]
  /\ used = [t \in Task |-> 0]
  /\ firing = {}
  /\ output = [t \in Task |-> 0]

Arrive(t) ==
  /\ t \in Fed /\ used[t] < Capacity
  /\ tokens' = [tokens EXCEPT ![t] = @ + 1]
  /\ used' = [used EXCEPT ![t] = @ + 1]
  /\ UNCHANGED <<firing, output>>

\* A firing takes a token and reserves a place.
Fire(t) ==
  /\ t \notin firing
  /\ t \in Periodic \/ tokens[t] > 0
  /\ Succ[t] # NoTask => used[Succ[t]] < Capacity
  /\ tokens' = IF t \in Periodic THEN tokens ELSE [tokens EXCEPT ![t] = @ - 1]
  /\ used' = IF Succ[t] = NoTask THEN used ELSE [used EXCEPT ![Succ[t]] = @ + 1]
  /\ firing' = firing \cup {t}
  /\ output' = [output EXCEPT ![t] = @ + 1]

\* It ends, and gives its input place back ...
end(t) ==
  /\ t \in firing
  /\ firing' = firing \ {t}
  /\ used' = IF t \in Periodic THEN used ELSE [used EXCEPT ![t] = @ - 1]

\* ... and one of the outputs of the actor gets to the reader.
deliver(t) ==
  /\ output[t] > 0
  /\ output' = [output EXCEPT ![t] = @ - 1]
  /\ tokens' = IF Succ[t] = NoTask THEN tokens ELSE [tokens EXCEPT ![Succ[t]] = @ + 1]

End(t) == end(t) /\ UNCHANGED <<tokens, output>>

Deliver(t) == deliver(t) /\ UNCHANGED <<used, firing>>

EndAndDeliver(t) == end(t) /\ deliver(t)

Next == \E t \in Task :
          \/ Arrive(t) \/ Fire(t) \/ End(t) \/ Deliver(t) \/ EndAndDeliver(t)

Spec == Init /\ [][Next]_vars

\* Every actor that can fire does, firings end, and outputs are delivered.
FairSpec ==
  /\ Spec
  /\ \A t \in Task : /\ WF_vars(Fire(t))
                     /\ WF_vars(End(t) \/ EndAndDeliver(t))
                     /\ WF_vars(Deliver(t) \/ EndAndDeliver(t))

=============================================================================
