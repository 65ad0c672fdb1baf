------------------------------- MODULE Processor -------------------------------
(***************************************************************************)
(* What a preemptive component promises the jobs computed on it: each is   *)
(* served for its demand of processor time, in pieces if need be, one job  *)
(* at a time; jobs are served on as long as there is one (Fairness);       *)
(* and a job is over at the moment it has been served.                     *)
(***************************************************************************)
EXTENDS Integers

CONSTANTS Job, Demand

VARIABLE work   \* the processor time a job still needs, or Absent

Absent == -1

Init == work = [j \in Job |-> Absent]

Begin(j) ==
  /\ work[j] = Absent
  /\ work' = [work EXCEPT ![j] = Demand[j]]

Serve(j) ==
  /\ work[j] > 0
  /\ \A k \in Job : work[k] # 0
  /\ work' = [work EXCEPT ![j] = @ - 1]

\* A job may begin again at once.
End(j) ==
  /\ work[j] = 0
  /\ \E w \in {Absent, Demand[j]} : work' = [work EXCEPT ![j] = w]

Next == \E j \in Job : Begin(j) \/ Serve(j) \/ End(j)

Spec == Init /\ [][Next]_work

Fairness ==
  /\ WF_work(\E j \in Job : Serve(j))
  /\ \A j \in Job : WF_work(End(j))

FairSpec == Spec /\ Fairness

=============================================================================
