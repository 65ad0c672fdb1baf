-------------------------------- MODULE Timers --------------------------------
(***************************************************************************)
(* What a TimeQueue promises its users (TimeQueue.hpp: "After the given    *)
(* delay, the callback given in the constructor will be called with this   *)
(* object"): every object added is handed back once, exactly when its      *)
(* delay has passed, and time does not go on while one is due.             *)
(***************************************************************************)
EXTENDS Integers

CONSTANTS Obj, Delays, MaxTime

VARIABLES now,    \* simulated time
          due     \* due[o]: when o is to be handed back, or Absent

Absent == -1

vars == <<now, due>>

Init == now = 0 /\ due = [o \in Obj |-> Absent]

Arm(o, d) ==
  /\ due[o] = Absent
  /\ due' = [due EXCEPT ![o] = now + d]
  /\ UNCHANGED now

Fire(o) ==
  /\ due[o] = now
  /\ due' = [due EXCEPT ![o] = Absent]
  /\ UNCHANGED now

Advance ==
  /\ now < MaxTime
  /\ \A o \in Obj : due[o] # now
  /\ now' = now + 1
  /\ UNCHANGED due

Next == \/ \E o \in Obj, d \in Delays : Arm(o, d)
        \/ \E o \in Obj : Fire(o)
        \/ Advance

Spec == Init /\ [][Next]_vars

FairSpec == Spec /\ WF_vars(Advance) /\ \A o \in Obj : WF_vars(Fire(o))

=============================================================================
