------------------------------ MODULE SimKernel ------------------------------
(***************************************************************************)
(* The part of the SystemC kernel the library relies on: an sc_event holds *)
(* at most one pending notification, a delta notification or the point in  *)
(* time of a timed one.  The kernel itself is not part of the repository;  *)
(* these operators say what src/ uses of it.                               *)
(***************************************************************************)
EXTENDS Integers

NoNotify    == -2        \* nothing is pending
DeltaNotify == -1        \* notify(SC_ZERO_TIME): fires in the next delta cycle

Notification == {NoNotify, DeltaNotify} \cup Nat

(***************************************************************************)
(* sc_event::notify(delay) at time now.  Of two notifications only the     *)
(* earlier survives; a delta notification is earlier than any timed one.   *)
(***************************************************************************)
Notify(pending, now, delay) ==
  IF delay = 0 \/ pending = DeltaNotify
  THEN DeltaNotify
  ELSE IF pending = NoNotify \/ now + delay < pending
       THEN now + delay
       ELSE pending

=============================================================================
