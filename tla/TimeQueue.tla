------------------------------ MODULE TimeQueue ------------------------------
(***************************************************************************)
(* TimeQueueImpl (TimeQueue.hpp, TimeQueue.cpp): objects sorted by the     *)
(* time they are due, one sc_event kept notified for the earliest of them, *)
(* and an SC_METHOD that hands the due ones to a callback.                 *)
(*                                                                         *)
(* Between two steps of this module any process of the simulation may run, *)
(* so Add is possible whenever the kernel evaluates, also between the      *)
(* triggering of queueEvent and the run of queueMethod; an SC_METHOD is    *)
(* never interrupted, so once it runs only its own callback adds.          *)
(***************************************************************************)
EXTENDS SimKernel

CONSTANTS Obj,            \* the objects queued; the callers never add one twice
          Delays,         \* the delays add() is called with
          CallbackDelays, \* the delays its callback calls add() with
          MaxTime         \* bound: the time the simulation stops at

ASSUME ConstantsAssumption ==
  /\ Delays \subseteq Nat
  /\ MaxTime \in Nat
  /\ CallbackDelays \subseteq Delays

Absent == -1

VARIABLES now,         \* sc_time_stamp()
          due,         \* queue: due[o] is o's QueueEntry::time, or Absent
          queueEvent,  \* the pending notification of queueEvent
          method       \* queueMethod: waiting, runnable or in the callback

vars == <<now, due, queueEvent, method>>

TypeOK ==
  /\ now \in 0..MaxTime
  /\ due \in [Obj -> {Absent} \cup Nat]
  /\ queueEvent \in Notification
  /\ method \in {"idle", "runnable", "callback"}

Queued == {o \in Obj : due[o] # Absent}

\* The entries queue.top() may be: std::priority_queue orders by time only.
Top == {o \in Queued : \A p \in Queued : due[o] <= due[p]}

Init ==
  /\ now = 0
  /\ due = [o \in Obj |-> Absent]
  /\ queueEvent = NoNotify
  /\ method = "idle"

-----------------------------------------------------------------------------
\* Mutated forms of definitions below (see PROJECT.json, "mutants").

\* queueMethod leaves the loop without notifying for the next entry.
leaveWithoutNotify ==
  /\ Queued # {}
  /\ \A o \in Top : due[o] # now
  /\ method' = "idle"
  /\ UNCHANGED <<now, due, queueEvent>>

\* add() notifies only when the queue was empty.
addNotifiesFirst(o, d) ==
  /\ due[o] = Absent
  /\ due' = [due EXCEPT ![o] = now + d]
  /\ queueEvent' = IF Queued = {} THEN Notify(queueEvent, now, d) ELSE queueEvent

\* add() subtracts the delay from the current time.
addStampedBefore(o, d) ==
  /\ due[o] = Absent
  /\ due' = [due EXCEPT ![o] = now - d]
  /\ queueEvent' = Notify(queueEvent, now, d)

-----------------------------------------------------------------------------
\* TimeQueueImpl::add
add(o, d) ==
  /\ due[o] = Absent
  /\ due' = [due EXCEPT ![o] = now + d]
  /\ queueEvent' = Notify(queueEvent, now, d)

\* Another process, running before or after queueMethod in a delta, adds o.
Add(o, d) ==
  /\ method \in {"idle", "runnable"}
  /\ now + d <= MaxTime
  /\ add(o, d)
  /\ UNCHANGED <<now, method>>

\* The callback itself adds o.
CallbackAdd(o, d) ==
  /\ d \in CallbackDelays
  /\ method = "callback"
  /\ now + d <= MaxTime
  /\ add(o, d)
  /\ UNCHANGED <<now, method>>

\* queue.pop(), then the call of callback(obj).
pop(o) ==
  /\ due' = [due EXCEPT ![o] = Absent]
  /\ method' = "callback"

\* queueMethod starts with the first entry.  Where one of its assertions
\* would fail it cannot go on (see AssertionsHold).
RunMethod ==
  /\ method = "runnable"
  /\ \E o \in Top : due[o] = now /\ pop(o)
  /\ UNCHANGED <<now, queueEvent>>

\* The callback returns and the next entry is due now as well: loop.
NextEntry ==
  /\ method = "callback"
  /\ \E o \in Top : due[o] = now /\ pop(o)
  /\ UNCHANGED <<now, queueEvent>>

\* The next entry is due later: notify for it and leave.
notifyNext ==
  /\ \E o \in Top : /\ due[o] # now
                    /\ queueEvent' = Notify(queueEvent, now, due[o] - now)
  /\ method' = "idle"
  /\ UNCHANGED <<now, due>>

LeaveForNext == method = "callback" /\ notifyNext

\* The callback returns and the queue is empty.
LeaveEmpty ==
  /\ method = "callback"
  /\ Queued = {}
  /\ method' = "idle"
  /\ UNCHANGED <<now, due, queueEvent>>

\* Kernel: no process is runnable, the delta notifications trigger.
DeltaCycle ==
  /\ method = "idle"
  /\ queueEvent = DeltaNotify
  /\ queueEvent' = NoNotify
  /\ method' = "runnable"
  /\ UNCHANGED <<now, due>>

\* Kernel: nothing is left to do at this time, the next timed
\* notifications trigger.
AdvanceTime ==
  /\ method = "idle"
  /\ queueEvent # DeltaNotify
  /\ now < MaxTime
  /\ now' = now + 1
  /\ IF queueEvent = now + 1
     THEN queueEvent' = NoNotify /\ method' = "runnable"
     ELSE UNCHANGED <<queueEvent, method>>
  /\ UNCHANGED due

Next ==
  \/ \E o \in Obj, d \in Delays : Add(o, d) \/ CallbackAdd(o, d)
  \/ RunMethod
  \/ NextEntry \/ LeaveForNext \/ LeaveEmpty
  \/ DeltaCycle \/ AdvanceTime

Spec == Init /\ [][Next]_vars

\* The kernel runs what is runnable and lets time pass; nobody has to add.
FairSpec ==
  /\ Spec
  /\ WF_vars(RunMethod \/ NextEntry \/ LeaveForNext \/ LeaveEmpty)
  /\ WF_vars(DeltaCycle)
  /\ WF_vars(AdvanceTime)

-----------------------------------------------------------------------------
(* Properties *)

\* No assertion of queueMethod fails: when the method is about to run, the
\* queue has an entry and the earliest one is due now (TimeQueue.cpp:40, 42).
\* Only the method removes entries, so an entry cannot be gone once it runs.
AssertionsHold == method = "runnable" => \E o \in Top : due[o] = now

\* While the method waits, the event is notified for the earliest entry: adds
\* that come before, between and after the triggering of the event, in any
\* order of their delays, leave no entry without a wakeup.
WakeupPending ==
  method = "idle" =>
    /\ Queued = {} => queueEvent = NoNotify
    /\ \A o \in Queued : now < queueEvent /\ queueEvent <= due[o]

\* No entry is overdue: time never passes the moment an object was promised.
NoneOverdue == \A o \in Queued : due[o] >= now

\* Every object added is given to the callback, provided that time goes on (and
\* is not held up by ever more adds with delay 0) and no assertion of
\* queueMethod stops the program.
EveryEntryServed ==
  <>(now = MaxTime) =>
    \A o \in Obj : due[o] # Absent ~> due[o] = Absent \/ ~AssertionsHold

\* A TimeQueue implements a set of exact timers, as long as it runs.
AbstractTimers == INSTANCE Timers

ImplementsTimers == AbstractTimers!Spec

=============================================================================
