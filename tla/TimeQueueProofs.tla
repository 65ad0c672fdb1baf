--------------------------- MODULE TimeQueueProofs ---------------------------
(***************************************************************************)
(* Theorems about TimeQueue, for every set of objects and every set of     *)
(* delays.  Only that no assertion fails needs the delays to be positive,  *)
(* which AbstractComponent::finishDiiTaskInstance guarantees for           *)
(* latencyQueue (AbstractComponent.cpp:391-395).                           *)
(***************************************************************************)
EXTENDS TimeQueue, TLAPS

\* The variables have their types, whatever the delays: in particular a
\* pending notification is never for a time that does not exist.
THEOREM TypeCorrect == Spec => []TypeOK
<1>1. Init => TypeOK
  BY ConstantsAssumption DEF Init, TypeOK, Absent, NoNotify, Notification
<1>2. TypeOK /\ [Next]_vars => TypeOK'
  <2> SUFFICES ASSUME TypeOK, [Next]_vars PROVE TypeOK'
    OBVIOUS
  <2> USE ConstantsAssumption
        DEF TypeOK, Absent, NoNotify, DeltaNotify, Notification
  <2>1. ASSUME NEW o \in Obj, NEW d \in Delays, Add(o, d) \/ CallbackAdd(o, d)
        PROVE  TypeOK'
    BY <2>1 DEF Add, CallbackAdd, add, Notify
  <2>2. CASE RunMethod
    BY <2>2 DEF RunMethod, pop, Top, Queued
  <2>3. CASE NextEntry
    BY <2>3 DEF NextEntry, pop, Top, Queued
  <2>4. CASE LeaveForNext
    <3>1. PICK o \in Top : /\ due[o] # now
                           /\ queueEvent' = Notify(queueEvent, now, due[o] - now)
      BY <2>4 DEF LeaveForNext, notifyNext
    <3>2. due[o] \in Nat /\ now + (due[o] - now) = due[o]
      BY DEF Top, Queued
    <3>3. queueEvent' \in Notification
      BY <3>1, <3>2 DEF Notify
    <3> QED
      BY <2>4, <3>3 DEF LeaveForNext, notifyNext
  <2>5. CASE LeaveEmpty
    BY <2>5 DEF LeaveEmpty
  <2>6. CASE DeltaCycle
    BY <2>6 DEF DeltaCycle
  <2>7. CASE AdvanceTime
    BY <2>7 DEF AdvanceTime
  <2>8. CASE UNCHANGED vars
    BY <2>8 DEF vars
  <2> QED
    BY <2>1, <2>2, <2>3, <2>4, <2>5, <2>6, <2>7, <2>8 DEF Next
<1> QED
  BY <1>1, <1>2, PTL DEF Spec

-----------------------------------------------------------------------------
(***************************************************************************)
(* Exact times.  NoneOverdue is not inductive: time passes an entry unless *)
(* the event is pending for it, at its time or earlier, whenever the       *)
(* method waits (WakeupSoon), and a pending notification that a later one  *)
(* does not replace is only good if it is still to come (EventToCome).     *)
(***************************************************************************)
WakeupSoon ==
  method = "idle" =>
    \A o \in Queued :
      queueEvent = DeltaNotify \/ (now < queueEvent /\ queueEvent <= due[o])

EventToCome == queueEvent \in Nat => queueEvent > now

Exact ==
  /\ TypeOK
  /\ NoneOverdue
  /\ WakeupSoon
  /\ EventToCome

\* The constructed queue is empty.
LEMMA InitExact == Init => Exact
BY ConstantsAssumption
   DEF Init, Exact, TypeOK, NoneOverdue, WakeupSoon, EventToCome, Queued,
       Absent, NoNotify, DeltaNotify, Notification

\* Leaving the loop notifies for the earliest entry, unless an earlier
\* notification is pending.
LEMMA LeaveKeepsExact ==
  ASSUME Exact, TypeOK', LeaveForNext
  PROVE  Exact'
<1> USE DEF Exact, TypeOK, Absent, NoNotify, DeltaNotify, Notification
<1>1. UNCHANGED <<now, due>> /\ Queued' = Queued
  BY DEF LeaveForNext, notifyNext, Queued
<1>2. PICK o \in Top : /\ due[o] # now
                       /\ queueEvent' = Notify(queueEvent, now, due[o] - now)
  BY DEF LeaveForNext, notifyNext
<1>3. /\ o \in Queued /\ due[o] \in Nat /\ now \in Nat /\ due[o] > now
      /\ \A p \in Queued : due[o] <= due[p]
  BY <1>2, ConstantsAssumption DEF Top, Queued, NoneOverdue
<1>4. now + (due[o] - now) = due[o] /\ due[o] - now # 0
  BY <1>3
<1>5. \/ queueEvent' = DeltaNotify
      \/ queueEvent' \in Nat /\ queueEvent' > now /\ queueEvent' <= due[o]
  BY <1>2, <1>3, <1>4 DEF Notify, EventToCome
<1>6. \A p \in Queued : due[p] \in Nat
  BY DEF Queued
<1> QED
  BY <1>1, <1>3, <1>5, <1>6 DEF NoneOverdue, WakeupSoon, EventToCome

\* The kernel triggers the event before time passes an entry.
LEMMA AdvanceKeepsExact ==
  ASSUME Exact, TypeOK', AdvanceTime
  PROVE  Exact'
<1> USE ConstantsAssumption DEF Exact, TypeOK, Absent, NoNotify, DeltaNotify, Notification
<1>1. /\ UNCHANGED due /\ now' = now + 1 /\ Queued' = Queued
      /\ \A o \in Queued : now < queueEvent /\ queueEvent <= due[o] /\ due[o] \in Nat
  BY DEF AdvanceTime, WakeupSoon, Queued
<1>2. NoneOverdue'
  BY <1>1 DEF NoneOverdue
<1>3. CASE queueEvent = now + 1
  BY <1>2, <1>3 DEF AdvanceTime, WakeupSoon, EventToCome
<1>4. CASE queueEvent # now + 1
  <2>1. UNCHANGED <<queueEvent, method>> /\ now \in Nat
    BY <1>4 DEF AdvanceTime
  <2>2. EventToCome'
    BY <1>1, <1>4, <2>1 DEF EventToCome
  <2>3. WakeupSoon'
    BY <1>1, <1>4, <2>1 DEF WakeupSoon
  <2> QED
    BY <1>2, <2>2, <2>3
<1> QED
  BY <1>3, <1>4

\* No add, round of queueMethod or step of the kernel leaves an entry behind.
LEMMA NextKeepsExact == Exact /\ TypeOK' /\ [Next]_vars => Exact'
<1> SUFFICES ASSUME Exact, TypeOK', [Next]_vars PROVE Exact'
  OBVIOUS
<1> USE ConstantsAssumption
        DEF Exact, TypeOK, Absent, NoNotify, DeltaNotify, Notification
<1>1. ASSUME NEW o \in Obj, NEW d \in Delays, Add(o, d) \/ CallbackAdd(o, d)
      PROVE  Exact'
  <2>1. /\ UNCHANGED <<now, method>>
        /\ due' = [due EXCEPT ![o] = now + d]
        /\ queueEvent' = Notify(queueEvent, now, d)
        /\ d \in Nat /\ now \in Nat
    BY <1>1 DEF Add, CallbackAdd, add
  <2>2. Queued' = Queued \cup {o} /\ \A p \in Queued : due[p] \in Nat
    BY <2>1 DEF Queued
  <2>3. NoneOverdue' /\ EventToCome'
    BY <2>1, <2>2 DEF NoneOverdue, EventToCome, Notify
  <2>4. WakeupSoon'
    BY <2>1, <2>2 DEF WakeupSoon, EventToCome, Notify
  <2> QED
    BY <2>3, <2>4
<1>2. CASE RunMethod \/ NextEntry
  BY <1>2 DEF RunMethod, NextEntry, pop, NoneOverdue, WakeupSoon, EventToCome, Queued
<1>3. CASE LeaveForNext
  BY <1>3, LeaveKeepsExact
<1>4. CASE LeaveEmpty
  BY <1>4 DEF LeaveEmpty, NoneOverdue, WakeupSoon, EventToCome, Queued
<1>5. CASE DeltaCycle
  BY <1>5 DEF DeltaCycle, NoneOverdue, WakeupSoon, EventToCome, Queued
<1>6. CASE AdvanceTime
  BY <1>6, AdvanceKeepsExact
<1>7. CASE UNCHANGED vars
  BY <1>7 DEF vars, NoneOverdue, WakeupSoon, EventToCome, Queued
<1> QED
  BY <1>1, <1>2, <1>3, <1>4, <1>5, <1>6, <1>7 DEF Next

\* No entry is ever overdue, delays of zero and spurious notifications
\* included: overrides of notifications and the renotification at the end of
\* queueMethod never lose a wakeup.
THEOREM NoneOverdueTheorem == Spec => []NoneOverdue
<1>1. Exact => NoneOverdue
  BY DEF Exact
<1> QED
  BY <1>1, InitExact, NextKeepsExact, TypeCorrect, PTL DEF Spec

\* Every step of the queue is a step of exact timers: an object is handed
\* back once, exactly when its delay has passed.
THEOREM TimeQueueImplementsTimers == Spec => ImplementsTimers
<1> USE DEF AbstractTimers!Absent, Absent
<1>1. Init => AbstractTimers!Init
  BY DEF Init, AbstractTimers!Init
<1>2. Exact /\ [Next]_vars => [AbstractTimers!Next]_AbstractTimers!vars
  <2> SUFFICES ASSUME Exact, [Next]_vars
               PROVE  AbstractTimers!Next \/ UNCHANGED <<now, due>>
    BY DEF AbstractTimers!vars
  <2>1. ASSUME NEW o \in Obj, NEW d \in Delays, Add(o, d) \/ CallbackAdd(o, d)
        PROVE  AbstractTimers!Next
    BY <2>1 DEF Add, CallbackAdd, add, AbstractTimers!Next, AbstractTimers!Arm
  <2>2. CASE RunMethod \/ NextEntry
    <3>1. PICK o \in Top : due[o] = now /\ due' = [due EXCEPT ![o] = Absent]
                           /\ UNCHANGED now
      BY <2>2 DEF RunMethod, NextEntry, pop
    <3> QED
      BY <3>1 DEF AbstractTimers!Next, AbstractTimers!Fire, Top, Queued
  <2>3. CASE LeaveForNext \/ LeaveEmpty \/ DeltaCycle
    BY <2>3 DEF LeaveForNext, notifyNext, LeaveEmpty, DeltaCycle
  <2>4. CASE AdvanceTime
    <3>1. \A o \in Obj : due[o] # now
      BY <2>4, ConstantsAssumption
         DEF AdvanceTime, Exact, WakeupSoon, TypeOK, Queued, Notification,
             NoNotify, DeltaNotify
    <3> QED
      BY <2>4, <3>1 DEF AdvanceTime, AbstractTimers!Next, AbstractTimers!Advance
  <2>5. CASE UNCHANGED vars
    BY <2>5 DEF vars
  <2> QED
    BY <2>1, <2>2, <2>3, <2>4, <2>5 DEF Next
<1> QED
  BY <1>1, <1>2, InitExact, NextKeepsExact, TypeCorrect, PTL
     DEF Spec, ImplementsTimers, AbstractTimers!Spec

-----------------------------------------------------------------------------
(***************************************************************************)
(* Assertions.  WakeupPending alone is not inductive: while queueMethod is *)
(* runnable or in its callback a notification may already be pending, and  *)
(* it must then be for an entry that is still queued.                      *)
(***************************************************************************)
EventIsForAnEntry ==
  queueEvent # NoNotify =>
    /\ queueEvent > now
    /\ \E o \in Queued : due[o] = queueEvent

EntryDue == method = "runnable" => \E o \in Queued : due[o] = now

IInv ==
  /\ TypeOK
  /\ EntryDue
  /\ NoneOverdue
  /\ WakeupPending
  /\ EventIsForAnEntry

\* The constructed queue is empty.
LEMMA InitIInv == Init => IInv
BY ConstantsAssumption
   DEF Init, IInv, TypeOK, EntryDue, NoneOverdue, WakeupPending,
       EventIsForAnEntry, Queued, Top, Absent, NoNotify, Notification

\* Adding an entry with a positive delay keeps the invariant, whoever adds.
LEMMA AddKeepsIInv ==
  ASSUME 0 \notin Delays, IInv, TypeOK',
         NEW o \in Obj, NEW d \in Delays, Add(o, d) \/ CallbackAdd(o, d)
  PROVE  IInv'
<1> USE ConstantsAssumption DEF IInv, TypeOK, Absent, NoNotify, DeltaNotify, Notification
<1>1. /\ UNCHANGED <<now, method>>
      /\ due[o] = Absent
      /\ due' = [due EXCEPT ![o] = now + d]
      /\ queueEvent' = Notify(queueEvent, now, d)
  BY DEF Add, CallbackAdd, add
<1>2. d \in Nat /\ d > 0 /\ now \in Nat
  OBVIOUS
<1>3. Queued' = Queued \cup {o}
  BY <1>1, <1>2 DEF Queued
<1>4. EntryDue' /\ NoneOverdue'
  BY <1>1, <1>2, <1>3 DEF EntryDue, NoneOverdue, Queued
<1>5. EventIsForAnEntry'
  BY <1>1, <1>2, <1>3 DEF EventIsForAnEntry, Notify, Queued
<1>6. WakeupPending'
  BY <1>1, <1>2, <1>3 DEF WakeupPending, EventIsForAnEntry, Notify, Queued
<1> QED
  BY <1>4, <1>5, <1>6

\* Handing an entry that is due to the callback keeps the invariant.
LEMMA PopKeepsIInv ==
  ASSUME IInv, TypeOK', RunMethod \/ NextEntry
  PROVE  IInv'
<1> USE ConstantsAssumption
        DEF IInv, TypeOK, Absent, NoNotify, DeltaNotify, Notification
<1>1. PICK o \in Top : due[o] = now /\ due' = [due EXCEPT ![o] = Absent]
  BY DEF RunMethod, NextEntry, pop
<1>2. /\ UNCHANGED <<now, queueEvent>>
      /\ method' = "callback"
  BY DEF RunMethod, NextEntry, pop
<1>3. Queued' = Queued \ {o}
  BY <1>1 DEF Queued, Top
<1>4. EntryDue' /\ NoneOverdue' /\ WakeupPending'
  BY <1>1, <1>2, <1>3 DEF EntryDue, NoneOverdue, WakeupPending, Queued
<1>5. EventIsForAnEntry'
  BY <1>1, <1>2, <1>3 DEF EventIsForAnEntry, Queued
<1> QED
  BY <1>4, <1>5

\* Leaving the loop keeps the invariant: the event is notified for the
\* earliest entry that is left.
LEMMA LeaveKeepsIInv ==
  ASSUME IInv, TypeOK', LeaveForNext \/ LeaveEmpty
  PROVE  IInv'
<1> USE ConstantsAssumption
        DEF IInv, TypeOK, Absent, NoNotify, DeltaNotify, Notification
<1>1. UNCHANGED <<now, due>> /\ method' = "idle" /\ Queued' = Queued
  BY DEF LeaveForNext, notifyNext, LeaveEmpty, Queued
<1>2. EntryDue' /\ NoneOverdue'
  BY <1>1 DEF EntryDue, NoneOverdue
<1>3. CASE LeaveEmpty
  BY <1>1, <1>2, <1>3 DEF LeaveEmpty, WakeupPending, EventIsForAnEntry
<1>4. CASE LeaveForNext
  <2>1. PICK o \in Top : /\ due[o] # now
                         /\ queueEvent' = Notify(queueEvent, now, due[o] - now)
    BY <1>4 DEF LeaveForNext, notifyNext
  <2>2. /\ o \in Queued /\ due[o] > now /\ due[o] \in Nat
        /\ \A p \in Queued : due[o] <= due[p]
    BY <2>1 DEF Top, Queued, NoneOverdue
  <2>3. queueEvent' = due[o]
    <3>1. now + (due[o] - now) = due[o] /\ due[o] - now # 0
      BY <2>2
    <3>2. queueEvent # NoNotify => queueEvent >= due[o]
      BY <2>2 DEF EventIsForAnEntry
    <3> QED
      BY <2>1, <2>2, <3>1, <3>2 DEF Notify, EventIsForAnEntry
  <2> QED
    BY <1>1, <1>2, <2>2, <2>3 DEF WakeupPending, EventIsForAnEntry
<1> QED
  BY <1>3, <1>4

\* The kernel's steps keep the invariant: no entry is due before the
\* pending notification, so time does not pass one.
LEMMA KernelKeepsIInv ==
  ASSUME IInv, TypeOK', DeltaCycle \/ AdvanceTime
  PROVE  IInv'
<1> USE ConstantsAssumption
        DEF IInv, TypeOK, Absent, NoNotify, DeltaNotify, Notification
<1>1. AdvanceTime
  BY DEF DeltaCycle, EventIsForAnEntry
<1>2. /\ method = "idle" /\ UNCHANGED due /\ now' = now + 1
      /\ Queued' = Queued
      /\ \A o \in Queued : now < queueEvent /\ queueEvent <= due[o] /\ due[o] \in Nat
  BY <1>1 DEF AdvanceTime, WakeupPending, Queued
<1>3. NoneOverdue'
  BY <1>2 DEF NoneOverdue
<1>4. CASE queueEvent = now + 1
  BY <1>1, <1>2, <1>3, <1>4
     DEF AdvanceTime, EntryDue, WakeupPending, EventIsForAnEntry
<1>5. CASE queueEvent # now + 1
  BY <1>1, <1>2, <1>3, <1>5
     DEF AdvanceTime, EntryDue, WakeupPending, EventIsForAnEntry
<1> QED
  BY <1>4, <1>5

\* No add with a positive delay, round of queueMethod or step of the kernel
\* notifies the event for nothing.
LEMMA NextKeepsIInv ==
  ASSUME 0 \notin Delays
  PROVE  IInv /\ TypeOK' /\ [Next]_vars => IInv'
<1> SUFFICES ASSUME IInv, TypeOK', [Next]_vars PROVE IInv'
  OBVIOUS
<1>1. ASSUME NEW o \in Obj, NEW d \in Delays, Add(o, d) \/ CallbackAdd(o, d)
      PROVE  IInv'
  BY <1>1, AddKeepsIInv
<1>2. CASE RunMethod \/ NextEntry
  BY <1>2, PopKeepsIInv
<1>3. CASE LeaveForNext \/ LeaveEmpty
  BY <1>3, LeaveKeepsIInv
<1>4. CASE DeltaCycle \/ AdvanceTime
  BY <1>4, KernelKeepsIInv
<1>5. CASE UNCHANGED vars
  BY <1>5 DEF vars, IInv, TypeOK, EntryDue, NoneOverdue, WakeupPending,
              EventIsForAnEntry, Queued, Top
<1> QED
  BY <1>1, <1>2, <1>3, <1>4, <1>5 DEF Next

\* With positive delays no assertion of queueMethod fails, whatever is added
\* when: the event never triggers without an entry that is due.
THEOREM AssertionsHoldTheorem ==
  ASSUME 0 \notin Delays PROVE Spec => []AssertionsHold
<1>1. IInv /\ TypeOK' /\ [Next]_vars => IInv'
  BY NextKeepsIInv
<1>2. IInv => AssertionsHold
  BY DEF IInv, EntryDue, NoneOverdue, AssertionsHold, Top
<1> QED
  BY <1>1, <1>2, InitIInv, TypeCorrect, PTL DEF Spec

=============================================================================
