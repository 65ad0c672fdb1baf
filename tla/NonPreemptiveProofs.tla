-------------------------- MODULE NonPreemptiveProofs --------------------------
(***************************************************************************)
(* That NonPreemptiveComponent implements the dataflow graph of its actors, *)
(* for every application, timing and policy of selection.                  *)
(*                                                                         *)
(* First, it neither loses nor doubles an activation, and its thread never *)
(* sleeps over a ready task.  Where a task is, whether it can fire         *)
(* (NoActivationLost and ReleasedTasksCanFire) and where the thread is     *)
(* (Awake) are inductive together only: the thread selects a task for the  *)
(* processor because none runs, a task is fired because it is queued, and  *)
(* it is erased from activeTasks because its DII is the one that ends.     *)
(*                                                                         *)
(* Then every step is one of Dataflow, or goes unnoticed: counting the     *)
(* outputs of an actor needs that latencyQueue holds them apart (Spaced).  *)
(* Tokens are conserved because the steps of Dataflow conserve them; that  *)
(* bounds the channels.  Last, the event of ttReleaseQueue is in time for  *)
(* every entry (prepared), and without periodic actors its method finds    *)
(* what it was notified for (Prompt).                                      *)
(***************************************************************************)
EXTENDS NonPreemptiveComponent, FiniteSetTheorems, SequenceTheorems, TLAPS

Types ==
  /\ tokens \in [Task -> Int] /\ used \in [Task -> Int]
  /\ release \in [Periodic -> {Late} \cup Nat] /\ phase \in [Periodic -> Nat \ {0}]
  /\ class \in Policies
  /\ activeTasks \subseteq Task
  /\ due \in [Task -> {Absent, Late} \cup Nat]
  /\ missing \in [Task -> Nat]
  /\ readyTasks \in Seq(Job)
  /\ runningTask \in Job \cup {NoTask}
  /\ thread \in {"runnable", "woken", "timeout", "loop", "computing", "sleep"}
  /\ scheduleEvent \in {NoNotify, DeltaNotify}
  /\ latencyQueue \subseteq [job : Job, time : Int]

\* The thread computes exactly while a task runs, and it is neither woken nor
\* about to be with nothing to do.
Awake ==
  /\ thread \in {"computing", "timeout"} <=> runningTask # NoTask
  /\ thread = "timeout" => scheduleEvent # DeltaNotify
  /\ thread = "woken" => readyTasks # <<>>
  /\ thread \in {"runnable", "loop", "sleep"} /\ scheduleEvent = DeltaNotify
       => readyTasks # <<>>
  /\ thread = "sleep" /\ readyTasks # <<>> => scheduleEvent = DeltaNotify

listed(t, ready) == \E i \in 1..Len(ready) : ready[i] = t

once(ready) ==
  \A i, k \in 1..Len(ready) : ready[i] = ready[k] /\ ready[i] \in Task => i = k

\* An active task is at one station, any other at none.
located(t, active, entries, miss, ready, running) ==
  /\ t \in active <=>
       entries[t] # Absent \/ miss[t] > 0 \/ listed(t, ready) \/ t = running
  /\ entries[t] # Absent => ~(miss[t] > 0 \/ listed(t, ready) \/ t = running)
  /\ miss[t] > 0 => ~(listed(t, ready) \/ t = running)
  /\ listed(t, ready) => t # running

Accounted ==
  /\ once(readyTasks)
  /\ \A t \in Task : located(t, activeTasks, due, missing, readyTasks, runningTask)

IInv == Types /\ Awake /\ Accounted /\ NoActivationLost /\ ReleasedTasksCanFire

-----------------------------------------------------------------------------
(* The ready list *)

\* A job appended to the ready list is in it, once if it was not there before.
LEMMA Appended ==
  ASSUME NEW s \in Seq(Job), NEW j \in Job, once(s), j \in Task => ~listed(j, s)
  PROVE  /\ Append(s, j) \in Seq(Job) /\ Append(s, j) # <<>>
         /\ once(Append(s, j))
         /\ \A t : listed(t, Append(s, j)) <=> listed(t, s) \/ t = j
<1> DEFINE a == Append(s, j)
<1>1. /\ a \in Seq(Job) /\ a # <<>> /\ Len(a) = Len(s) + 1 /\ Len(s) \in Nat
      /\ \A i \in 1..Len(s) : a[i] = s[i]
      /\ a[Len(s) + 1] = j
  BY AppendProperties, LenProperties
<1> HIDE DEF a
<1>2. \A t : listed(t, a) <=> listed(t, s) \/ t = j
  <2> TAKE t
  <2>1. listed(t, a) => listed(t, s) \/ t = j
    BY <1>1 DEF listed
  <2>2. listed(t, s) => listed(t, a)
    BY <1>1 DEF listed
  <2>3. t = j => listed(t, a)
    BY <1>1 DEF listed
  <2> QED  BY <2>1, <2>2, <2>3
<1>3. once(a)
  <2> SUFFICES ASSUME NEW i \in 1..Len(a), NEW k \in 1..Len(a), a[i] = a[k], a[i] \in Task
               PROVE  i = k
    BY DEF once
  <2>1. CASE i <= Len(s) /\ k <= Len(s)
    BY <1>1, <2>1 DEF once
  <2>2. CASE i = Len(s) + 1 /\ k <= Len(s)
    BY <1>1, <2>2 DEF listed
  <2>3. CASE i <= Len(s) /\ k = Len(s) + 1
    BY <1>1, <2>3 DEF listed
  <2>4. CASE i = Len(s) + 1 /\ k = Len(s) + 1
    BY <2>4
  <2> QED  BY <1>1, <2>1, <2>2, <2>3, <2>4
<1> QED  BY <1>1, <1>2, <1>3 DEF a

\* When the job at place i is taken out, those after it move up.
old(k, i) == IF k < i THEN k ELSE k + 1

\* Every place of the shorter list holds what was at the old one.
LEMMA MovedUp ==
  ASSUME NEW s \in Seq(Job), NEW i \in 1..Len(s)
  PROVE  /\ RemoveAt(s, i) \in Seq(Job) /\ Len(RemoveAt(s, i)) = Len(s) - 1
         /\ \A k \in 1..Len(s)-1 : RemoveAt(s, i)[k] = s[old(k, i)]
<1> DEFINE front == SubSeq(s, 1, i - 1)
           back  == SubSeq(s, i + 1, Len(s))
           r     == RemoveAt(s, i)
<1>1. Len(s) \in Nat /\ \A k \in 1..Len(s) : s[k] \in Job
  BY LenProperties, ElementOfSeq
<1>2. front \in Seq(Job) /\ Len(front) = i - 1 /\ \A k \in 1..i-1 : front[k] = s[k]
  <2>1. \A k \in 1..i-1 : s[k] \in Job
    BY <1>1
  <2>2. /\ front \in Seq(Job)
        /\ Len(front) = IF 1 <= i - 1 THEN (i - 1) - 1 + 1 ELSE 0
        /\ \A k \in 1..(i-1)-1+1 : front[k] = s[1 + k - 1]
    BY <2>1, <1>1, SubSeqProperties
  <2> QED  BY <2>2
<1>3. /\ back \in Seq(Job) /\ Len(back) = Len(s) - i
      /\ \A k \in 1..Len(s)-i : back[k] = s[i + k]
  <2>1. \A k \in i+1..Len(s) : s[k] \in Job
    BY <1>1
  <2>2. /\ back \in Seq(Job)
        /\ Len(back) = IF i + 1 <= Len(s) THEN Len(s) - (i + 1) + 1 ELSE 0
        /\ \A k \in 1..Len(s)-(i+1)+1 : back[k] = s[(i + 1) + k - 1]
    BY <2>1, <1>1, SubSeqProperties
  <2> QED  BY <2>2, <1>1
<1>4. /\ r \in Seq(Job) /\ Len(r) = Len(s) - 1
      /\ \A k \in 1..Len(s)-1 : r[k] = s[old(k, i)]
  <2>1. r = front \o back
    BY DEF RemoveAt
  <2> HIDE DEF front, back, r
  <2>2. /\ r \in Seq(Job)
        /\ Len(r) = Len(front) + Len(back)
        /\ \A k \in 1..Len(front)+Len(back) :
             r[k] = IF k <= Len(front) THEN front[k] ELSE back[k - Len(front)]
    BY <2>1, <1>2, <1>3, ConcatProperties
  <2>3. ASSUME NEW k \in 1..Len(s)-1  PROVE r[k] = s[old(k, i)]
    <3>1. CASE k < i
      <4>1. /\ k \in 1..Len(front)+Len(back) /\ k <= Len(front)
            /\ k \in 1..i-1
            /\ old(k, i) = k
        BY <1>1, <1>2, <1>3, <3>1 DEF old
      <4>2. r[k] = front[k]
        BY <2>2, <4>1
      <4> QED  BY <1>2, <4>1, <4>2
    <3>2. CASE k >= i
      <4>1. /\ k \in 1..Len(front)+Len(back) /\ ~(k <= Len(front))
            /\ k - Len(front) \in 1..Len(s)-i /\ i + (k - Len(front)) = k + 1
            /\ old(k, i) = k + 1
        BY <1>1, <1>2, <1>3, <3>2 DEF old
      <4>2. r[k] = back[k - Len(front)]
        BY <2>2, <4>1
      <4> QED  BY <1>3, <4>1, <4>2
    <3> QED  BY <3>1, <3>2, <1>1
  <2> QED  BY <2>2, <2>3, <1>1, <1>2, <1>3
<1> QED  BY <1>4 DEF r

\* The list without the job at place i has the others left.
LEMMA Removed ==
  ASSUME NEW s \in Seq(Job), NEW i \in 1..Len(s), once(s)
  PROVE  /\ RemoveAt(s, i) \in Seq(Job)
         /\ once(RemoveAt(s, i))
         /\ \A t \in Task : listed(t, RemoveAt(s, i)) <=> listed(t, s) /\ t # s[i]
<1> DEFINE r == RemoveAt(s, i)
<1>1. Len(s) \in Nat
  BY LenProperties
<1>2. /\ r \in Seq(Job) /\ Len(r) = Len(s) - 1
      /\ \A k \in 1..Len(s)-1 : r[k] = s[old(k, i)]
  BY MovedUp
<1> HIDE DEF r
<1>3. once(r)
  BY <1>1, <1>2 DEF once, old
<1>4. ASSUME NEW t \in Task  PROVE listed(t, r) <=> listed(t, s) /\ t # s[i]
  <2>1. ASSUME NEW k \in 1..Len(r), r[k] = t  PROVE listed(t, s) /\ t # s[i]
    <3>1. /\ k \in 1..Len(s)-1 /\ old(k, i) \in 1..Len(s) /\ old(k, i) # i
          /\ s[old(k, i)] = t
      BY <1>1, <1>2, <2>1 DEF old
    <3>2. listed(t, s)
      BY <3>1 DEF listed
    <3>3. t # s[i]
      BY <3>1 DEF once
    <3> QED  BY <3>2, <3>3
  <2>2. ASSUME NEW k \in 1..Len(s), s[k] = t, t # s[i]  PROVE listed(t, r)
    <3>1. CASE k < i
      BY <1>1, <1>2, <2>2, <3>1 DEF listed, old
    <3>2. CASE k > i
      <4>1. k - 1 \in 1..Len(r) /\ r[k - 1] = t
        BY <1>1, <1>2, <2>2, <3>2 DEF old
      <4> QED  BY <4>1 DEF listed
    <3> QED  BY <2>2, <3>1, <3>2
  <2> QED  BY <2>1, <2>2 DEF listed
<1> QED  BY <1>2, <1>3, <1>4 DEF r

-----------------------------------------------------------------------------
(* The queue of activations *)

isQueue(q) ==
  q.active \subseteq Task /\ q.due \in [Task -> {Absent, Late} \cup Nat]

\* What a call that announces tasks does to the queue: some are added that
\* were not active and can fire.
grown(q, r, tk, us) ==
  /\ isQueue(r)
  /\ q.active \subseteq r.active
  /\ \A u \in Task : u \in q.active \/ u \notin r.active => r.due[u] = q.due[u]
  /\ \A u \in r.active : u \notin q.active => r.due[u] # Absent /\ enabled(u, tk, us)

\* An actor that can fire is active after it is announced.
LEMMA AnnounceGrows ==
  ASSUME NEW q, isQueue(q), release \in [Periodic -> {Late} \cup Nat],
         NEW t \in Task \cup {NoTask}, NEW tk, NEW us
  PROVE  /\ grown(q, announce(q, t, tk, us), tk, us)
         /\ t # NoTask /\ enabled(t, tk, us) => t \in announce(q, t, tk, us).active
<1>1. CASE t # NoTask /\ enabled(t, tk, us) /\ t \notin q.active
  <2> DEFINE r == announce(q, t, tk, us)
  <2>1. t \in Task
    BY <1>1
  <2>2. nextRelease(t) \in {Late} \cup Nat
    BY <2>1 DEF nextRelease
  <2>3. /\ r.active = q.active \cup {t}
        /\ r.due = [q.due EXCEPT ![t] = nextRelease(t)]
    BY <1>1 DEF announce, notifyActivation
  <2> HIDE DEF r
  <2>4. isQueue(r)
    BY <2>1, <2>2, <2>3 DEF isQueue
  <2>5. \A u \in Task : u # t => r.due[u] = q.due[u]
    BY <2>3 DEF isQueue
  <2>6. r.due[t] # Absent
    BY <2>1, <2>2, <2>3 DEF isQueue, Absent, Late
  <2> QED  BY <1>1, <2>1, <2>3, <2>4, <2>5, <2>6 DEF grown, r
<1>2. CASE ~(t # NoTask /\ enabled(t, tk, us) /\ t \notin q.active)
  <2>1. announce(q, t, tk, us) = q
    BY <1>2 DEF announce, notifyActivation
  <2> QED  BY <1>2, <2>1 DEF grown, isQueue
<1> QED  BY <1>1, <1>2

\* Every task stays located while others are announced.
LEMMA GrownLocated ==
  ASSUME NEW q, NEW r, NEW tk, NEW us, NEW miss, NEW ready, NEW running,
         grown(q, r, tk, us),
         \A t \in Task : located(t, q.active, q.due, miss, ready, running)
  PROVE  \A t \in Task : located(t, r.active, r.due, miss, ready, running)
<1> TAKE t \in Task
<1>1. CASE t \in q.active \/ t \notin r.active
  BY <1>1 DEF grown, located
<1>2. CASE t \notin q.active /\ t \in r.active
  BY <1>2 DEF grown, located
<1> QED  BY <1>1, <1>2

\* theQueue is the state of the queue as a record.
LEMMA TheQueue ==
  ASSUME Types
  PROVE  isQueue(theQueue) /\ theQueue.active = activeTasks /\ theQueue.due = due
BY DEF Types, isQueue, theQueue

\* Taking a task out of activeTasks changes nothing else of the queue.
LEMMA Erased ==
  ASSUME NEW q, isQueue(q), NEW t
  PROVE  LET r == [q EXCEPT !.active = @ \ {t}]
         IN  isQueue(r) /\ r.active = q.active \ {t} /\ r.due = q.due
BY DEF isQueue

-----------------------------------------------------------------------------
\* At the start every periodic actor is queued, and no other can fire.
THEOREM Initially == Init => IInv
<1> SUFFICES ASSUME Init  PROVE IInv
  OBVIOUS
<1> USE DEF Init
<1>1. Types
  BY ConstantsAssumption DEF Types, Absent, Job
<1>2. Awake
  BY DEF Awake, NoNotify, DeltaNotify
<1>3. Accounted
  <2>1. \A t : ~listed(t, <<>>)
    BY DEF listed
  <2>2. once(<<>>)
    BY DEF once
  <2>3. ASSUME NEW t \in Task  PROVE t # NoTask
    BY <2>3, ConstantsAssumption DEF Job
  <2> QED  BY <2>1, <2>2, <2>3, ConstantsAssumption DEF Accounted, located, Absent
<1>4. NoActivationLost
  BY ConstantsAssumption DEF NoActivationLost, enabled
<1>5. ReleasedTasksCanFire
  BY ConstantsAssumption DEF ReleasedTasksCanFire, enabled, Absent
<1> QED  BY <1>1, <1>2, <1>3, <1>4, <1>5 DEF IInv

-----------------------------------------------------------------------------
(* What the steps are made of *)

\* Adding a job that is not in the ready list wakes the thread if it sleeps.
LEMMA AddTask ==
  ASSUME Types, Awake, Accounted, NEW j \in Job, addTask(j),
         j \in Task => ~listed(j, readyTasks)
  PROVE  /\ readyTasks' \in Seq(Job) /\ readyTasks' # <<>>
         /\ once(readyTasks')
         /\ \A t : listed(t, readyTasks') <=> listed(t, readyTasks) \/ t = j
         /\ scheduleEvent' \in {NoNotify, DeltaNotify}
         /\ runningTask = NoTask => scheduleEvent' = DeltaNotify
         /\ runningTask # NoTask => scheduleEvent' = scheduleEvent
<1>1. readyTasks' = Append(readyTasks, j)
  BY DEF addTask
<1>2. /\ readyTasks' \in Seq(Job) /\ readyTasks' # <<>>
      /\ once(readyTasks')
      /\ \A t : listed(t, readyTasks') <=> listed(t, readyTasks) \/ t = j
  BY <1>1, Appended DEF Types, Accounted
<1> QED  BY <1>2 DEF addTask, Types

\* The thread stays awake while jobs are added and no task starts or ends.
LEMMA StaysAwake ==
  ASSUME Types, Awake, thread' = thread, runningTask' = runningTask,
         \/ UNCHANGED <<readyTasks, scheduleEvent>>
         \/ /\ readyTasks' # <<>>
            /\ runningTask = NoTask => scheduleEvent' = DeltaNotify
            /\ runningTask # NoTask => scheduleEvent' = scheduleEvent
  PROVE  Awake'
BY DEF Types, Awake

\* An output takes its hop over the component, or nothing is added.
LEMMA Forward ==
  ASSUME Types, Awake, Accounted, NEW j \in Job, forward(j)
  PROVE  /\ readyTasks' \in Seq(Job)
         /\ once(readyTasks')
         /\ \A t \in Task : listed(t, readyTasks') <=> listed(t, readyTasks)
         /\ scheduleEvent' \in {NoNotify, DeltaNotify}
         /\ \/ UNCHANGED <<readyTasks, scheduleEvent>>
            \/ /\ readyTasks' # <<>>
               /\ runningTask = NoTask => scheduleEvent' = DeltaNotify
               /\ runningTask # NoTask => scheduleEvent' = scheduleEvent
<1>1. CASE hops(j)
  <2>1. Hop[j] \in Msg /\ Hop[j] \in Job /\ Hop[j] \notin Task
    BY <1>1, ConstantsAssumption DEF hops, Job
  <2>2. addTask(Hop[j])
    BY <1>1 DEF forward
  <2> QED  BY <2>1, <2>2, AddTask
<1>2. CASE ~hops(j)
  BY <1>2 DEF forward, Types, Accounted
<1> QED  BY <1>1, <1>2

\* The reader of an output is an actor, if there is one.
LEMMA Delivered ==
  ASSUME NEW j \in Job
  PROVE  delivered(j) \in Task \cup {NoTask}
<1>1. Dest(j) \in Task \cup {NoTask}
  BY ConstantsAssumption DEF Dest
<1> QED  BY <1>1 DEF delivered

\* A token that appears at the reader enables no other actor.
LEMMA Arrived ==
  ASSUME tokens \in [Task -> Int], NEW j
  PROVE  /\ arrived(tokens, j) \in [Task -> Int]
         /\ \A t \in Task : /\ arrived(tokens, j)[t] >= tokens[t]
                            /\ t # delivered(j) => arrived(tokens, j)[t] = tokens[t]
BY DEF arrived

\* Tasks that are somewhere are not the null pointer.
LEMMA NotNull ==
  ASSUME NEW t \in Job  PROVE t # NoTask
BY ConstantsAssumption

-----------------------------------------------------------------------------
(* The steps *)

\* A token from outside: the actor that may read it is announced.
LEMMA ArrivalStep ==
  ASSUME IInv, NEW t \in Task, Arrival(t)
  PROVE  IInv'
<1> DEFINE q == announce(theQueue, t, tokens', used')
<1>1. /\ tokens' = [tokens EXCEPT ![t] = @ + 1] /\ used' = [used EXCEPT ![t] = @ + 1]
      /\ activeTasks' = q.active /\ due' = q.due
      /\ t \in Sources
      /\ UNCHANGED <<release, phase, class, missing, readyTasks, runningTask,
                     scheduleEvent, thread, latencyQueue>>
  BY DEF Arrival, setQueue, policy, scheduler
<1>2. /\ tokens' \in [Task -> Int] /\ used' \in [Task -> Int]
      /\ tokens'[t] = tokens[t] + 1
      /\ \A u \in Task : u # t => tokens'[u] = tokens[u] /\ used'[u] = used[u]
      /\ \A u \in Task : used'[u] >= used[u] /\ tokens'[u] >= tokens[u]
  BY <1>1 DEF IInv, Types
<1>3. /\ grown(theQueue, q, tokens', used')
      /\ enabled(t, tokens', used') => t \in q.active
      /\ theQueue.active = activeTasks /\ theQueue.due = due
  BY TheQueue, AnnounceGrows, NotNull DEF IInv, Types, Job
<1> HIDE DEF q
<1>4. Types'
  BY <1>1, <1>2, <1>3 DEF IInv, Types, grown, isQueue
<1>5. Awake'
  BY <1>1, StaysAwake DEF IInv
<1>6. Accounted'
  <2>1. \A u \in Task : located(u, q.active, q.due, missing, readyTasks, runningTask)
    BY <1>3, GrownLocated DEF IInv, Accounted
  <2> QED  BY <1>1, <2>1 DEF IInv, Accounted
<1>7. ASSUME NEW u \in Task, enabled(u, tokens', used')  PROVE u \in activeTasks'
  <2>1. CASE u = t
    BY <1>1, <1>3, <1>7, <2>1
  <2>2. CASE u # t
    <3>1. enabled(u, tokens, used)
      <4>1. Succ[u] # NoTask => used'[Succ[u]] >= used[Succ[u]] /\ used[Succ[u]] \in Int
                                  /\ used'[Succ[u]] \in Int
        BY <1>2, ConstantsAssumption DEF IInv, Types
      <4> QED  BY <1>2, <1>7, <2>2, <4>1, ConstantsAssumption DEF enabled
    <3> QED  BY <1>1, <1>3, <3>1 DEF IInv, NoActivationLost, grown
  <2> QED  BY <2>1, <2>2
<1>8. ASSUME NEW u \in Task, due'[u] # Absent  PROVE enabled(u, tokens', used')
  <2>1. CASE u \notin activeTasks
    <3>1. u \in q.active
      BY <1>1, <1>8, <1>3, <1>6 DEF Accounted, located
    <3> QED  BY <1>3, <2>1, <3>1 DEF grown
  <2>2. CASE u \in activeTasks
    <3>1. due[u] # Absent
      BY <1>1, <1>3, <1>8, <2>2 DEF grown
    <3>2. enabled(u, tokens, used)
      BY <3>1 DEF IInv, ReleasedTasksCanFire
    <3>3. Succ[u] # NoTask => Succ[u] \in Task /\ Succ[u] # t
      BY <1>1, ConstantsAssumption
    <3>4. tokens[u] > 0 => tokens'[u] > 0
      BY <1>2 DEF IInv, Types
    <3>5. Succ[u] # NoTask => used'[Succ[u]] = used[Succ[u]]
      BY <1>2, <3>3
    <3> QED  BY <3>2, <3>4, <3>5 DEF enabled
  <2> QED  BY <2>1, <2>2
<1> QED
  BY <1>4, <1>5, <1>6, <1>7, <1>8 DEF IInv, NoActivationLost, ReleasedTasksCanFire

\* A hop or a remote input arrives: a job is ready.
LEMMA ReadyStep ==
  ASSUME IInv,
         \/ \E m \in Msg : MessageArrival(m)
         \/ \E t \in Task : InputArrived(t)
  PROVE  IInv'
<1>1. ASSUME NEW m \in Msg, MessageArrival(m)  PROVE IInv'
  <2>1. m \in Job /\ m \notin Task
    BY ConstantsAssumption DEF Job
  <2>2. UNCHANGED <<tokens, used, release, phase, class, activeTasks, due, missing,
                    runningTask, thread, latencyQueue>>
    BY <1>1 DEF MessageArrival, actors, queue, scheduler, policy
  <2>3. /\ readyTasks' \in Seq(Job) /\ readyTasks' # <<>> /\ once(readyTasks')
        /\ \A t : listed(t, readyTasks') <=> listed(t, readyTasks) \/ t = m
        /\ scheduleEvent' \in {NoNotify, DeltaNotify}
        /\ runningTask = NoTask => scheduleEvent' = DeltaNotify
        /\ runningTask # NoTask => scheduleEvent' = scheduleEvent
    BY <1>1, <2>1, AddTask DEF MessageArrival, IInv
  <2>4. Awake'
    BY <2>2, <2>3, StaysAwake DEF IInv
  <2> QED
    BY <2>1, <2>2, <2>3, <2>4 DEF IInv, Types, Accounted, located, NoActivationLost,
       ReleasedTasksCanFire, enabled
<1>2. ASSUME NEW t \in Task, InputArrived(t)  PROVE IInv'
  <2>1. t \in Job /\ missing[t] > 0 /\ missing' = [missing EXCEPT ![t] = @ - 1]
    BY <1>2 DEF InputArrived, Job
  <2>2. UNCHANGED <<tokens, used, release, phase, class, activeTasks, due,
                    runningTask, thread, latencyQueue>>
    BY <1>2 DEF InputArrived, actors, queue, scheduler, policy
  <2>3. /\ missing' \in [Task -> Nat] /\ missing'[t] = missing[t] - 1
        /\ \A u \in Task : u # t => missing'[u] = missing[u]
    BY <2>1 DEF IInv, Types
  <2>4. ~listed(t, readyTasks)
    BY <2>1 DEF IInv, Accounted, located
  <2>5. CASE missing[t] = 1
    <3>1. addTask(t)
      BY <1>2, <2>5 DEF InputArrived
    <3>2. /\ readyTasks' \in Seq(Job) /\ readyTasks' # <<>> /\ once(readyTasks')
          /\ \A u : listed(u, readyTasks') <=> listed(u, readyTasks) \/ u = t
          /\ scheduleEvent' \in {NoNotify, DeltaNotify}
          /\ runningTask = NoTask => scheduleEvent' = DeltaNotify
          /\ runningTask # NoTask => scheduleEvent' = scheduleEvent
      BY <2>1, <2>4, <3>1, AddTask DEF IInv
    <3>3. Awake'
      BY <2>2, <3>2, StaysAwake DEF IInv
    <3>4. \A u \in Task : located(u, activeTasks, due, missing', readyTasks', runningTask)
      <4> TAKE u \in Task
      <4>1. CASE u = t
        BY <2>1, <2>3, <2>5, <3>2, <4>1 DEF IInv, Accounted, located
      <4>2. CASE u # t
        BY <2>3, <3>2, <4>2 DEF IInv, Accounted, located
      <4> QED  BY <4>1, <4>2
    <3> QED
      BY <2>2, <2>3, <3>2, <3>3, <3>4 DEF IInv, Types, Accounted, NoActivationLost,
         ReleasedTasksCanFire, enabled
  <2>6. CASE missing[t] # 1
    <3>1. UNCHANGED <<readyTasks, scheduleEvent>>
      BY <1>2, <2>6 DEF InputArrived
    <3>2. Awake'
      BY <2>2, <3>1, StaysAwake DEF IInv
    <3>3. \A u \in Task : located(u, activeTasks, due, missing', readyTasks, runningTask)
      <4> TAKE u \in Task
      <4>1. CASE u = t
        BY <2>1, <2>3, <2>6, <4>1 DEF IInv, Types, Accounted, located
      <4>2. CASE u # t
        BY <2>3, <4>2 DEF IInv, Accounted, located
      <4> QED  BY <4>1, <4>2
    <3> QED
      BY <2>2, <2>3, <3>1, <3>2, <3>3 DEF IInv, Types, Accounted, NoActivationLost,
         ReleasedTasksCanFire, enabled
  <2> QED  BY <2>5, <2>6
<1> QED  BY <1>1, <1>2

\* A queued actor is fired: it leaves the queue for the ready list, or waits
\* for its remote inputs, and no other can fire that could not before.
LEMMA ReleaseStep ==
  ASSUME IInv, NEW t \in Task, ReleaseTask(t)
  PROVE  IInv'
<1>1. /\ due[t] = 0 /\ due' = [due EXCEPT ![t] = Absent]
      /\ executeFiringRule(t)
      /\ UNCHANGED <<phase, class, activeTasks, runningTask, thread, latencyQueue>>
  BY DEF ReleaseTask, scheduler, policy
<1>2. t \in Job /\ Remote[t] \in Nat /\ missing' = [missing EXCEPT ![t] = Remote[t]]
  BY <1>1, ConstantsAssumption DEF Job, executeFiringRule
<1>3. /\ due' \in [Task -> {Absent, Late} \cup Nat] /\ due'[t] = Absent
      /\ \A u \in Task : u # t => due'[u] = due[u]
      /\ missing' \in [Task -> Nat] /\ missing'[t] = Remote[t]
      /\ \A u \in Task : u # t => missing'[u] = missing[u]
  BY <1>1, <1>2 DEF IInv, Types
<1>4. due[t] # Absent
  BY <1>1 DEF Absent
<1>5. t \in activeTasks /\ ~(missing[t] > 0) /\ ~listed(t, readyTasks) /\ t # runningTask
  BY <1>4 DEF IInv, Accounted, located
<1>6. release' \in [Periodic -> {Late} \cup Nat]
  BY <1>1 DEF IInv, Types, executeFiringRule
<1>7. /\ tokens' \in [Task -> Int] /\ used' \in [Task -> Int]
      /\ \A u \in Task : tokens'[u] <= tokens[u] /\ (u # t => tokens'[u] = tokens[u])
      /\ \A u \in Task : used'[u] >= used[u] /\ (u # Succ[t] => used'[u] = used[u])
  <2>1. Succ[t] # NoTask => Succ[t] \in Task
    BY ConstantsAssumption
  <2> QED  BY <1>1, <2>1 DEF IInv, Types, executeFiringRule
<1>8. ASSUME NEW u \in Task, enabled(u, tokens', used')  PROVE enabled(u, tokens, used)
  <2>1. tokens'[u] > 0 => tokens[u] > 0
    BY <1>7 DEF IInv, Types
  <2>2. ASSUME Succ[u] # NoTask, used'[Succ[u]] < Capacity  PROVE used[Succ[u]] < Capacity
    <3>1. Succ[u] \in Task /\ Capacity \in Int
      BY <2>2, ConstantsAssumption
    <3>2. used[Succ[u]] \in Int /\ used'[Succ[u]] \in Int /\ used'[Succ[u]] >= used[Succ[u]]
      BY <1>7, <3>1 DEF IInv, Types
    <3> QED  BY <2>2, <3>1, <3>2
  <2> QED  BY <1>8, <2>1, <2>2 DEF enabled
<1>9. ASSUME NEW u \in Task, u # t, enabled(u, tokens, used)
      PROVE  enabled(u, tokens', used')
  <2>1. Succ[u] # NoTask => Succ[u] \in Task /\ Succ[u] # Succ[t]
    BY <1>9, ConstantsAssumption
  <2> QED  BY <1>7, <1>9, <2>1 DEF enabled
<1>10. NoActivationLost' /\ ReleasedTasksCanFire'
  BY <1>1, <1>3, <1>8, <1>9 DEF IInv, NoActivationLost, ReleasedTasksCanFire
<1>11. CASE Remote[t] = 0
  <2>1. addTask(t)
    BY <1>1, <1>11 DEF executeFiringRule
  <2>2. /\ readyTasks' \in Seq(Job) /\ readyTasks' # <<>> /\ once(readyTasks')
        /\ \A u : listed(u, readyTasks') <=> listed(u, readyTasks) \/ u = t
        /\ scheduleEvent' \in {NoNotify, DeltaNotify}
        /\ runningTask = NoTask => scheduleEvent' = DeltaNotify
        /\ runningTask # NoTask => scheduleEvent' = scheduleEvent
    BY <1>2, <1>5, <2>1, AddTask DEF IInv
  <2>3. Awake'
    BY <1>1, <2>2, StaysAwake DEF IInv
  <2>4. \A u \in Task : located(u, activeTasks, due', missing', readyTasks', runningTask)
    <3> TAKE u \in Task
    <3>1. CASE u = t
      BY <1>3, <1>5, <1>11, <2>2, <3>1 DEF located
    <3>2. CASE u # t
      BY <1>3, <2>2, <3>2 DEF IInv, Accounted, located
    <3> QED  BY <3>1, <3>2
  <2> QED
    BY <1>1, <1>3, <1>6, <1>7, <1>10, <2>2, <2>3, <2>4 DEF IInv, Types, Accounted
<1>12. CASE Remote[t] # 0
  <2>1. UNCHANGED <<readyTasks, scheduleEvent>>
    BY <1>1, <1>12 DEF executeFiringRule
  <2>2. Awake'
    BY <1>1, <2>1, StaysAwake DEF IInv
  <2>3. \A u \in Task : located(u, activeTasks, due', missing', readyTasks, runningTask)
    <3> TAKE u \in Task
    <3>1. CASE u = t
      BY <1>2, <1>3, <1>5, <1>12, <3>1 DEF located
    <3>2. CASE u # t
      BY <1>3, <3>2 DEF IInv, Accounted, located
    <3> QED  BY <3>1, <3>2
  <2> QED
    BY <1>1, <1>3, <1>6, <1>7, <1>10, <2>1, <2>2, <2>3 DEF IInv, Types, Accounted
<1> QED  BY <1>11, <1>12

\* A latency is over: the output takes its hop, or its reader is announced.
LEMMA LatencyStep ==
  ASSUME IInv, NEW e \in latencyQueue, LatencyExpires(e)
  PROVE  IInv'
<1> DEFINE j == e.job
           d == delivered(j)
           q == announce(theQueue, d, tokens', used)
<1>1. /\ forward(j) /\ tokens' = arrived(tokens, j)
      /\ activeTasks' = q.active /\ due' = q.due
      /\ latencyQueue' \subseteq latencyQueue
      /\ UNCHANGED <<used, release, phase, class, missing, runningTask, thread>>
  BY DEF LatencyExpires, setQueue, policy, scheduler
<1>2. j \in Job /\ d \in Task \cup {NoTask}
  BY Delivered DEF IInv, Types
<1>3. /\ grown(theQueue, q, tokens', used)
      /\ d # NoTask /\ enabled(d, tokens', used) => d \in q.active
      /\ theQueue.active = activeTasks /\ theQueue.due = due
  BY <1>2, TheQueue, AnnounceGrows DEF IInv, Types
<1>4. /\ tokens' \in [Task -> Int]
      /\ \A t \in Task : tokens'[t] >= tokens[t] /\ (t # d => tokens'[t] = tokens[t])
  BY <1>1, Arrived DEF IInv, Types
<1>5. /\ readyTasks' \in Seq(Job) /\ once(readyTasks')
      /\ \A t \in Task : listed(t, readyTasks') <=> listed(t, readyTasks)
      /\ scheduleEvent' \in {NoNotify, DeltaNotify}
      /\ Awake'
  BY <1>1, <1>2, Forward, StaysAwake DEF IInv
<1> HIDE DEF q, d, j
<1>6. Types'
  BY <1>1, <1>3, <1>4, <1>5 DEF IInv, Types, grown, isQueue
<1>7. Accounted'
  <2>1. \A t \in Task : located(t, activeTasks, due, missing, readyTasks', runningTask)
    BY <1>5 DEF IInv, Accounted, located
  <2>2. \A t \in Task : located(t, q.active, q.due, missing, readyTasks', runningTask)
    BY <1>3, <2>1, GrownLocated
  <2> QED  BY <1>1, <1>5, <2>2 DEF Accounted
<1>8. ASSUME NEW t \in Task, enabled(t, tokens', used)  PROVE t \in activeTasks'
  <2>1. CASE t = d
    BY <1>1, <1>3, <1>8, <2>1, NotNull DEF Job
  <2>2. CASE t # d
    <3>1. enabled(t, tokens, used)
      BY <1>4, <1>8, <2>2 DEF enabled
    <3> QED  BY <1>1, <1>3, <3>1 DEF IInv, NoActivationLost, grown
  <2> QED  BY <2>1, <2>2
<1>9. ASSUME NEW t \in Task, due'[t] # Absent  PROVE enabled(t, tokens', used)
  <2>1. CASE t \notin activeTasks
    BY <1>1, <1>3, <1>7, <1>9, <2>1 DEF Accounted, located, grown
  <2>2. CASE t \in activeTasks
    <3>1. enabled(t, tokens, used)
      BY <1>1, <1>3, <1>9, <2>2 DEF IInv, ReleasedTasksCanFire, grown
    <3>2. tokens[t] > 0 => tokens'[t] > 0
      BY <1>4 DEF IInv, Types
    <3> QED  BY <3>1, <3>2 DEF enabled
  <2> QED  BY <2>1, <2>2
<1> QED
  BY <1>1, <1>5, <1>6, <1>7, <1>8, <1>9 DEF IInv, NoActivationLost, ReleasedTasksCanFire

\* The thread looks at the ready list, or goes to sleep because it is empty.
LEMMA LookStep ==
  ASSUME IInv, ThreadRuns \/ Sleep
  PROVE  IInv'
<1>1. UNCHANGED <<tokens, used, release, phase, class, activeTasks, due, missing,
                  readyTasks, runningTask, scheduleEvent, latencyQueue>>
  BY DEF ThreadRuns, Sleep, actors, queue, policy
<1>2. Types' /\ Awake'
  BY <1>1 DEF IInv, Types, Awake, ThreadRuns, Sleep
<1> QED
  BY <1>1, <1>2 DEF IInv, Accounted, NoActivationLost, ReleasedTasksCanFire, enabled

\* Whatever the policy, it selects a place of the ready list.
LEMMA Selectable ==
  ASSUME Types, readyTasks # <<>>, NEW i \in selectable
  PROVE  i \in 1..Len(readyTasks)
<1>1. DOMAIN readyTasks = 1..Len(readyTasks) /\ Len(readyTasks) \in Nat \ {0}
  BY LenProperties, EmptySeq DEF Types
<1>2. class \in {"FCFS", "PRIORITY", "DYNAMIC"}
  BY ConstantsAssumption DEF Types
<1>3. CASE class = "FCFS"
  BY <1>1, <1>3 DEF selectable
<1>4. CASE class = "PRIORITY"
  BY <1>1, <1>4 DEF selectable
<1>5. CASE class = "DYNAMIC"
  <2> DEFINE candidates == {k \in DOMAIN readyTasks :
                              readyTasks[k] \in Task /\ readyTasks[k] # yieldTask}
  <2>1. i \in candidates \/ i = 1
    BY <1>5 DEF selectable
  <2> QED  BY <1>1, <2>1
<1> QED  BY <1>2, <1>3, <1>4, <1>5

\* The selected job leaves the ready list and runs.
LEMMA DispatchStep ==
  ASSUME IInv, Dispatch
  PROVE  IInv'
<1>1. PICK i \in selectable : /\ runningTask' = readyTasks[i]
                              /\ readyTasks' = RemoveAt(readyTasks, i)
  BY DEF Dispatch
<1>2. /\ thread = "loop" /\ readyTasks # <<>> /\ thread' = "computing"
      /\ UNCHANGED <<tokens, used, release, phase, class, activeTasks, due, missing,
                     scheduleEvent, latencyQueue>>
  BY DEF Dispatch, actors, queue
<1>3. i \in 1..Len(readyTasks)
  BY <1>2, Selectable DEF IInv
<1>4. runningTask = NoTask
  BY <1>2 DEF IInv, Awake
<1>5. runningTask' \in Job
  BY <1>1, <1>3, ElementOfSeq DEF IInv, Types
<1>6. /\ readyTasks' \in Seq(Job) /\ once(readyTasks')
      /\ \A t \in Task : listed(t, readyTasks') <=> listed(t, readyTasks) /\ t # runningTask'
  BY <1>1, <1>3, Removed DEF IInv, Types, Accounted
<1>7. listed(runningTask', readyTasks)
  BY <1>1, <1>3 DEF listed
<1>8. \A t \in Task : located(t, activeTasks, due, missing, readyTasks', runningTask')
  BY <1>4, <1>6, <1>7, NotNull DEF IInv, Accounted, located, Job
<1>9. Types'
  BY <1>2, <1>5, <1>6 DEF IInv, Types
<1>10. Awake'
  BY <1>2, <1>5, NotNull DEF Awake
<1> QED
  BY <1>2, <1>6, <1>8, <1>9, <1>10 DEF IInv, Accounted, NoActivationLost,
     ReleasedTasksCanFire, enabled

\* A place that a job frees is one of its writer's; a periodic actor and a
\* message free none.
LEMMA Freed ==
  ASSUME used \in [Task -> Int], NEW j
  PROVE  /\ freed(j) \in [Task -> Int]
         /\ \A t \in Task : freed(j)[t] <= used[t] /\ (t # j => freed(j)[t] = used[t])
BY DEF freed

\* The writer of a channel is its only one.
LEMMA Writer ==
  ASSUME NEW j
  PROVE  /\ writer(j) \in Task \cup {NoTask}
         /\ j \in Task => \A t \in Task : Succ[t] = j => t = writer(j)
<1>1. CASE \E t \in Task : Succ[t] = j
  <2>1. writer(j) \in Task /\ Succ[writer(j)] = j
    BY <1>1 DEF writer
  <2> QED  BY <2>1, ConstantsAssumption DEF Job
<1>2. CASE ~\E t \in Task : Succ[t] = j
  BY <1>2 DEF writer
<1> QED  BY <1>1, <1>2

\* Several announcements, one after the other, are one that adds more.
LEMMA GrowsOn ==
  ASSUME NEW p, NEW q, NEW r, NEW tk, NEW us, grown(p, q, tk, us), grown(q, r, tk, us)
  PROVE  grown(p, r, tk, us)
BY DEF grown, isQueue

\* The DII of the running task is over: its writer, the reader of its output
\* and the task itself are announced, the task after it has been erased.
LEMMA TimeoutStep ==
  ASSUME IInv, Timeout
  PROVE  IInv'
<1> DEFINE j == runningTask
           w == writer(j)
           d == delivered(j)
           now == Latency[j] = Delay[j]
           q0 == theQueue
           q1 == announce(q0, w, tokens, used')
           q2 == IF now THEN announce(q1, d, tokens', used') ELSE q1
           q3 == [q2 EXCEPT !.active = @ \ {j}]
           q4 == IF j \in Task THEN announce(q3, j, tokens', used') ELSE q2
<1>1. /\ thread = "timeout" /\ thread' = "loop" /\ runningTask' = NoTask
      /\ used' = freed(j)
      /\ activeTasks' = q4.active /\ due' = q4.due
      /\ UNCHANGED <<release, phase, class, missing>>
  BY DEF Timeout, finishDii, setQueue, announced, reactivate, policy
<1>2. j \in Job /\ j # NoTask /\ w \in Task \cup {NoTask} /\ d \in Task \cup {NoTask}
  BY <1>1, Writer, Delivered DEF IInv, Types, Awake
<1>3. /\ now => tokens' = arrived(tokens, j) /\ forward(j) /\ latencyQueue' = latencyQueue
      /\ ~now => /\ UNCHANGED <<tokens, readyTasks, scheduleEvent>>
                 /\ latencyQueue' = latencyQueue \cup {[job |-> j, time |-> Latency[j] - Delay[j]]}
  BY DEF Timeout, finishDii
<1>4. /\ used' \in [Task -> Int]
      /\ \A t \in Task : used'[t] <= used[t] /\ (t # j => used'[t] = used[t])
  BY <1>1, Freed DEF IInv, Types
<1>5. /\ tokens' \in [Task -> Int]
      /\ \A t \in Task : tokens'[t] >= tokens[t] /\ (~now \/ t # d => tokens'[t] = tokens[t])
  BY <1>3, Arrived DEF IInv, Types
<1>6. /\ readyTasks' \in Seq(Job) /\ once(readyTasks')
      /\ \A t \in Task : listed(t, readyTasks') <=> listed(t, readyTasks)
      /\ scheduleEvent' = scheduleEvent
      /\ readyTasks' = <<>> => readyTasks = <<>>
  BY <1>2, <1>3, Forward DEF IInv, Types, Accounted
<1>7. latencyQueue' \subseteq [job : Job, time : Int]
  BY <1>2, <1>3, ConstantsAssumption DEF IInv, Types
<1>8. \A t \in Task : enabled(t, tokens, used') => enabled(t, tokens', used')
  BY <1>5 DEF enabled, IInv, Types
<1>9. isQueue(q0) /\ q0.active = activeTasks /\ q0.due = due
  BY TheQueue DEF IInv
<1> HIDE DEF q0
<1>10. grown(q0, q1, tokens', used') /\ (w # NoTask /\ enabled(w, tokens, used') => w \in q1.active)
  <2>1. /\ grown(q0, q1, tokens, used')
        /\ w # NoTask /\ enabled(w, tokens, used') => w \in q1.active
    BY <1>2, <1>9, AnnounceGrows DEF IInv, Types
  <2> QED  BY <1>8, <2>1 DEF grown, isQueue
<1> HIDE DEF q1
<1>11. grown(q1, q2, tokens', used') /\ (now /\ d # NoTask /\ enabled(d, tokens', used') => d \in q2.active)
  <2>1. isQueue(q1)
    BY <1>10 DEF grown
  <2>2. CASE now
    BY <1>2, <2>1, <2>2, AnnounceGrows DEF IInv, Types
  <2>3. CASE ~now
    BY <2>1, <2>3 DEF grown, isQueue
  <2> QED  BY <2>2, <2>3
<1> HIDE DEF q2
<1>12. grown(q0, q2, tokens', used')
  BY <1>10, <1>11, GrowsOn
<1>13. \A t \in Task : located(t, q2.active, q2.due, missing, readyTasks', j)
  <2>1. \A t \in Task : located(t, q0.active, q0.due, missing, readyTasks', j)
    BY <1>6, <1>9 DEF IInv, Accounted, located
  <2> QED  BY <1>12, <2>1, GrownLocated
<1>14. /\ isQueue(q3) /\ q3.active = q2.active \ {j} /\ q3.due = q2.due
  BY <1>12, Erased DEF grown
<1> HIDE DEF q3
<1>15. \A t \in Task : located(t, q3.active, q3.due, missing, readyTasks', NoTask)
  BY <1>13, <1>14, NotNull DEF located, Job
<1>16. ASSUME NEW t \in Task, q2.due[t] # Absent
       PROVE  due[t] # Absent \/ enabled(t, tokens', used')
  <2>1. t \in q2.active
    BY <1>13, <1>16 DEF located
  <2> QED  BY <1>9, <1>12, <1>16, <2>1 DEF grown
<1>17. /\ isQueue(q4)
       /\ \A t \in Task : located(t, q4.active, q4.due, missing, readyTasks', NoTask)
       /\ \A t \in q2.active : t # j => t \in q4.active
       /\ j \in Task /\ enabled(j, tokens', used') => j \in q4.active
       /\ \A t \in Task : q4.due[t] # Absent => due[t] # Absent \/ enabled(t, tokens', used')
  <2>1. CASE j \in Task
    <3>1. grown(q3, q4, tokens', used') /\ (enabled(j, tokens', used') => j \in q4.active)
      BY <1>2, <1>14, <2>1, AnnounceGrows DEF IInv, Types
    <3> HIDE DEF q4
    <3>2. \A t \in Task : located(t, q4.active, q4.due, missing, readyTasks', NoTask)
      BY <1>15, <3>1, GrownLocated
    <3>3. ASSUME NEW t \in Task, q4.due[t] # Absent
          PROVE  due[t] # Absent \/ enabled(t, tokens', used')
      <4>1. t \in q4.active
        BY <3>2, <3>3 DEF located
      <4> QED  BY <1>14, <1>16, <3>1, <3>3, <4>1 DEF grown
    <3> QED  BY <1>14, <3>1, <3>2, <3>3 DEF grown
  <2>2. CASE j \notin Task
    <3>1. q4 = q2 /\ q3.active = q2.active /\ q3.due = q2.due
      BY <1>12, <1>14, <2>2 DEF grown, isQueue
    <3> QED  BY <1>12, <1>15, <1>16, <2>2, <3>1 DEF grown
  <2> QED  BY <2>1, <2>2
<1> HIDE DEF q4
<1>18. Types'
  BY <1>1, <1>4, <1>5, <1>6, <1>7, <1>17 DEF IInv, Types, isQueue
<1>19. Awake'
  BY <1>1, <1>6 DEF IInv, Awake
<1>20. Accounted'
  BY <1>1, <1>6, <1>17 DEF Accounted
<1>21. ASSUME NEW t \in Task, enabled(t, tokens', used')  PROVE t \in q4.active
  <2>1. CASE t = j
    BY <1>17, <1>21, <2>1
  <2>2. CASE t # j
    <3> SUFFICES t \in q2.active
      BY <1>17, <2>2
    <3>1. CASE t = w
      <4>1. CASE enabled(w, tokens, used')
        BY <1>10, <1>11, <3>1, <4>1, NotNull DEF grown, Job
      <4>2. CASE ~enabled(w, tokens, used')
        <5>1. tokens'[t] # tokens[t]
          BY <1>21, <3>1, <4>2 DEF enabled
        <5> QED  BY <1>5, <1>11, <1>21, <5>1, NotNull DEF Job
      <4> QED  BY <4>1, <4>2
    <3>2. CASE t # w /\ t = d /\ now
      BY <1>11, <1>21, <3>2, NotNull DEF Job
    <3>3. CASE t # w /\ ~(t = d /\ now)
      <4>1. tokens'[t] = tokens[t]
        BY <1>5, <3>3
      <4>2. Succ[t] # NoTask => Succ[t] \in Task /\ used'[Succ[t]] = used[Succ[t]]
        BY <1>4, <3>3, Writer, ConstantsAssumption
      <4>3. enabled(t, tokens, used)
        BY <1>21, <4>1, <4>2 DEF enabled
      <4> QED  BY <1>9, <1>12, <4>3 DEF IInv, NoActivationLost, grown
    <3> QED  BY <3>1, <3>2, <3>3
  <2> QED  BY <2>1, <2>2
<1>22. ASSUME NEW t \in Task, q4.due[t] # Absent  PROVE enabled(t, tokens', used')
  <2>1. CASE due[t] # Absent
    <3>1. enabled(t, tokens, used)
      BY <2>1 DEF IInv, ReleasedTasksCanFire
    <3>2. Succ[t] # NoTask => (used[Succ[t]] < Capacity => used'[Succ[t]] < Capacity)
      BY <1>4, ConstantsAssumption DEF IInv, Types
    <3>3. tokens[t] > 0 => tokens'[t] > 0
      BY <1>5 DEF IInv, Types
    <3> QED  BY <3>1, <3>2, <3>3 DEF enabled
  <2>2. CASE due[t] = Absent
    BY <1>17, <1>22, <2>2
  <2> QED  BY <2>1, <2>2
<1> QED
  BY <1>1, <1>18, <1>19, <1>20, <1>21, <1>22 DEF IInv, NoActivationLost, ReleasedTasksCanFire

\* The kernel passes notifications on and lets time elapse.
LEMMA KernelStep ==
  ASSUME IInv, DeltaCycle \/ LateNotification \/ AdvanceTime
  PROVE  IInv'
<1>1. ASSUME DeltaCycle  PROVE IInv'
  <2>1. /\ thread \in {"computing", "sleep"}
        /\ thread' = IF scheduleEvent = DeltaNotify /\ thread = "sleep" THEN "woken" ELSE thread
        /\ scheduleEvent' = NoNotify
        /\ UNCHANGED <<tokens, used, release, phase, class, activeTasks, due, missing,
                       readyTasks, runningTask, latencyQueue>>
    BY <1>1 DEF DeltaCycle, Quiet, actors, policy
  <2>2. Types' /\ Awake'
    BY <2>1 DEF IInv, Types, Awake, NoNotify, DeltaNotify
  <2> QED
    BY <2>1, <2>2 DEF IInv, Accounted, NoActivationLost, ReleasedTasksCanFire, enabled
<1>2. ASSUME AdvanceTime  PROVE IInv'
  <2> DEFINE elapse(n) == IF n > 0 THEN n - 1 ELSE n
             pass(n)   == IF n = 0 THEN Late ELSE elapse(n)
  <2>1. /\ thread \in {"computing", "sleep"} /\ scheduleEvent # DeltaNotify
        /\ thread' = IF thread = "computing" /\ wake = 1 THEN "timeout" ELSE thread
        /\ release' = [t \in Periodic |-> pass(release[t])]
        /\ phase' = [t \in Periodic |-> IF phase[t] = 1 THEN Period[t] ELSE phase[t] - 1]
        /\ due' = [t \in Task |-> pass(due[t])]
        /\ latencyQueue' = {[e EXCEPT !.time = elapse(@)] : e \in latencyQueue}
        /\ UNCHANGED <<tokens, used, class, activeTasks, missing, readyTasks,
                       runningTask, scheduleEvent>>
    BY <1>2 DEF AdvanceTime, Quiet, policy
  <2>2. due' \in [Task -> {Absent, Late} \cup Nat] /\ \A t \in Task : due'[t] = Absent <=> due[t] = Absent
    BY <2>1 DEF IInv, Types, Absent, Late
  <2>3. release' \in [Periodic -> {Late} \cup Nat] /\ phase' \in [Periodic -> Nat \ {0}]
    <3>1. ASSUME NEW t \in Periodic  PROVE pass(release[t]) \in {Late} \cup Nat
      BY DEF IInv, Types, Late
    <3> HIDE DEF pass
    <3>2. release' \in [Periodic -> {Late} \cup Nat]
      BY <2>1, <3>1
    <3>3. ASSUME NEW t \in Periodic
          PROVE  (IF phase[t] = 1 THEN Period[t] ELSE phase[t] - 1) \in Nat \ {0}
      BY ConstantsAssumption DEF IInv, Types
    <3>4. phase' \in [Periodic -> Nat \ {0}]
      BY <2>1, <3>3
    <3> QED  BY <3>2, <3>4
  <2>4. latencyQueue' \subseteq [job : Job, time : Int]
    <3>1. ASSUME NEW e \in latencyQueue
          PROVE  [e EXCEPT !.time = elapse(@)] \in [job : Job, time : Int]
      <4>1. e \in [job : Job, time : Int] /\ elapse(e.time) \in Int
        BY DEF IInv, Types
      <4> QED  BY <4>1
    <3> QED  BY <2>1, <3>1
  <2>5. Types'
    BY <2>1, <2>2, <2>3, <2>4 DEF IInv, Types
  <2>6. Awake'
    BY <2>1 DEF IInv, Awake
  <2>7. Accounted'
    BY <2>1, <2>2 DEF IInv, Accounted, located
  <2> QED
    BY <2>1, <2>2, <2>5, <2>6, <2>7 DEF IInv, NoActivationLost, ReleasedTasksCanFire, enabled
<1>3. ASSUME LateNotification  PROVE IInv'
  <2>1. UNCHANGED <<tokens, used, release, phase, class, activeTasks, due, missing,
                    readyTasks, runningTask, thread, scheduleEvent, latencyQueue>>
    BY <1>3 DEF LateNotification, actors, scheduler, policy
  <2> QED
    BY <2>1 DEF IInv, Types, Awake, Accounted, NoActivationLost, ReleasedTasksCanFire, enabled
<1> QED  BY <1>1, <1>2, <1>3

\* The rest leaves the tasks, the thread and the channels as they are.
LEMMA OtherStep ==
  ASSUME IInv,
         \/ ScheduleAfterTransition
         \/ \E i, k \in DOMAIN priorities : SetDynamicPriority(i, k)
         \/ ReleaseDone
         \/ UNCHANGED vars
  PROVE  IInv'
<1>1. UNCHANGED <<tokens, used, release, phase, class, activeTasks, due, missing,
                  readyTasks, runningTask, thread, scheduleEvent, latencyQueue>>
  BY DEF ScheduleAfterTransition, SetDynamicPriority, ReleaseDone, vars, actors, queue,
     scheduler, policy
<1> QED
  BY <1>1 DEF IInv, Types, Awake, Accounted, NoActivationLost, ReleasedTasksCanFire, enabled

-----------------------------------------------------------------------------
(* The theorems *)

\* The assertions of scheduleThread: it is never woken for nothing, and the
\* task whose DII ends is in activeTasks.
ThreadAssertions ==
  /\ thread = "woken" => readyTasks # <<>>
  /\ thread = "timeout" /\ runningTask \in Task => runningTask \in activeTasks

\* Every step keeps the inductive invariant, ...
LEMMA Step ==
  ASSUME IInv, [Next]_vars
  PROVE  IInv'
BY ArrivalStep, ReadyStep, ReleaseStep, LatencyStep, LookStep, DispatchStep,
   TimeoutStep, KernelStep, OtherStep DEF Next, Release, Latencies, Thread

\* ... so it holds in every reachable state.
THEOREM Inductive == Spec => []IInv
<1>1. IInv /\ [Next]_vars => IInv'
  BY Step
<1> QED  BY Initially, <1>1, PTL DEF Spec

\* A task is in activeTasks exactly while it is in one, and only one, of the
\* stations between notifyActivation and the end of its DII.
THEOREM ActiveTasksAccountedTheorem == Spec => []ActiveTasksAccounted
<1>1. IInv => ActiveTasksAccounted
  <2> SUFFICES ASSUME IInv, NEW t \in Task
               PROVE  /\ t \in activeTasks => \E s \in stations(t) : stations(t) = {s}
                      /\ t \notin activeTasks => stations(t) = {}
                      /\ \A i, k \in DOMAIN readyTasks :
                           readyTasks[i] = t /\ readyTasks[k] = t => i = k
    BY DEF ActiveTasksAccounted
  <2>1. DOMAIN readyTasks = 1..Len(readyTasks)
    BY LenProperties DEF IInv, Types
  <2>2. t \in Range(readyTasks) <=> listed(t, readyTasks)
    BY <2>1 DEF Range, listed
  <2>3. located(t, activeTasks, due, missing, readyTasks, runningTask)
    BY DEF IInv, Accounted
  <2>4. \A i, k \in DOMAIN readyTasks : readyTasks[i] = t /\ readyTasks[k] = t => i = k
    BY <2>1 DEF IInv, Accounted, once
  <2>5. CASE due[t] # Absent
    <3>1. stations(t) = {"queued"} /\ t \in activeTasks
      BY <2>2, <2>3, <2>5 DEF located, stations
    <3> QED  BY <2>4, <3>1
  <2>6. CASE missing[t] > 0
    <3>1. stations(t) = {"waiting"} /\ t \in activeTasks
      BY <2>2, <2>3, <2>6 DEF located, stations
    <3> QED  BY <2>4, <3>1
  <2>7. CASE listed(t, readyTasks)
    <3>1. stations(t) = {"ready"} /\ t \in activeTasks
      BY <2>2, <2>3, <2>7 DEF located, stations
    <3> QED  BY <2>4, <3>1
  <2>8. CASE t = runningTask
    <3>1. stations(t) = {"running"} /\ t \in activeTasks
      BY <2>2, <2>3, <2>8 DEF located, stations
    <3> QED  BY <2>4, <3>1
  <2>9. CASE ~(due[t] # Absent \/ missing[t] > 0 \/ listed(t, readyTasks) \/ t = runningTask)
    <3>1. stations(t) = {} /\ t \notin activeTasks
      BY <2>2, <2>3, <2>9 DEF located, stations
    <3> QED  BY <2>4, <3>1
  <2> QED  BY <2>5, <2>6, <2>7, <2>8, <2>9
<1> QED  BY Inductive, <1>1, PTL

\* Between two steps of the processes an actor that can fire is active.
THEOREM NoActivationLostTheorem == Spec => []NoActivationLost
<1>1. IInv => NoActivationLost
  BY DEF IInv
<1> QED  BY Inductive, <1>1, PTL

\* An actor in ttReleaseQueue can fire when it is taken out.
THEOREM ReleasedTasksCanFireTheorem == Spec => []ReleasedTasksCanFire
<1>1. IInv => ReleasedTasksCanFire
  BY DEF IInv
<1> QED  BY Inductive, <1>1, PTL

\* With a task ready and none running, scheduleThread is about to look.
THEOREM NoLostWakeupTheorem == Spec => []NoLostWakeup
<1>1. IInv => NoLostWakeup
  BY DEF IInv, Types, Awake, NoLostWakeup
<1> QED  BY Inductive, <1>1, PTL

\* No assertion of scheduleThread fails (NonPreemptiveComponent.cpp:130, 138).
THEOREM ThreadAssertionsTheorem == Spec => []ThreadAssertions
<1>1. IInv => ThreadAssertions
  BY DEF IInv, Awake, Accounted, located, ThreadAssertions
<1> QED  BY Inductive, <1>1, PTL

-----------------------------------------------------------------------------
(* The latencies.  An output joins latencyQueue when the DII of its task   *)
(* ends, so two outputs of a task are at least a DII apart: no entry is    *)
(* added to the set that is in it already, and counting its entries counts *)
(* the outputs.                                                            *)

slack(j) == Latency[j] - Delay[j]

Spaced ==
  /\ wake \in Nat /\ firstDelta \in BOOLEAN
  /\ IsFiniteSet(latencyQueue)
  /\ \A e \in latencyQueue : e.time \in 0..slack(e.job)
  /\ ~firstDelta => \A e \in latencyQueue : e.time > 0
  /\ thread = "computing" => wake \in 1..Delay[runningTask]
  /\ thread = "timeout" => wake = 0
  /\ \A e \in latencyQueue :
       e.job = runningTask => e.time + Delay[runningTask] - wake <= slack(runningTask)

older(e) == [job |-> e.job, time |-> e.time - 1]

\* Entries are as many when they have all become older.
LEMMA OlderCount ==
  ASSUME NEW L \in SUBSET [job : Job, time : Int], IsFiniteSet(L)
  PROVE  /\ IsFiniteSet({older(e) : e \in L})
         /\ Cardinality({older(e) : e \in L}) = Cardinality(L)
<1> DEFINE f == [e \in L |-> older(e)]
           T == {older(e) : e \in L}
<1>1. ASSUME NEW d \in L, NEW e \in L, older(d) = older(e)  PROVE d = e
  <2>1. d.job = e.job /\ d.time - 1 = e.time - 1
    BY <1>1 DEF older
  <2>2. d.time \in Int /\ e.time \in Int /\ d = [job |-> d.job, time |-> d.time]
        /\ e = [job |-> e.job, time |-> e.time]
    OBVIOUS
  <2>3. d.time = e.time
    BY <2>1, <2>2
  <2> QED  BY <2>1, <2>2, <2>3
<1>2. f \in Bijection(L, T)
  BY <1>1 DEF Bijection, Injection, Surjection, IsInjective
<1>3. ExistsBijection(L, T)
  BY <1>2 DEF ExistsBijection
<1> QED  BY <1>3, FS_Bijection

\* Time passes only when no latency is over: every entry becomes older.
LEMMA Aged ==
  ASSUME IInv, Spaced, AdvanceTime
  PROVE  /\ \A e \in latencyQueue : e.time > 0
         /\ latencyQueue' = {older(e) : e \in latencyQueue}
<1>1. \A e \in latencyQueue : e.time > 0 /\ e \in [job : Job, time : Int]
  BY DEF IInv, Types, Spaced, AdvanceTime, Quiet
<1>2. \A e \in latencyQueue : [e EXCEPT !.time = IF @ > 0 THEN @ - 1 ELSE @] = older(e)
  BY <1>1 DEF older
<1>3. latencyQueue' = {[e EXCEPT !.time = IF @ > 0 THEN @ - 1 ELSE @] : e \in latencyQueue}
  BY DEF AdvanceTime
<1> QED  BY <1>1, <1>2, <1>3

\* The numbers a job comes with.
LEMMA Timing ==
  ASSUME NEW j \in Job
  PROVE  Delay[j] \in Nat \ {0} /\ slack(j) \in Nat /\ (slack(j) = 0 <=> Latency[j] = Delay[j])
BY ConstantsAssumption DEF slack

\* Entries and the running task come closer to their end together.
LEMMA SpacedAdvance ==
  ASSUME IInv, Spaced, AdvanceTime
  PROVE  Spaced'
<1>1. /\ \A e \in latencyQueue : e.time > 0
      /\ latencyQueue' = {older(e) : e \in latencyQueue}
      /\ IsFiniteSet(latencyQueue')
  BY Aged, OlderCount DEF IInv, Types, Spaced
<1>2. /\ thread \in {"computing", "sleep"} /\ firstDelta' = TRUE
      /\ thread' = IF thread = "computing" /\ wake = 1 THEN "timeout" ELSE thread
      /\ wake' = IF wake > 0 THEN wake - 1 ELSE wake
      /\ runningTask' = runningTask
  BY DEF AdvanceTime, Quiet
<1>3. wake' \in Nat /\ (thread' = "timeout" => wake' = 0)
  BY <1>2 DEF Spaced
<1>4. ASSUME thread' = "computing"  PROVE wake' \in 1..Delay[runningTask]
  <2>1. wake \in 1..Delay[runningTask] /\ wake # 1
    BY <1>2, <1>4 DEF Spaced
  <2>2. runningTask \in Job
    BY <1>2, <1>4 DEF IInv, Types, Awake
  <2> QED  BY <1>2, <2>1, <2>2, Timing
<1>5. ASSUME NEW d \in latencyQueue'
      PROVE  /\ d.time \in 0..slack(d.job)
             /\ d.job = runningTask =>
                  d.time + Delay[runningTask] - wake' <= slack(runningTask)
  <2>1. PICK e \in latencyQueue : d = older(e)
    BY <1>1
  <2>2. /\ d.job = e.job /\ d.time = e.time - 1 /\ e.time > 0
        /\ e.job \in Job /\ e.time \in 0..slack(e.job)
    BY <1>1, <2>1 DEF older, Spaced, IInv, Types
  <2>3. d.time \in 0..slack(d.job)
    BY <2>2, Timing
  <2>4. ASSUME d.job = runningTask
        PROVE  d.time + Delay[runningTask] - wake' <= slack(runningTask)
    <3>1. e.time + Delay[runningTask] - wake <= slack(runningTask)
      BY <2>2, <2>4 DEF Spaced
    <3>2. thread = "computing"
      BY <1>2, <2>2, <2>4, NotNull DEF IInv, Awake
    <3>3. wake' = wake - 1 /\ wake \in Nat
      BY <1>2, <3>2 DEF Spaced
    <3> QED  BY <2>2, <2>4, <3>1, <3>3, Timing
  <2> QED  BY <2>3, <2>4
<1> QED  BY <1>1, <1>2, <1>3, <1>4, <1>5 DEF Spaced

\* The entry of the task whose DII ends is not in latencyQueue yet.
LEMMA SpacedTimeout ==
  ASSUME IInv, Spaced, Timeout
  PROVE  /\ Spaced'
         /\ [job |-> runningTask, time |-> slack(runningTask)] \notin latencyQueue
<1> DEFINE j == runningTask
           n == [job |-> j, time |-> slack(j)]
<1>1. /\ thread = "timeout" /\ thread' = "loop" /\ runningTask' = NoTask
      /\ wake' = wake /\ firstDelta' = firstDelta
      /\ latencyQueue' = IF Latency[j] = Delay[j] THEN latencyQueue ELSE latencyQueue \cup {n}
  BY DEF Timeout, finishDii, slack
<1>2. j \in Job /\ wake = 0
  BY <1>1 DEF IInv, Types, Awake, Spaced
<1>3. n.job = j /\ n.time = slack(j) /\ slack(j) \in Nat
      /\ (Latency[j] # Delay[j] => slack(j) > 0)
  BY <1>2, Timing
<1>4. n \notin latencyQueue
  <2>1. \A e \in latencyQueue : e.job = j => e.time + Delay[j] - 0 <= slack(j)
    BY <1>2 DEF Spaced
  <2> QED  BY <1>2, <1>3, <2>1, Timing
<1>5. IsFiniteSet(latencyQueue')
  BY <1>1, FS_AddElement DEF Spaced
<1>6. ASSUME NEW e \in latencyQueue'
      PROVE  /\ e.time \in 0..slack(e.job) /\ e.job # NoTask
             /\ ~firstDelta => e.time > 0
  <2>1. CASE e \in latencyQueue
    BY <2>1, NotNull DEF Spaced, IInv, Types
  <2>2. CASE e = n /\ Latency[j] # Delay[j]
    BY <1>2, <1>3, <2>2, NotNull
  <2> HIDE DEF n
  <2> QED  BY <1>1, <1>6, <2>1, <2>2
<1> QED  BY <1>1, <1>2, <1>4, <1>5, <1>6 DEF Spaced

\* Another DII of the task begins when no output of it has more time left than
\* its latency leaves after a DII.
LEMMA SpacedDispatch ==
  ASSUME IInv, Spaced, Dispatch
  PROVE  Spaced'
<1>1. /\ thread' = "computing" /\ wake' = Delay[runningTask']
      /\ UNCHANGED <<latencyQueue, firstDelta>>
  BY DEF Dispatch
<1>2. runningTask' \in Job
  <2>1. Types' /\ Awake'
    BY DispatchStep DEF IInv
  <2> QED  BY <1>1, <2>1 DEF Types, Awake
<1>3. wake' \in Nat /\ wake' \in 1..Delay[runningTask']
  BY <1>1, <1>2, Timing
<1>4. ASSUME NEW e \in latencyQueue, e.job = runningTask'
      PROVE  e.time + Delay[runningTask'] - wake' <= slack(runningTask')
  <2>1. e.time \in 0..slack(e.job)
    BY DEF Spaced
  <2> QED  BY <1>1, <1>2, <1>4, <2>1, Timing
<1> QED  BY <1>1, <1>3, <1>4 DEF Spaced

\* Every step keeps the outputs apart.
LEMMA SpacedStep ==
  ASSUME IInv, Spaced, [Next]_vars
  PROVE  Spaced'
<1>1. CASE AdvanceTime
  BY <1>1, SpacedAdvance
<1>2. CASE Timeout
  BY <1>2, SpacedTimeout
<1>3. CASE Dispatch
  BY <1>3, SpacedDispatch
<1>4. ASSUME NEW e \in latencyQueue, LatencyExpires(e)  PROVE Spaced'
  <2>1. /\ latencyQueue' = latencyQueue \ {e}
        /\ UNCHANGED <<wake, firstDelta, thread, runningTask>>
    BY <1>4 DEF LatencyExpires, scheduler
  <2>2. IsFiniteSet(latencyQueue')
    BY <2>1, FS_RemoveElement DEF Spaced
  <2> QED  BY <2>1, <2>2 DEF Spaced
<1>5. CASE DeltaCycle
  <2>1. /\ firstDelta => \A e \in latencyQueue : e.time > 0
        /\ firstDelta' = FALSE
        /\ UNCHANGED <<wake, latencyQueue, runningTask>>
        /\ thread' \in {thread, "woken"}
    BY <1>5 DEF DeltaCycle, Quiet
  <2> QED  BY <2>1 DEF Spaced
<1>6. CASE ThreadRuns \/ Sleep
  <2>1. /\ UNCHANGED <<wake, latencyQueue, runningTask, firstDelta>>
        /\ thread' \in {"loop", "sleep"}
    BY <1>6 DEF ThreadRuns, Sleep
  <2> QED  BY <2>1 DEF Spaced
<1>7. ASSUME \/ \E t \in Task : Arrival(t) \/ InputArrived(t) \/ ReleaseTask(t)
             \/ \E m \in Msg : MessageArrival(m)
             \/ ScheduleAfterTransition
             \/ \E i, k \in DOMAIN priorities : SetDynamicPriority(i, k)
             \/ ReleaseDone
             \/ LateNotification
             \/ UNCHANGED vars
      PROVE  Spaced'
  <2>1. UNCHANGED <<latencyQueue, wake, thread, runningTask, firstDelta>>
    BY <1>7 DEF Arrival, InputArrived, ReleaseTask, MessageArrival, ScheduleAfterTransition,
       SetDynamicPriority, ReleaseDone, LateNotification, vars, scheduler
  <2> QED  BY <2>1 DEF Spaced
<1> QED
  BY <1>1, <1>2, <1>3, <1>4, <1>5, <1>6, <1>7 DEF Next, Release, Latencies, Thread

\* The outputs are apart in every reachable state.
LEMMA SpacedAlways == Spec => [](IInv /\ Spaced)
<1>1. Init => Spaced
  BY FS_EmptySet DEF Init, Spaced
<1>2. IInv /\ Spaced /\ [Next]_vars => IInv' /\ Spaced'
  BY Step, SpacedStep
<1> QED  BY Initially, <1>1, <1>2, PTL DEF Spec

-----------------------------------------------------------------------------
(* Counting outputs *)

\* The places of a list where v is.
places(s, v) == {i \in 1..Len(s) : s[i] = v}

\* They are finitely many.
LEMMA Places ==
  ASSUME NEW s \in Seq(Job), NEW v
  PROVE  IsFiniteSet(places(s, v)) /\ Cardinality(places(s, v)) \in Nat
<1>1. Len(s) \in Int /\ 1 \in Int
  BY LenProperties
<1>2. IsFiniteSet(1..Len(s))
  BY <1>1, FS_Interval
<1>3. places(s, v) \in SUBSET (1..Len(s))
  BY DEF places
<1> QED  BY <1>2, <1>3, FS_Subset, FS_CardinalityType

\* Append adds a place for what it appends, ...
LEMMA PlacesAppend ==
  ASSUME NEW s \in Seq(Job), NEW j \in Job, NEW v
  PROVE  Cardinality(places(Append(s, j), v)) =
           Cardinality(places(s, v)) + (IF v = j THEN 1 ELSE 0)
<1> DEFINE a == Append(s, j)
<1>1. /\ Len(a) = Len(s) + 1 /\ Len(s) \in Nat
      /\ \A i \in 1..Len(s) : a[i] = s[i]
      /\ a[Len(s) + 1] = j
  BY AppendProperties, LenProperties
<1> HIDE DEF a
<1>2. places(a, v) = IF v = j THEN places(s, v) \cup {Len(s) + 1} ELSE places(s, v)
  BY <1>1 DEF places
<1>3. Len(s) + 1 \notin places(s, v)
  BY <1>1 DEF places
<1>4. Cardinality(places(s, v) \cup {Len(s) + 1}) = Cardinality(places(s, v)) + 1
  BY <1>3, Places, FS_AddElement
<1>5. Cardinality(places(s, v)) \in Nat
  BY Places
<1> QED  BY <1>2, <1>4, <1>5 DEF a

\* ... and RemoveAt takes one away of what it removes.
LEMMA PlacesRemoveAt ==
  ASSUME NEW s \in Seq(Job), NEW i \in 1..Len(s), NEW v
  PROVE  Cardinality(places(RemoveAt(s, i), v)) =
           Cardinality(places(s, v)) - (IF v = s[i] THEN 1 ELSE 0)
<1> DEFINE r == RemoveAt(s, i)
           S == places(r, v)
           T == places(s, v) \ {i}
           f == [k \in S |-> old(k, i)]
<1>1. /\ Len(s) \in Nat /\ r \in Seq(Job) /\ Len(r) = Len(s) - 1
      /\ \A k \in 1..Len(s)-1 : r[k] = s[old(k, i)]
  BY MovedUp, LenProperties
<1> HIDE DEF r
<1>2. ASSUME NEW k \in S  PROVE old(k, i) \in T
  BY <1>1, SMTT(30) DEF places, old
<1>3. ASSUME NEW k \in S, NEW m \in S, old(k, i) = old(m, i)  PROVE k = m
  BY <1>1, <1>3 DEF places, old
<1>4. ASSUME NEW m \in T  PROVE \E k \in S : old(k, i) = m
  <2>1. m \in 1..Len(s) /\ m # i /\ s[m] = v
    BY DEF places
  <2>2. CASE m < i
    <3>1. m \in S /\ old(m, i) = m
      BY <1>1, <2>1, <2>2 DEF places, old
    <3> QED  BY <3>1
  <2>3. CASE m > i
    <3>1. m - 1 \in S /\ old(m - 1, i) = m
      BY <1>1, <2>1, <2>3 DEF places, old
    <3> QED  BY <3>1
  <2> QED  BY <1>1, <2>1, <2>2, <2>3
<1> HIDE DEF S, T
<1>5. f \in Bijection(S, T)
  BY <1>2, <1>3, <1>4 DEF Bijection, Injection, Surjection, IsInjective
<1>6. ExistsBijection(S, T)
  BY <1>5 DEF ExistsBijection
<1>7. IsFiniteSet(S)
  BY <1>1, Places DEF S
<1>8. Cardinality(T) = Cardinality(S)
  BY <1>6, <1>7, FS_Bijection
<1>9. /\ IsFiniteSet(places(s, v))
      /\ i \in places(s, v) <=> v = s[i]
  BY <1>1, Places DEF places
<1>10. Cardinality(T) = IF v = s[i] THEN Cardinality(places(s, v)) - 1
                                    ELSE Cardinality(places(s, v))
  BY <1>9, FS_RemoveElement DEF T
<1>11. Cardinality(places(s, v)) \in Nat
  BY Places
<1> QED  BY <1>8, <1>10, <1>11 DEF S, r

\* The outputs of t among the entries L of latencyQueue.
late(L, t) == {e \in L : e.job \in {t, Hop[t]}}

\* They are finitely many, ...
LEMMA LateFinite ==
  ASSUME NEW L, IsFiniteSet(L), NEW t
  PROVE  IsFiniteSet(late(L, t)) /\ Cardinality(late(L, t)) \in Nat
BY FS_Subset, FS_CardinalityType DEF late

\* ... one more with an entry of t or of its hop, ...
LEMMA LateAdd ==
  ASSUME NEW L, IsFiniteSet(L), NEW e, e \notin L, NEW t
  PROVE  Cardinality(late(L \cup {e}, t)) =
           Cardinality(late(L, t)) + (IF e.job \in {t, Hop[t]} THEN 1 ELSE 0)
<1>1. late(L \cup {e}, t) = IF e.job \in {t, Hop[t]} THEN late(L, t) \cup {e} ELSE late(L, t)
  BY DEF late
<1>2. e \notin late(L, t)
  BY DEF late
<1>3. Cardinality(late(L, t) \cup {e}) = Cardinality(late(L, t)) + 1
  BY <1>2, LateFinite, FS_AddElement
<1>4. Cardinality(late(L, t)) \in Nat
  BY LateFinite
<1> QED  BY <1>1, <1>3, <1>4

\* ... one less without it, ...
LEMMA LateRemove ==
  ASSUME NEW L, IsFiniteSet(L), NEW e \in L, NEW t
  PROVE  Cardinality(late(L \ {e}, t)) =
           Cardinality(late(L, t)) - (IF e.job \in {t, Hop[t]} THEN 1 ELSE 0)
<1>1. late(L \ {e}, t) = late(L, t) \ {e}
  BY DEF late
<1>2. e \in late(L, t) <=> e.job \in {t, Hop[t]}
  BY DEF late
<1>3. Cardinality(late(L, t) \ {e}) =
        IF e.job \in {t, Hop[t]} THEN Cardinality(late(L, t)) - 1 ELSE Cardinality(late(L, t))
  BY <1>2, LateFinite, FS_RemoveElement
<1>4. Cardinality(late(L, t)) \in Nat
  BY LateFinite
<1> QED  BY <1>1, <1>3, <1>4

\* ... and as many when time has passed.
LEMMA LateOlder ==
  ASSUME NEW L \in SUBSET [job : Job, time : Int], IsFiniteSet(L), NEW t
  PROVE  Cardinality(late({older(e) : e \in L}, t)) = Cardinality(late(L, t))
<1>1. late({older(e) : e \in L}, t) = {older(e) : e \in late(L, t)}
  BY DEF late, older
<1>2. late(L, t) \in SUBSET [job : Job, time : Int]
  BY DEF late
<1> QED  BY <1>1, <1>2, LateFinite, OlderCount

\* The outputs of t, counted in the parts of a state they are in.
one(b) == IF b THEN 1 ELSE 0

counted(L, s, reading, running, t) ==
  Cardinality(late(L, t)) + Cardinality(places(s, Hop[t])) + one(reading) + one(running)

\* The hop of t is being assigned.
hopRuns(running, t) == running # NoTask /\ running = Hop[t]

\* That is what outputs(t) counts.
LEMMA OutputsCounted ==
  /\ Types => \A t \in Task : outputs(t) =
       counted(latencyQueue, readyTasks, fired(t), hopRuns(runningTask, t), t)
  /\ Types' => \A t \in Task : outputs(t)' =
       counted(latencyQueue', readyTasks', fired(t)', hopRuns(runningTask', t), t)
<1>1. ASSUME NEW s \in Seq(Job)  PROVE DOMAIN s = 1..Len(s)
  BY LenProperties
<1> QED  BY <1>1 DEF Types, outputs, counted, hopRuns, one, late, places

\* What every state and every step of the component satisfies.
Good == IInv /\ Spaced

\* The counts are natural numbers; a firing has an output to come.
LEMMA CountsNat ==
  ASSUME Good, NEW t \in Task
  PROVE  /\ Cardinality(late(latencyQueue, t)) \in Nat
         /\ Cardinality(places(readyTasks, Hop[t])) \in Nat
         /\ outputs(t) \in Nat /\ (fired(t) => outputs(t) > 0)
<1>1. /\ Cardinality(late(latencyQueue, t)) \in Nat
      /\ Cardinality(places(readyTasks, Hop[t])) \in Nat
  BY LateFinite, Places DEF Good, IInv, Types, Spaced
<1>2. outputs(t) = counted(latencyQueue, readyTasks, fired(t), hopRuns(runningTask, t), t)
  BY OutputsCounted DEF Good, IInv
<1> QED  BY <1>1, <1>2 DEF counted, one

\* The same of the next state.
LEMMA CountsNatNext ==
  ASSUME Good', NEW t \in Task
  PROVE  /\ Cardinality(late(latencyQueue', t)) \in Nat
         /\ Cardinality(places(readyTasks', Hop[t])) \in Nat
         /\ outputs(t)' \in Nat
<1>1. /\ Cardinality(late(latencyQueue', t)) \in Nat
      /\ Cardinality(places(readyTasks', Hop[t])) \in Nat
  BY LateFinite, Places DEF Good, IInv, Types, Spaced
<1>2. outputs(t)' =
        counted(latencyQueue', readyTasks', fired(t)', hopRuns(runningTask', t), t)
  BY OutputsCounted DEF Good, IInv
<1> QED  BY <1>1, <1>2 DEF counted, one

-----------------------------------------------------------------------------
(* How the steps look to the application *)

sameFirings == \A t \in Task : fired(t)' <=> fired(t)
sameOutputs == \A t \in Task : outputs(t)' = outputs(t)

\* Nothing has happened.
LEMMA Unnoticed ==
  ASSUME UNCHANGED <<tokens, used>>, sameFirings, sameOutputs
  PROVE  UNCHANGED AbstractDataflow!vars
BY DEF sameFirings, sameOutputs, AbstractDataflow!vars

\* Announced tasks are queued, so announcing starts and ends no firing.
LEMMA GrownFirings ==
  ASSUME NEW q, NEW r, NEW tk, NEW us, grown(q, r, tk, us), NEW t \in Task
  PROVE  (t \in r.active /\ r.due[t] = Absent) <=> (t \in q.active /\ q.due[t] = Absent)
BY DEF grown

\* The same of the state after an announcement.
LEMMA AnnouncedFirings ==
  ASSUME Types, NEW q, NEW tk, NEW us, grown(theQueue, q, tk, us),
         activeTasks' = q.active, due' = q.due
  PROVE  sameFirings
BY TheQueue, GrownFirings DEF sameFirings, fired

\* Outputs are where they were if the lists and the firings are.
LEMMA SameOutputs ==
  ASSUME Good, Good', sameFirings,
         \A t \in Task :
           /\ Cardinality(late(latencyQueue', t)) = Cardinality(late(latencyQueue, t))
           /\ Cardinality(places(readyTasks', Hop[t])) + one(hopRuns(runningTask', t))
                = Cardinality(places(readyTasks, Hop[t])) + one(hopRuns(runningTask, t))
  PROVE  sameOutputs
<1> SUFFICES ASSUME NEW t \in Task  PROVE outputs(t)' = outputs(t)
  BY DEF sameOutputs
<1>1. /\ outputs(t) = counted(latencyQueue, readyTasks, fired(t), hopRuns(runningTask, t), t)
      /\ outputs(t)' =
           counted(latencyQueue', readyTasks', fired(t)', hopRuns(runningTask', t), t)
  BY OutputsCounted DEF Good, IInv
<1>2. one(fired(t)') = one(fired(t)) /\ one(fired(t)) \in Nat
  BY DEF sameFirings, one
<1>3. one(hopRuns(runningTask, t)) \in Nat /\ one(hopRuns(runningTask', t)) \in Nat
  BY DEF one
<1> QED  BY <1>1, <1>2, <1>3, CountsNat, CountsNatNext DEF counted

\* A token from outside arrives.
LEMMA ArrivalArrives ==
  ASSUME Good, Good', NEW t \in Task, Arrival(t)
  PROVE  AbstractDataflow!Arrive(t)
<1> DEFINE q == announce(theQueue, t, tokens', used')
<1>1. /\ t \in Sources \cap Task /\ used[t] < Capacity
      /\ tokens' = [tokens EXCEPT ![t] = @ + 1] /\ used' = [used EXCEPT ![t] = @ + 1]
      /\ activeTasks' = q.active /\ due' = q.due
      /\ UNCHANGED <<readyTasks, runningTask, latencyQueue>>
  BY DEF Arrival, setQueue
<1>2. grown(theQueue, q, tokens', used')
  BY TheQueue, AnnounceGrows DEF Good, IInv, Types
<1>3. sameFirings
  BY <1>1, <1>2, AnnouncedFirings DEF Good, IInv
<1>4. sameOutputs
  BY <1>1, <1>3, SameOutputs
<1> QED
  BY <1>1, <1>3, <1>4 DEF AbstractDataflow!Arrive, sameFirings, sameOutputs

\* A job of no actor's output that becomes ready goes unnoticed.
LEMMA ReadyUnnoticed ==
  ASSUME Good, Good',
         \/ \E m \in Msg : MessageArrival(m)
         \/ \E t \in Task : InputArrived(t)
  PROVE  UNCHANGED AbstractDataflow!vars
<1>1. UNCHANGED <<tokens, used, activeTasks, due, runningTask, latencyQueue>>
  BY DEF MessageArrival, InputArrived, actors, queue
<1>2. \/ UNCHANGED readyTasks
      \/ \E j \in Job : /\ readyTasks' = Append(readyTasks, j)
                        /\ j \in Task \cup (Sources \cap Msg)
  BY DEF MessageArrival, InputArrived, addTask, Job
<1>3. ASSUME NEW t \in Task, NEW j \in Task \cup (Sources \cap Msg)  PROVE Hop[t] # j
  BY ConstantsAssumption DEF Job
<1>4. ASSUME NEW t \in Task
      PROVE  Cardinality(places(readyTasks', Hop[t])) = Cardinality(places(readyTasks, Hop[t]))
  <2>1. ASSUME NEW j \in Job, readyTasks' = Append(readyTasks, j),
               j \in Task \cup (Sources \cap Msg)
        PROVE  Cardinality(places(readyTasks', Hop[t])) =
                 Cardinality(places(readyTasks, Hop[t]))
    <3>1. Cardinality(places(readyTasks', Hop[t])) =
            Cardinality(places(readyTasks, Hop[t])) + (IF Hop[t] = j THEN 1 ELSE 0)
      BY <2>1, PlacesAppend DEF Good, IInv, Types
    <3> QED  BY <1>3, <2>1, <3>1, CountsNat
  <2> QED  BY <1>2, <2>1
<1>5. sameFirings
  BY <1>1 DEF sameFirings, fired
<1>6. sameOutputs
  BY <1>1, <1>4, <1>5, SameOutputs
<1> QED  BY <1>1, <1>5, <1>6, Unnoticed

\* A released actor fires.
LEMMA ReleaseFires ==
  ASSUME Good, Good', NEW t \in Task, ReleaseTask(t)
  PROVE  AbstractDataflow!Fire(t)
<1>1. /\ due[t] = 0 /\ due' = [due EXCEPT ![t] = Absent]
      /\ tokens' = IF t \in Periodic THEN tokens ELSE [tokens EXCEPT ![t] = @ - 1]
      /\ used' = IF Succ[t] = NoTask THEN used ELSE [used EXCEPT ![Succ[t]] = @ + 1]
      /\ readyTasks' = IF Remote[t] = 0 THEN Append(readyTasks, t) ELSE readyTasks
      /\ UNCHANGED <<activeTasks, runningTask, latencyQueue>>
  BY DEF ReleaseTask, executeFiringRule, addTask
<1>2. due[t] # Absent
  BY <1>1 DEF Absent
<1>3. t \in activeTasks /\ enabled(t, tokens, used)
  BY <1>2 DEF Good, IInv, Accounted, located, ReleasedTasksCanFire
<1>4. ~fired(t) /\ fired(t)' /\ \A u \in Task : u # t => (fired(u)' <=> fired(u))
  BY <1>1, <1>2, <1>3 DEF fired, Good, IInv, Types
<1>5. ASSUME NEW u \in Task
      PROVE  Cardinality(places(readyTasks', Hop[u])) = Cardinality(places(readyTasks, Hop[u]))
  <2>1. Hop[u] # t /\ t \in Job
    BY ConstantsAssumption DEF Job
  <2>2. Cardinality(places(Append(readyTasks, t), Hop[u])) =
          Cardinality(places(readyTasks, Hop[u])) + (IF Hop[u] = t THEN 1 ELSE 0)
    BY <2>1, PlacesAppend DEF Good, IInv, Types
  <2> QED  BY <1>1, <2>1, <2>2, CountsNat
<1>6. ASSUME NEW u \in Task
      PROVE  outputs(u)' = IF u = t THEN outputs(u) + 1 ELSE outputs(u)
  <2>1. /\ outputs(u) = counted(latencyQueue, readyTasks, fired(u), hopRuns(runningTask, u), u)
        /\ outputs(u)' =
             counted(latencyQueue', readyTasks', fired(u)', hopRuns(runningTask', u), u)
    BY OutputsCounted DEF Good, IInv
  <2>2. one(hopRuns(runningTask, u)) \in Nat
    BY DEF one
  <2>3. one(fired(u)') = IF u = t THEN one(fired(u)) + 1 ELSE one(fired(u))
    BY <1>4 DEF one
  <2>4. one(fired(u)) \in Nat
    BY DEF one
  <2> QED  BY <1>1, <1>5, <2>1, <2>2, <2>3, <2>4, CountsNat DEF counted
<1>7. {u \in Task : fired(u)}' = {u \in Task : fired(u)} \cup {t}
  BY <1>4
<1>8. [u \in Task |-> outputs(u)]' =
        [[u \in Task |-> outputs(u)] EXCEPT ![t] = @ + 1]
  BY <1>6
<1> QED
  BY <1>1, <1>3, <1>4, <1>7, <1>8 DEF AbstractDataflow!Fire, enabled

\* The selected job is still counted: as the one that runs.
LEMMA DispatchUnnoticed ==
  ASSUME Good, Good', Dispatch
  PROVE  UNCHANGED AbstractDataflow!vars
<1>1. PICK i \in selectable : /\ runningTask' = readyTasks[i]
                              /\ readyTasks' = RemoveAt(readyTasks, i)
  BY DEF Dispatch
<1>2. /\ thread = "loop" /\ readyTasks # <<>>
      /\ UNCHANGED <<tokens, used, activeTasks, due, latencyQueue>>
  BY DEF Dispatch, actors, queue
<1>3. i \in 1..Len(readyTasks)
  BY <1>2, Selectable DEF Good, IInv
<1>4. runningTask = NoTask /\ readyTasks[i] \in Job /\ readyTasks[i] # NoTask
  BY <1>2, <1>3, ElementOfSeq, NotNull DEF Good, IInv, Types, Awake
<1>5. ASSUME NEW t \in Task
      PROVE  Cardinality(places(readyTasks', Hop[t])) + one(hopRuns(runningTask', t))
               = Cardinality(places(readyTasks, Hop[t])) + one(hopRuns(runningTask, t))
  <2>1. Cardinality(places(readyTasks', Hop[t])) =
          Cardinality(places(readyTasks, Hop[t])) - (IF Hop[t] = readyTasks[i] THEN 1 ELSE 0)
    BY <1>1, <1>3, PlacesRemoveAt DEF Good, IInv, Types
  <2>2. one(hopRuns(runningTask', t)) = IF Hop[t] = readyTasks[i] THEN 1 ELSE 0
    BY <1>1, <1>4 DEF hopRuns, one
  <2>3. one(hopRuns(runningTask, t)) = 0
    BY <1>4 DEF hopRuns, one
  <2> QED  BY <2>1, <2>2, <2>3, CountsNat
<1>6. sameFirings
  BY <1>2 DEF sameFirings, fired
<1>7. sameOutputs
  BY <1>2, <1>5, <1>6, SameOutputs
<1> QED  BY <1>2, <1>6, <1>7, Unnoticed

\* Time passes unnoticed.
LEMMA AdvanceUnnoticed ==
  ASSUME Good, Good', AdvanceTime
  PROVE  UNCHANGED AbstractDataflow!vars
<1>1. UNCHANGED <<tokens, used, activeTasks, readyTasks, runningTask>>
  BY DEF AdvanceTime
<1>2. due' = [t \in Task |-> IF due[t] = 0 THEN Late ELSE IF due[t] > 0 THEN due[t] - 1 ELSE due[t]]
  BY DEF AdvanceTime
<1>3. \A t \in Task : due'[t] = Absent <=> due[t] = Absent
  BY <1>2 DEF Good, IInv, Types, Absent, Late
<1>4. sameFirings
  BY <1>1, <1>3 DEF sameFirings, fired
<1>5. ASSUME NEW t \in Task
      PROVE  Cardinality(late(latencyQueue', t)) = Cardinality(late(latencyQueue, t))
  <2>1. latencyQueue' = {older(e) : e \in latencyQueue}
    BY Aged DEF Good
  <2> QED  BY <2>1, LateOlder DEF Good, IInv, Types, Spaced
<1>6. sameOutputs
  BY <1>1, <1>4, <1>5, SameOutputs
<1> QED  BY <1>1, <1>4, <1>6, Unnoticed

\* So do the steps that touch neither the channels nor the lists.
LEMMA OtherUnnoticed ==
  ASSUME Good, Good',
         \/ ThreadRuns \/ Sleep \/ DeltaCycle \/ LateNotification
         \/ ScheduleAfterTransition
         \/ \E i, k \in DOMAIN priorities : SetDynamicPriority(i, k)
         \/ ReleaseDone
         \/ UNCHANGED vars
  PROVE  UNCHANGED AbstractDataflow!vars
<1>1. UNCHANGED <<tokens, used, activeTasks, due, readyTasks, runningTask, latencyQueue>>
  BY DEF ThreadRuns, Sleep, DeltaCycle, LateNotification, ScheduleAfterTransition,
     SetDynamicPriority, ReleaseDone, vars, actors, queue, scheduler
<1>2. sameFirings
  BY <1>1 DEF sameFirings, fired
<1>3. sameOutputs
  BY <1>1, <1>2, SameOutputs
<1> QED  BY <1>1, <1>2, <1>3, Unnoticed

\* Job j is an actor, or the hop of one, whose output it carries.
carries(j, t) == j \in {t, Hop[t]}

\* A job carries the output of one actor, to the reader of it, or it is a hop of
\* a route between other components; only an actor's output can have a hop to take.
LEMMA Carried ==
  ASSUME NEW j \in Job
  PROVE  /\ j \in Task => \A t \in Task : carries(j, t) <=> t = j
         /\ hops(j) => delivered(j) = NoTask
         /\ ~hops(j) =>
              \/ \E t \in Task : /\ delivered(j) = Succ[t]
                                 /\ \A u \in Task : carries(j, u) <=> u = t
              \/ j \notin Task /\ delivered(j) = NoTask /\ \A u \in Task : ~carries(j, u)
<1>1. \A t \in Task : Hop[t] \notin Task
  BY ConstantsAssumption DEF Job
<1>2. j \in Task => \A t \in Task : carries(j, t) <=> t = j
  BY <1>1 DEF carries
<1>3. hops(j) => delivered(j) = NoTask
  BY DEF delivered
<1>4. ASSUME ~hops(j), j \in Task
      PROVE  \E t \in Task : /\ delivered(j) = Succ[t]
                             /\ \A u \in Task : carries(j, u) <=> u = t
  <2>1. delivered(j) = Succ[j]
    BY <1>4 DEF delivered, Dest
  <2> QED  BY <1>2, <1>4, <2>1
<1>5. ASSUME j \notin Task, NEW t \in Task, Hop[t] = j
      PROVE  \E o \in Task : /\ delivered(j) = Succ[o]
                             /\ \A u \in Task : carries(j, u) <=> u = o
  <2> DEFINE o == CHOOSE u \in Task : Hop[u] = j
  <2>1. o \in Task /\ Hop[o] = j
    BY <1>5
  <2>2. delivered(j) = Succ[o]
    BY <1>5 DEF delivered, hops, Dest
  <2> HIDE DEF o
  <2>3. \A u \in Task : carries(j, u) <=> u = o
    BY <1>5, <2>1, NotNull, ConstantsAssumption DEF carries
  <2> QED  BY <2>1, <2>2, <2>3
<1>6. ASSUME j \notin Task, \A t \in Task : Hop[t] # j
      PROVE  delivered(j) = NoTask /\ \A u \in Task : ~carries(j, u)
  BY <1>6 DEF delivered, hops, Dest, carries
<1> QED  BY <1>2, <1>3, <1>4, <1>5, <1>6

\* The hop that the output of j takes is counted with the outputs of j.
LEMMA ForwardCount ==
  ASSUME Good, NEW j \in Job, forward(j), NEW t \in Task
  PROVE  Cardinality(places(readyTasks', Hop[t])) =
           Cardinality(places(readyTasks, Hop[t])) + one(hops(j) /\ t = j)
<1>1. CASE hops(j)
  <2>1. j \in Task /\ Hop[j] \in Job /\ readyTasks' = Append(readyTasks, Hop[j])
    BY <1>1, ConstantsAssumption DEF hops, forward, addTask, Job
  <2>2. Hop[t] = Hop[j] <=> t = j
    BY <2>1, NotNull, ConstantsAssumption
  <2>3. Cardinality(places(readyTasks', Hop[t])) =
          Cardinality(places(readyTasks, Hop[t])) + (IF Hop[t] = Hop[j] THEN 1 ELSE 0)
    BY <2>1, PlacesAppend DEF Good, IInv, Types
  <2> QED  BY <1>1, <2>2, <2>3 DEF one
<1>2. CASE ~hops(j)
  <2>1. readyTasks' = readyTasks
    BY <1>2 DEF forward
  <2> QED  BY <1>2, <2>1, CountsNat DEF one
<1> QED  BY <1>1, <1>2

\* The output that job j carries is no longer where it was: it has taken its hop,
\* or it has gone.
moved(j) ==
  \A t \in Task : outputs(t)' = outputs(t) - one(carries(j, t)) + one(hops(j) /\ t = j)

\* When it is at the reader then, this is a delivery; else nothing is noticed.
LEMMA MovedDelivers ==
  ASSUME Good, Good', NEW j \in Job, moved(j), tokens' = arrived(tokens, j)
  PROVE  \/ \E t \in Task : AbstractDataflow!deliver(t) /\ (j \in Task => t = j)
         \/ sameOutputs /\ UNCHANGED tokens
<1>1. \A t \in Task : outputs(t) \in Nat /\ outputs(t)' \in Nat
  BY CountsNat, CountsNatNext
<1>2. tokens \in [Task -> Int]
  BY DEF Good, IInv, Types
<1>3. delivered(j) = NoTask => tokens' = tokens
  BY <1>2, NotNull DEF arrived, Job
<1>4. CASE hops(j)
  <2>1. \A t \in Task : carries(j, t) <=> t = j
    BY <1>4, Carried DEF hops
  <2>2. \A t \in Task : outputs(t)' = outputs(t)
    BY <1>1, <1>4, <2>1 DEF moved, one
  <2> QED  BY <1>3, <1>4, <2>2, Carried DEF sameOutputs
<1>5. ASSUME ~hops(j), NEW t \in Task, delivered(j) = Succ[t],
             \A u \in Task : carries(j, u) <=> u = t
      PROVE  AbstractDataflow!deliver(t) /\ (j \in Task => t = j)
  <2>1. \A u \in Task : outputs(u)' = IF u = t THEN outputs(u) - 1 ELSE outputs(u)
    BY <1>1, <1>5 DEF moved, one
  <2>2. outputs(t) > 0
    BY <1>1, <2>1
  <2>3. tokens' = IF Succ[t] = NoTask THEN tokens ELSE [tokens EXCEPT ![Succ[t]] = @ + 1]
    BY <1>2, <1>3, <1>5 DEF arrived
  <2>4. [u \in Task |-> outputs(u)]' =
          [[u \in Task |-> outputs(u)] EXCEPT ![t] = @ - 1]
    BY <2>1
  <2>5. j \in Task => t = j
    BY <1>5 DEF carries
  <2> QED  BY <2>2, <2>3, <2>4, <2>5 DEF AbstractDataflow!deliver
<1>6. ASSUME ~hops(j), delivered(j) = NoTask, \A u \in Task : ~carries(j, u)
      PROVE  sameOutputs /\ UNCHANGED tokens
  <2>1. \A u \in Task : outputs(u)' = outputs(u)
    BY <1>1, <1>6 DEF moved, one
  <2> QED  BY <1>3, <1>6, <2>1 DEF sameOutputs
<1> QED  BY <1>4, <1>5, <1>6, Carried

\* A latency that is over delivers an output, or starts its hop.
LEMMA LatencyDelivers ==
  ASSUME Good, Good', NEW e \in latencyQueue, LatencyExpires(e)
  PROVE  (\E t \in Task : AbstractDataflow!Deliver(t)) \/ UNCHANGED AbstractDataflow!vars
<1> DEFINE j == e.job
           d == delivered(j)
           q == announce(theQueue, d, tokens', used)
<1>1. /\ latencyQueue' = latencyQueue \ {e}
      /\ forward(j) /\ tokens' = arrived(tokens, j)
      /\ activeTasks' = q.active /\ due' = q.due
      /\ UNCHANGED <<used, runningTask>>
  BY DEF LatencyExpires, setQueue
<1>2. j \in Job /\ d \in Task \cup {NoTask}
  BY Delivered DEF Good, IInv, Types
<1>3. grown(theQueue, q, tokens', used)
  BY <1>2, TheQueue, AnnounceGrows DEF Good, IInv, Types
<1> HIDE DEF d, q
<1>4. sameFirings
  BY <1>1, <1>3, AnnouncedFirings DEF Good, IInv
<1>5. ASSUME NEW t \in Task
      PROVE  outputs(t)' = outputs(t) - one(carries(j, t)) + one(hops(j) /\ t = j)
  <2>1. /\ outputs(t) = counted(latencyQueue, readyTasks, fired(t), hopRuns(runningTask, t), t)
        /\ outputs(t)' =
             counted(latencyQueue', readyTasks', fired(t)', hopRuns(runningTask', t), t)
    BY OutputsCounted DEF Good, IInv
  <2>2. Cardinality(late(latencyQueue', t)) =
          Cardinality(late(latencyQueue, t)) - one(carries(j, t))
    BY <1>1, LateRemove DEF Good, Spaced, one, carries
  <2>3. Cardinality(places(readyTasks', Hop[t])) =
          Cardinality(places(readyTasks, Hop[t])) + one(hops(j) /\ t = j)
    BY <1>1, <1>2, ForwardCount
  <2>4. one(fired(t)') = one(fired(t)) /\ one(hopRuns(runningTask', t)) = one(hopRuns(runningTask, t))
    BY <1>1, <1>4 DEF sameFirings, one
  <2>5. /\ one(fired(t)) \in Nat /\ one(hopRuns(runningTask, t)) \in Nat
        /\ one(carries(j, t)) \in Nat /\ one(hops(j) /\ t = j) \in Nat
    BY DEF one
  <2> HIDE DEF j
  <2> QED  BY <2>1, <2>2, <2>3, <2>4, <2>5, CountsNat DEF counted
<1>6. moved(j)
  BY <1>5 DEF moved
<1> HIDE DEF j
<1>7. \/ \E t \in Task : AbstractDataflow!deliver(t)
      \/ sameOutputs /\ UNCHANGED tokens
  BY <1>1, <1>2, <1>6, MovedDelivers
<1>8. {t \in Task : fired(t)}' = {t \in Task : fired(t)}
  BY <1>4 DEF sameFirings
<1> QED  BY <1>1, <1>4, <1>7, <1>8, Unnoticed DEF AbstractDataflow!Deliver

\* When a DII ends, the firing of the task ends; the firing of no other does.
LEMMA TimeoutFirings ==
  ASSUME Good, Timeout
  PROVE  /\ runningTask \in Task => fired(runningTask)
         /\ \A t \in Task : fired(t)' <=> fired(t) /\ t # runningTask
<1> DEFINE j == runningTask
           w == writer(j)
           d == delivered(j)
           q0 == theQueue
           q1 == announce(q0, w, tokens, used')
           q2 == IF Latency[j] = Delay[j] THEN announce(q1, d, tokens', used') ELSE q1
           q3 == [q2 EXCEPT !.active = @ \ {j}]
           q4 == IF j \in Task THEN announce(q3, j, tokens', used') ELSE q2
           firing(q, t) == t \in q.active /\ q.due[t] = Absent
<1>1. /\ thread = "timeout" /\ activeTasks' = q4.active /\ due' = q4.due
  BY DEF Timeout, setQueue, announced, reactivate
<1>2. j \in Job /\ w \in Task \cup {NoTask} /\ d \in Task \cup {NoTask}
      /\ release \in [Periodic -> {Late} \cup Nat]
  BY <1>1, Writer, Delivered DEF Good, IInv, Types, Awake
<1>3. isQueue(q0) /\ q0.active = activeTasks /\ q0.due = due
  BY TheQueue DEF Good, IInv
<1> HIDE DEF q0
<1>4. isQueue(q1) /\ \A t \in Task : firing(q1, t) <=> firing(q0, t)
  <2>1. grown(q0, q1, tokens, used')
    BY <1>2, <1>3, AnnounceGrows
  <2> QED  BY <2>1, GrownFirings DEF grown
<1> HIDE DEF q1, d
<1>5. isQueue(q2) /\ \A t \in Task : firing(q2, t) <=> firing(q0, t)
  <2>1. CASE Latency[j] = Delay[j]
    <3>1. grown(q1, q2, tokens', used')
      BY <1>2, <1>4, <2>1, AnnounceGrows
    <3> QED  BY <1>4, <3>1, GrownFirings DEF grown
  <2>2. CASE Latency[j] # Delay[j]
    BY <1>4, <2>2
  <2> QED  BY <2>1, <2>2
<1> HIDE DEF q2
<1>6. isQueue(q3) /\ q3.active = q2.active \ {j} /\ q3.due = q2.due
  BY <1>5, Erased
<1> HIDE DEF q3
<1>7. CASE j \in Task
  <2>1. grown(q3, q4, tokens', used')
    BY <1>2, <1>6, <1>7, AnnounceGrows
  <2> HIDE DEF q4
  <2>2. \A t \in Task : firing(q4, t) <=> firing(q3, t)
    BY <2>1, GrownFirings
  <2>3. \A t \in Task : firing(q4, t) <=> firing(q0, t) /\ t # j
    BY <1>5, <1>6, <2>2
  <2>4. firing(q0, j)
    BY <1>3, <1>7 DEF Good, IInv, Accounted, located
  <2> QED  BY <1>1, <1>3, <1>7, <2>3, <2>4 DEF fired
<1>8. CASE j \notin Task
  BY <1>1, <1>3, <1>5, <1>8 DEF fired
<1> QED  BY <1>7, <1>8

\* Where the output of the task is counted then.
LEMMA TimeoutOutputs ==
  ASSUME Good, Good', Timeout
  PROVE  IF Latency[runningTask] = Delay[runningTask] THEN moved(runningTask) ELSE sameOutputs
<1> DEFINE j == runningTask
           n == [job |-> j, time |-> slack(j)]
<1>1. /\ thread = "timeout" /\ runningTask' = NoTask
      /\ Latency[j] = Delay[j] => forward(j) /\ latencyQueue' = latencyQueue
      /\ Latency[j] # Delay[j] => readyTasks' = readyTasks /\ latencyQueue' = latencyQueue \cup {n}
  BY DEF Timeout, finishDii, slack
<1>2. j \in Job /\ j # NoTask
  BY <1>1 DEF Good, IInv, Types, Awake
<1>3. n \notin latencyQueue
  BY SpacedTimeout DEF Good
<1>4. ASSUME NEW t \in Task
      PROVE  one(fired(t)') + one(hopRuns(runningTask', t))
               = one(fired(t)) + one(hopRuns(runningTask, t)) - one(carries(j, t))
  <2>1. ~hopRuns(runningTask', t) /\ (hopRuns(runningTask, t) <=> Hop[t] = j)
    BY <1>1, <1>2 DEF hopRuns
  <2>2. Hop[t] \notin Task
    BY ConstantsAssumption DEF Job
  <2>3. CASE t = j
    BY <2>1, <2>2, <2>3, TimeoutFirings DEF one, carries
  <2>4. CASE t # j
    BY <2>1, <2>4, TimeoutFirings DEF one, carries
  <2> QED  BY <2>3, <2>4
<1>5. ASSUME NEW t \in Task
      PROVE  /\ outputs(t) = counted(latencyQueue, readyTasks, fired(t), hopRuns(runningTask, t), t)
             /\ outputs(t)' =
                  counted(latencyQueue', readyTasks', fired(t)', hopRuns(runningTask', t), t)
             /\ one(fired(t)) \in Nat /\ one(hopRuns(runningTask, t)) \in Nat
             /\ one(fired(t)') \in Nat /\ one(hopRuns(runningTask', t)) \in Nat
             /\ one(carries(j, t)) \in Nat /\ one(hops(j) /\ t = j) \in Nat
             /\ Cardinality(late(latencyQueue, t)) \in Nat
             /\ Cardinality(places(readyTasks, Hop[t])) \in Nat
  BY OutputsCounted, CountsNat DEF Good, IInv, one
<1>6. ASSUME Latency[j] = Delay[j], NEW t \in Task
      PROVE  outputs(t)' = outputs(t) - one(carries(j, t)) + one(hops(j) /\ t = j)
  <2>1. Cardinality(places(readyTasks', Hop[t])) =
          Cardinality(places(readyTasks, Hop[t])) + one(hops(j) /\ t = j)
    BY <1>1, <1>2, <1>6, ForwardCount
  <2>2. latencyQueue' = latencyQueue
    BY <1>1, <1>6
  <2> HIDE DEF j
  <2> QED  BY <1>4, <1>5, <2>1, <2>2 DEF counted
<1>7. ASSUME Latency[j] # Delay[j], NEW t \in Task
      PROVE  outputs(t)' = outputs(t)
  <2>1. Cardinality(late(latencyQueue', t)) =
          Cardinality(late(latencyQueue, t)) + one(carries(j, t))
    BY <1>1, <1>3, <1>7, LateAdd DEF Good, Spaced, one, carries
  <2>2. readyTasks' = readyTasks
    BY <1>1, <1>7
  <2> HIDE DEF j
  <2> QED  BY <1>4, <1>5, <2>1, <2>2 DEF counted
<1> QED  BY <1>6, <1>7 DEF moved, sameOutputs

\* The end of a DII ends a firing, delivers an output, or both.
LEMMA TimeoutEnds ==
  ASSUME Good, Good', Timeout
  PROVE  \/ \E t \in Task : \/ AbstractDataflow!End(t)
                            \/ AbstractDataflow!Deliver(t)
                            \/ AbstractDataflow!EndAndDeliver(t)
         \/ UNCHANGED AbstractDataflow!vars
<1> DEFINE j == runningTask
<1>1. /\ thread = "timeout" /\ used' = freed(j)
      /\ Latency[j] = Delay[j] => tokens' = arrived(tokens, j)
      /\ Latency[j] # Delay[j] => tokens' = tokens
  BY DEF Timeout, finishDii
<1>2. j \in Job /\ used \in [Task -> Int]
  BY <1>1 DEF Good, IInv, Types, Awake
<1>3. \/ \E t \in Task : AbstractDataflow!deliver(t) /\ (j \in Task => t = j)
      \/ sameOutputs /\ UNCHANGED tokens
  <2>1. CASE Latency[j] = Delay[j]
    <3>1. moved(j)
      BY <2>1, TimeoutOutputs
    <3> HIDE DEF j
    <3> QED  BY <1>1, <1>2, <2>1, <3>1, MovedDelivers
  <2>2. CASE Latency[j] # Delay[j]
    BY <1>1, <2>2, TimeoutOutputs
  <2> QED  BY <2>1, <2>2
<1>4. CASE j \in Task
  <2>1. {t \in Task : fired(t)}' = {t \in Task : fired(t)} \ {j} /\ fired(j)
    BY <1>4, TimeoutFirings
  <2>2. used' = IF j \in Periodic THEN used ELSE [used EXCEPT ![j] = @ - 1]
    BY <1>1, <1>2, <1>4 DEF freed
  <2>3. AbstractDataflow!end(j)
    BY <1>4, <2>1, <2>2 DEF AbstractDataflow!end
  <2> HIDE DEF j
  <2>4. sameOutputs /\ UNCHANGED tokens => AbstractDataflow!End(j)
    BY <2>3 DEF AbstractDataflow!End, sameOutputs
  <2> QED  BY <1>3, <1>4, <2>3, <2>4 DEF AbstractDataflow!EndAndDeliver
<1>5. CASE j \notin Task
  <2>1. sameFirings
    BY <1>5, TimeoutFirings DEF sameFirings
  <2>2. used' = used
    BY <1>1, <1>2, <1>5 DEF freed
  <2>3. {t \in Task : fired(t)}' = {t \in Task : fired(t)}
    BY <2>1 DEF sameFirings
  <2> QED  BY <1>3, <2>1, <2>2, <2>3, Unnoticed DEF AbstractDataflow!Deliver
<1> QED  BY <1>4, <1>5

-----------------------------------------------------------------------------
(* The refinement *)

\* Every step is one of the dataflow graph, or goes unnoticed.
LEMMA DataflowStep ==
  ASSUME Good, Good', [Next]_vars
  PROVE  [AbstractDataflow!Next]_AbstractDataflow!vars
BY ArrivalArrives, ReadyUnnoticed, ReleaseFires, LatencyDelivers, DispatchUnnoticed,
   TimeoutEnds, AdvanceUnnoticed, OtherUnnoticed
   DEF Next, Release, Latencies, Thread, AbstractDataflow!Next

\* At the start there are no tokens, no firings and no outputs.
LEMMA DataflowInitially ==
  ASSUME Init, Good
  PROVE  AbstractDataflow!Init
<1>1. \A t \in Task : ~fired(t)
  BY ConstantsAssumption DEF Init, fired, Absent
<1>2. ASSUME NEW t \in Task  PROVE outputs(t) = 0
  <2>1. late(latencyQueue, t) = {} /\ places(readyTasks, Hop[t]) = {}
    BY DEF Init, late, places
  <2>2. Cardinality(late(latencyQueue, t)) = 0 /\ Cardinality(places(readyTasks, Hop[t])) = 0
    BY <2>1, FS_EmptySet
  <2>3. one(fired(t)) = 0 /\ one(hopRuns(runningTask, t)) = 0
    BY <1>1 DEF Init, one, hopRuns
  <2> QED  BY <2>2, <2>3, OutputsCounted DEF Good, IInv, counted
<1> QED  BY <1>1, <1>2 DEF Init, AbstractDataflow!Init

\* The component implements the dataflow graph of its actors.
THEOREM ImplementsDataflowSafely == Spec => AbstractDataflow!Spec
<1>1. Spec => []Good
  BY SpacedAlways, PTL DEF Good
<1> QED  BY <1>1, DataflowInitially, DataflowStep, PTL DEF Spec, AbstractDataflow!Spec

-----------------------------------------------------------------------------
(* Tokens.  That they are conserved is shown of the dataflow graph, whose  *)
(* steps are all that happens to channels, firings and outputs.            *)

reading(t) == IF t \in Periodic THEN 0 ELSE one(fired(t))

coming(t) == IF writer(t) = NoTask THEN 0 ELSE outputs(writer(t))

Conserved ==
  \A t \in Task : /\ used[t] = tokens[t] + reading(t) + coming(t)
                  /\ tokens[t] >= 0 /\ used[t] <= Capacity

\* The outputs of an actor come to its reader, ...
LEMMA Coming ==
  ASSUME Good, NEW t \in Task, NEW n \in Int,
         \A u \in Task : outputs(u)' = outputs(u) + (IF u = t THEN n ELSE 0)
  PROVE  \A u \in Task : coming(u)' = coming(u) + (IF u = Succ[t] THEN n ELSE 0)
<1> TAKE u \in Task
<1>1. CASE writer(u) = NoTask
  <2>1. u # Succ[t]
    BY <1>1, Writer, NotNull DEF Job
  <2> QED  BY <1>1, <2>1 DEF coming
<1>2. CASE writer(u) # NoTask
  <2>1. writer(u) \in Task /\ Succ[writer(u)] = u
    BY <1>2 DEF writer
  <2>2. u = Succ[t] <=> writer(u) = t
    BY <2>1, NotNull, ConstantsAssumption DEF Job
  <2> QED  BY <1>2, <2>1, <2>2 DEF coming
<1> QED  BY <1>1, <1>2

\* ... and to nobody else.
LEMMA SameComing ==
  ASSUME NEW t \in Task, sameOutputs
  PROVE  coming(t)' = coming(t)
<1>1. writer(t) # NoTask => writer(t) \in Task
  BY Writer
<1> QED  BY <1>1 DEF coming, sameOutputs

\* The summands are numbers.
LEMMA CountsTokens ==
  ASSUME Good, NEW t \in Task
  PROVE  reading(t) \in 0..1 /\ coming(t) \in Nat /\ tokens[t] \in Int /\ used[t] \in Int
<1>1. writer(t) # NoTask => writer(t) \in Task
  BY Writer
<1> QED  BY <1>1, CountsNat DEF reading, coming, one, Good, IInv, Types

\* A token from outside takes a place.
LEMMA ConservedArrive ==
  ASSUME Good, Conserved, NEW t \in Task, AbstractDataflow!Arrive(t)
  PROVE  Conserved'
<1>1. /\ used[t] < Capacity
      /\ tokens' = [tokens EXCEPT ![t] = @ + 1] /\ used' = [used EXCEPT ![t] = @ + 1]
      /\ {u \in Task : fired(u)}' = {u \in Task : fired(u)}
      /\ [u \in Task |-> outputs(u)]' = [u \in Task |-> outputs(u)]
  BY DEF AbstractDataflow!Arrive
<1>2. \A u \in Task : outputs(u)' = [v \in Task |-> outputs(v)]'[u]
  OBVIOUS
<1>3. sameOutputs
  BY <1>1, <1>2 DEF sameOutputs
<1>4. ASSUME NEW u \in Task  PROVE reading(u)' = reading(u) /\ coming(u)' = coming(u)
  BY <1>1, <1>3, SameComing DEF reading, one
<1>5. ASSUME NEW u \in Task
      PROVE  /\ used'[u] = IF u = t THEN used[u] + 1 ELSE used[u]
             /\ tokens'[u] = IF u = t THEN tokens[u] + 1 ELSE tokens[u]
  BY <1>1 DEF Good, IInv, Types
<1>6. ASSUME NEW u \in Task
      PROVE  /\ used'[u] = tokens'[u] + reading(u)' + coming(u)'
             /\ tokens'[u] >= 0 /\ used'[u] <= Capacity
  <2>1. /\ used[u] = tokens[u] + reading(u) + coming(u)
        /\ tokens[u] >= 0 /\ used[u] <= Capacity /\ Capacity \in Nat
    BY ConstantsAssumption DEF Conserved
  <2> QED  BY <1>1, <1>4, <1>5, <2>1, CountsTokens
<1> QED  BY <1>6 DEF Conserved

\* A firing reads a token and reserves a place.
LEMMA ConservedFire ==
  ASSUME Good, Conserved, NEW t \in Task, AbstractDataflow!Fire(t)
  PROVE  Conserved'
<1>1. /\ ~fired(t)
      /\ t \in Periodic \/ tokens[t] > 0
      /\ Succ[t] # NoTask => used[Succ[t]] < Capacity
      /\ tokens' = IF t \in Periodic THEN tokens ELSE [tokens EXCEPT ![t] = @ - 1]
      /\ used' = IF Succ[t] = NoTask THEN used ELSE [used EXCEPT ![Succ[t]] = @ + 1]
      /\ {u \in Task : fired(u)}' = {u \in Task : fired(u)} \cup {t}
      /\ [u \in Task |-> outputs(u)]' = [[u \in Task |-> outputs(u)] EXCEPT ![t] = @ + 1]
  BY DEF AbstractDataflow!Fire
<1>2. \A u \in Task : outputs(u)' = [v \in Task |-> outputs(v)]'[u]
  OBVIOUS
<1>3. \A u \in Task : outputs(u)' = outputs(u) + (IF u = t THEN 1 ELSE 0)
  <2>1. \A u \in Task : outputs(u)' = IF u = t THEN outputs(u) + 1 ELSE outputs(u)
    BY <1>1, <1>2
  <2>2. \A u \in Task : outputs(u) \in Nat
    BY CountsNat
  <2> QED  BY <2>1, <2>2
<1>4. \A u \in Task : coming(u)' = coming(u) + (IF u = Succ[t] THEN 1 ELSE 0)
  BY <1>3, Coming
<1>5. \A u \in Task : fired(u)' <=> fired(u) \/ u = t
  BY <1>1
<1>6. ASSUME NEW u \in Task
      PROVE  reading(u)' = reading(u) + (IF u = t /\ t \notin Periodic THEN 1 ELSE 0)
  BY <1>1, <1>5 DEF reading, one
<1>7. ASSUME NEW u \in Task
      PROVE  /\ used'[u] = used[u] + (IF u = Succ[t] THEN 1 ELSE 0)
             /\ tokens'[u] = tokens[u] - (IF u = t /\ t \notin Periodic THEN 1 ELSE 0)
  <2>1. u # NoTask /\ (Succ[t] # NoTask => Succ[t] \in Task)
    BY NotNull, ConstantsAssumption DEF Job
  <2>2. used \in [Task -> Int] /\ tokens \in [Task -> Int]
    BY DEF Good, IInv, Types
  <2>3. used'[u] = used[u] + (IF u = Succ[t] THEN 1 ELSE 0)
    BY <1>1, <2>1, <2>2
  <2>4. tokens'[u] = tokens[u] - (IF u = t /\ t \notin Periodic THEN 1 ELSE 0)
    BY <1>1, <2>2
  <2> QED  BY <2>3, <2>4
<1>8. ASSUME NEW u \in Task
      PROVE  /\ used'[u] = tokens'[u] + reading(u)' + coming(u)'
             /\ tokens'[u] >= 0 /\ used'[u] <= Capacity
  <2>1. /\ used[u] = tokens[u] + reading(u) + coming(u)
        /\ tokens[u] >= 0 /\ used[u] <= Capacity /\ Capacity \in Nat
    BY ConstantsAssumption DEF Conserved
  <2>2. used'[u] = tokens'[u] + reading(u)' + coming(u)'
    BY <1>4, <1>6, <1>7, <2>1, CountsTokens
  <2>3. tokens'[u] >= 0
    BY <1>1, <1>7, <2>1, CountsTokens
  <2>4. u = Succ[t] => used[u] < Capacity
    BY <1>1, NotNull DEF Job
  <2>5. used'[u] <= Capacity
    BY <1>7, <2>1, <2>4, CountsTokens
  <2> QED  BY <2>2, <2>3, <2>5
<1> QED  BY <1>8 DEF Conserved

\* A firing that ends gives back the place it has read; an output that is
\* delivered stays in the place that was reserved for it.
LEMMA ConservedEnd ==
  ASSUME Good, Conserved, NEW t \in Task, NEW u \in Task,
         AbstractDataflow!end(t)
           \/ (UNCHANGED used /\ {v \in Task : fired(v)}' = {v \in Task : fired(v)}),
         AbstractDataflow!deliver(u) \/ (UNCHANGED tokens /\ sameOutputs)
  PROVE  Conserved'
<1>1. ASSUME NEW v \in Task
      PROVE  /\ used'[v] - reading(v)' = used[v] - reading(v)
             /\ used'[v] <= used[v]
             /\ used'[v] \in Int /\ reading(v)' \in 0..1
  <2>1. CASE AbstractDataflow!end(t)
    <3>1. /\ fired(t)
          /\ {w \in Task : fired(w)}' = {w \in Task : fired(w)} \ {t}
          /\ used' = IF t \in Periodic THEN used ELSE [used EXCEPT ![t] = @ - 1]
      BY <2>1 DEF AbstractDataflow!end
    <3>2. fired(v)' <=> fired(v) /\ v # t
      BY <3>1
    <3>3. used'[v] = used[v] - (IF v = t /\ t \notin Periodic THEN 1 ELSE 0)
      BY <3>1 DEF Good, IInv, Types
    <3>4. reading(v)' = reading(v) - (IF v = t /\ t \notin Periodic THEN 1 ELSE 0)
      BY <3>1, <3>2 DEF reading, one
    <3>5. reading(v)' \in 0..1
      BY DEF reading, one
    <3> QED  BY <3>3, <3>4, <3>5, CountsTokens
  <2>2. CASE UNCHANGED used /\ {w \in Task : fired(w)}' = {w \in Task : fired(w)}
    <3>1. fired(v)' <=> fired(v)
      BY <2>2
    <3>2. reading(v)' = reading(v)
      BY <3>1 DEF reading, one
    <3> QED  BY <2>2, <3>2, CountsTokens
  <2> QED  BY <2>1, <2>2
<1>2. ASSUME NEW v \in Task
      PROVE  /\ tokens'[v] + coming(v)' = tokens[v] + coming(v)
             /\ tokens'[v] >= tokens[v]
             /\ tokens'[v] \in Int /\ coming(v)' \in Int
  <2>1. CASE AbstractDataflow!deliver(u)
    <3>1. /\ [w \in Task |-> outputs(w)]' = [[w \in Task |-> outputs(w)] EXCEPT ![u] = @ - 1]
          /\ tokens' = IF Succ[u] = NoTask THEN tokens ELSE [tokens EXCEPT ![Succ[u]] = @ + 1]
      BY <2>1 DEF AbstractDataflow!deliver
    <3>2. \A w \in Task : outputs(w)' = [x \in Task |-> outputs(x)]'[w]
      OBVIOUS
    <3>3. \A w \in Task : outputs(w)' = outputs(w) + (IF w = u THEN -1 ELSE 0)
      <4>1. \A w \in Task : outputs(w)' = IF w = u THEN outputs(w) - 1 ELSE outputs(w)
        BY <3>1, <3>2
      <4>2. \A w \in Task : outputs(w) \in Nat
        BY CountsNat
      <4> QED  BY <4>1, <4>2
    <3>4. coming(v)' = coming(v) + (IF v = Succ[u] THEN -1 ELSE 0)
      BY <3>3, Coming
    <3>5. tokens'[v] = tokens[v] + (IF v = Succ[u] THEN 1 ELSE 0)
      <4>1. v # NoTask /\ tokens \in [Task -> Int] /\ tokens[v] \in Int
        BY NotNull DEF Good, IInv, Types, Job
      <4> QED  BY <3>1, <4>1
    <3> QED  BY <3>4, <3>5, CountsTokens
  <2>2. CASE UNCHANGED tokens /\ sameOutputs
    BY <2>2, SameComing, CountsTokens
  <2> QED  BY <2>1, <2>2
<1>3. ASSUME NEW v \in Task
      PROVE  /\ used'[v] = tokens'[v] + reading(v)' + coming(v)'
             /\ tokens'[v] >= 0 /\ used'[v] <= Capacity
  <2>1. /\ used[v] = tokens[v] + reading(v) + coming(v)
        /\ tokens[v] >= 0 /\ used[v] <= Capacity /\ Capacity \in Nat
    BY ConstantsAssumption DEF Conserved
  <2>2. reading(v) \in Int /\ coming(v) \in Int /\ tokens[v] \in Int /\ used[v] \in Int
    BY CountsTokens
  <2>3. used'[v] = tokens'[v] + reading(v)' + coming(v)'
    BY <1>1, <1>2, <2>1, <2>2
  <2>4. tokens'[v] >= 0 /\ used'[v] <= Capacity
    BY <1>1, <1>2, <2>1, <2>2
  <2> QED  BY <2>3, <2>4
<1> QED  BY <1>3 DEF Conserved

\* So every step of the graph conserves tokens, ...
LEMMA ConservedStep ==
  ASSUME Good, Good', Conserved, [AbstractDataflow!Next]_AbstractDataflow!vars
  PROVE  Conserved'
<1>1. ASSUME [t \in Task |-> outputs(t)]' = [t \in Task |-> outputs(t)]  PROVE sameOutputs
  <2>1. \A u \in Task : outputs(u)' = [v \in Task |-> outputs(v)]'[u]
    OBVIOUS
  <2> QED  BY <1>1, <2>1 DEF sameOutputs
<1>2. ASSUME NEW t \in Task, AbstractDataflow!End(t)  PROVE Conserved'
  BY <1>1, <1>2, ConservedEnd DEF AbstractDataflow!End
<1>3. ASSUME NEW t \in Task, AbstractDataflow!Deliver(t)  PROVE Conserved'
  BY <1>3, ConservedEnd DEF AbstractDataflow!Deliver
<1>4. ASSUME NEW t \in Task, AbstractDataflow!EndAndDeliver(t)  PROVE Conserved'
  BY <1>4, ConservedEnd DEF AbstractDataflow!EndAndDeliver
<1>5. CASE UNCHANGED AbstractDataflow!vars
  <2>1. /\ UNCHANGED <<tokens, used>> /\ {t \in Task : fired(t)}' = {t \in Task : fired(t)}
        /\ sameOutputs
    BY <1>1, <1>5 DEF AbstractDataflow!vars
  <2>2. CASE Task = {}
    BY <2>2 DEF Conserved
  <2>3. CASE Task # {}
    BY <2>1, <2>3, ConservedEnd
  <2> QED  BY <2>2, <2>3
<1> QED
  BY <1>2, <1>3, <1>4, <1>5, ConservedArrive, ConservedFire DEF AbstractDataflow!Next

\* ... and every reachable state has them conserved.
LEMMA ConservedAlways == Spec => [](Good /\ Conserved)
<1>1. Spec => []Good
  BY SpacedAlways, PTL DEF Good
<1>2. Init /\ Good => Conserved
  <2> SUFFICES ASSUME Init, Good, NEW t \in Task
               PROVE  used[t] = 0 /\ tokens[t] = 0 /\ reading(t) = 0 /\ coming(t) = 0
    BY ConstantsAssumption DEF Conserved
  <2>1. AbstractDataflow!Init
    BY DataflowInitially
  <2>2. ~fired(t) /\ \A u \in Task : outputs(u) = [v \in Task |-> outputs(v)][u]
    BY <2>1 DEF AbstractDataflow!Init
  <2>3. \A u \in Task : outputs(u) = 0
    BY <2>1, <2>2 DEF AbstractDataflow!Init
  <2> QED  BY <2>2, <2>3, Writer DEF Init, reading, coming, one
<1>3. Good /\ Good' /\ Conserved /\ [Next]_vars => Conserved'
  BY DataflowStep, ConservedStep
<1> QED  BY <1>1, <1>2, <1>3, PTL DEF Spec

\* Every place taken holds a token, or one that is read, or is reserved for an
\* output that is still to come.
THEOREM TokensConservedTheorem == Spec => []TokensConserved
<1>1. Good /\ Conserved => TokensConserved
  BY DEF Conserved, TokensConserved, reading, coming, one
<1> QED  BY <1>1, ConservedAlways, PTL

-----------------------------------------------------------------------------
(* The types, and ttReleaseQueue.  While its method is idle its event is   *)
(* pending for no later time than any entry's (prepared): a notification   *)
(* only ever moves the event to an earlier time, and time stops at it.     *)
(*                                                                         *)
(* Without periodic actors every entry is due at once: it is notified for  *)
(* the next delta cycle of the first one at its time, and nothing is added *)
(* to the queue in a later one.  Its method then finds what it was         *)
(* notified for.                                                           *)

Typed ==
  /\ releaseEvent \in Notification
  /\ releaseMethod \in {"idle", "runnable", "loop"}
  /\ priorities \in Seq(Task)
  /\ selectedTask \in Job \cup {NoTask}
  /\ yieldTask \in Task \cup {NoTask}

immediate(q) ==
  /\ \A t \in Task : q.due[t] \in {Absent, 0}
  /\ q.event \in {NoNotify, DeltaNotify}
  /\ q.event = DeltaNotify => \E t \in Task : q.due[t] = 0

prepared(q) == \A t \in Task : q.due[t] # Absent => inTime(q.event, q.due[t])

sound(q) ==
  /\ isQueue(q) /\ q.event \in Notification
  /\ releaseMethod = "idle" => prepared(q)
  /\ Periodic = {} => immediate(q)

Prompt ==
  /\ immediate(theQueue)
  /\ releaseMethod # "idle" => ~firstDelta /\ releaseEvent = NoNotify
  /\ releaseMethod = "runnable" => \E t \in Task : due[t] = 0
  /\ thread = "timeout" => firstDelta

Queued ==
  /\ Typed
  /\ releaseMethod = "idle" => prepared(theQueue)
  /\ Periodic = {} => Prompt

\* A notification for now is one for the next delta cycle.
LEMMA NotifyType ==
  ASSUME NEW e \in Notification, NEW d \in Nat
  PROVE  Notify(e, 0, d) \in Notification /\ Notify(e, 0, 0) = DeltaNotify
BY DEF Notify, Notification

\* The event triggers in time for what it is notified for, and for what it was
\* in time for before.
LEMMA NotifyInTime ==
  ASSUME NEW e \in Notification, NEW d \in {Late} \cup Nat
  PROVE  /\ notifyAt(e, d) \in Notification
         /\ inTime(notifyAt(e, d), d)
         /\ \A x \in {Late} \cup Nat : inTime(e, x) => inTime(notifyAt(e, d), x)
         /\ notifyAt(e, 0) = DeltaNotify
<1> USE DEF notifyAt, Notify, Notification, NoNotify, DeltaNotify, Late, inTime
<1>1. notifyAt(e, d) \in Notification /\ inTime(notifyAt(e, d), d)
  OBVIOUS
<1>2. ASSUME NEW x \in {Late} \cup Nat, inTime(e, x)  PROVE inTime(notifyAt(e, d), x)
  BY <1>2
<1> QED  BY <1>1, <1>2

\* Announcing keeps the queue sound.
LEMMA AnnounceSound ==
  ASSUME NEW q, sound(q), release \in [Periodic -> {Late} \cup Nat],
         NEW t \in Task \cup {NoTask}, NEW tk, NEW us
  PROVE  sound(announce(q, t, tk, us))
<1> DEFINE r == announce(q, t, tk, us)
<1>1. isQueue(r)
  BY AnnounceGrows DEF sound, grown
<1>2. CASE t # NoTask /\ enabled(t, tk, us) /\ t \notin q.active
  <2> DEFINE n == nextRelease(t)
  <2>1. t \in Task /\ n \in {Late} \cup Nat /\ (Periodic = {} => n = 0)
    BY <1>2 DEF nextRelease
  <2>2. /\ r.due = [q.due EXCEPT ![t] = n]
        /\ r.event = notifyAt(q.event, n)
    BY <1>2 DEF announce, notifyActivation
  <2> HIDE DEF r, n
  <2>3. r.event \in Notification
    BY <2>1, <2>2, NotifyInTime DEF sound
  <2>4. ASSUME Periodic = {}  PROVE immediate(r)
    <3>1. r.due = [q.due EXCEPT ![t] = 0] /\ r.event = DeltaNotify
      BY <2>1, <2>2, <2>4, NotifyInTime DEF sound
    <3>2. r.due[t] = 0 /\ \A u \in Task : r.due[u] \in {Absent, 0}
      BY <2>1, <2>4, <3>1 DEF sound, isQueue, immediate
    <3> QED  BY <2>1, <3>1, <3>2 DEF immediate
  <2>5. ASSUME releaseMethod = "idle"  PROVE prepared(r)
    <3> SUFFICES ASSUME NEW u \in Task, r.due[u] # Absent  PROVE inTime(r.event, r.due[u])
      BY DEF prepared
    <3>1. CASE u = t
      BY <2>1, <2>2, <3>1, NotifyInTime DEF sound, isQueue
    <3>2. CASE u # t
      <4>1. r.due[u] = q.due[u] /\ q.due[u] \in {Late} \cup Nat
        BY <2>2, <3>2 DEF sound, isQueue
      <4>2. inTime(q.event, q.due[u])
        BY <2>5, <4>1 DEF sound, prepared
      <4> QED  BY <2>1, <2>2, <4>1, <4>2, NotifyInTime DEF sound
    <3> QED  BY <3>1, <3>2
  <2> QED  BY <1>1, <2>3, <2>4, <2>5 DEF sound, r
<1>3. CASE ~(t # NoTask /\ enabled(t, tk, us) /\ t \notin q.active)
  <2>1. r = q
    BY <1>3 DEF announce, notifyActivation
  <2> QED  BY <2>1
<1> QED  BY <1>2, <1>3

\* The queue of a state is sound, ...
LEMMA TheQueueSound ==
  ASSUME Types, Queued
  PROVE  sound(theQueue) /\ theQueue.event = releaseEvent
BY TheQueue DEF theQueue, sound, Queued, Typed, Prompt

\* ... and stays so when a task is taken out of activeTasks.
LEMMA ErasedSound ==
  ASSUME NEW q, sound(q), NEW t
  PROVE  sound([q EXCEPT !.active = @ \ {t}])
BY DEF sound, isQueue, prepared, immediate

\* A step that announces tasks is made in the first delta cycle of a time.
LEMMA QueuedAnnounce ==
  ASSUME Types, Queued, NEW q, sound(q), setQueue(q),
         firstDelta, firstDelta' = firstDelta, thread' = "timeout" => thread = "timeout",
         UNCHANGED <<releaseMethod, priorities, selectedTask, yieldTask>>
  PROVE  Queued'
<1>1. due' = q.due /\ releaseEvent' = q.event
  BY DEF setQueue
<1>2. Typed'
  BY <1>1 DEF Queued, Typed, sound
<1>3. ASSUME Periodic = {}  PROVE Prompt'
  <2>1. immediate(q) /\ releaseMethod = "idle"
    BY <1>3 DEF sound, Queued, Prompt
  <2>2. immediate(theQueue)'
    BY <1>1, <2>1 DEF immediate, theQueue
  <2> QED  BY <2>1, <2>2 DEF Prompt
<1>4. (releaseMethod = "idle" => prepared(theQueue))'
  BY <1>1 DEF sound, prepared, theQueue
<1> QED  BY <1>2, <1>3, <1>4 DEF Queued

\* The end of a DII is such a step; three announcements are made in it.
LEMMA QueuedTimeout ==
  ASSUME IInv, Queued, Timeout
  PROVE  Queued'
<1> DEFINE j == runningTask
           w == writer(j)
           d == delivered(j)
           q1 == announce(theQueue, w, tokens, used')
           q2 == IF Latency[j] = Delay[j] THEN announce(q1, d, tokens', used') ELSE q1
           q3 == [q2 EXCEPT !.active = @ \ {j}]
           q4 == IF j \in Task THEN announce(q3, j, tokens', used') ELSE q2
<1>1. /\ thread = "timeout" /\ thread' = "loop" /\ setQueue(q4)
      /\ UNCHANGED <<releaseMethod, priorities, selectedTask, yieldTask, firstDelta>>
  BY DEF Timeout, announced, reactivate, policy
<1>2. j \in Job /\ w \in Task \cup {NoTask} /\ d \in Task \cup {NoTask}
      /\ release \in [Periodic -> {Late} \cup Nat]
  BY <1>1, Writer, Delivered DEF IInv, Types, Awake
<1>3. sound(q1)
  BY <1>2, TheQueueSound, AnnounceSound DEF IInv
<1> HIDE DEF q1, d, w
<1>4. sound(q2)
  BY <1>2, <1>3, AnnounceSound
<1> HIDE DEF q2
<1>5. sound(q3)
  BY <1>4, ErasedSound
<1> HIDE DEF q3
<1>6. sound(q4)
  BY <1>2, <1>4, <1>5, AnnounceSound
<1> HIDE DEF q4
<1>7. /\ releaseEvent' = q4.event /\ due' = q4.due
  BY <1>1 DEF setQueue
<1>8. Typed'
  BY <1>1, <1>6, <1>7 DEF Queued, Typed, sound
<1>9. ASSUME Periodic = {}  PROVE Prompt'
  <2>1. firstDelta
    BY <1>1, <1>9 DEF Queued, Prompt
  <2> QED  BY <1>1, <1>6, <1>9, <2>1, QueuedAnnounce DEF IInv, Queued
<1>10. (releaseMethod = "idle" => prepared(theQueue))'
  BY <1>1, <1>6, <1>7 DEF sound, prepared, theQueue
<1> QED  BY <1>8, <1>9, <1>10 DEF Queued

\* While the method runs nothing is added; without entries left it is idle.
LEMMA QueuedRelease ==
  ASSUME IInv, Queued, Release
  PROVE  Queued'
<1>1. ASSUME NEW t \in Task, ReleaseTask(t)  PROVE Queued'
  <2>1. /\ releaseMethod \in {"runnable", "loop"} /\ releaseMethod' = "loop"
        /\ due' = [due EXCEPT ![t] = Absent]
        /\ UNCHANGED <<releaseEvent, priorities, selectedTask, yieldTask, firstDelta, thread>>
    BY <1>1 DEF ReleaseTask, policy, scheduler
  <2>2. ASSUME Periodic = {}  PROVE Prompt'
    <3>1. Prompt
      BY <2>2 DEF Queued
    <3>2. releaseEvent = NoNotify /\ ~firstDelta /\ \A u \in Task : due[u] \in {Absent, 0}
      BY <2>1, <3>1 DEF Prompt, immediate, theQueue
    <3>3. \A u \in Task : due'[u] \in {Absent, 0}
      BY <2>1, <3>2 DEF IInv, Types
    <3>4. immediate(theQueue)'
      BY <2>1, <3>2, <3>3 DEF immediate, theQueue, NoNotify, DeltaNotify
    <3> QED  BY <2>1, <3>1, <3>2, <3>4 DEF Prompt
  <2> QED  BY <2>1, <2>2 DEF Queued, Typed
<1>2. CASE ReleaseDone
  <2>1. /\ releaseMethod = "loop" /\ releaseMethod' = "idle"
        /\ \A t \in pending : due[t] > 0
        /\ \/ pending = {} /\ UNCHANGED releaseEvent
           \/ \E t \in pending : /\ \A u \in pending : due[t] <= due[u]
                                 /\ releaseEvent' = Notify(releaseEvent, 0, due[t])
        /\ UNCHANGED <<due, activeTasks, priorities, selectedTask, yieldTask, firstDelta, thread>>
    BY <1>2 DEF ReleaseDone, policy, scheduler
  <2>2. \A t \in pending : due[t] \in Nat
    BY <2>1 DEF pending, IInv, Types, Late, Absent
  <2>3. releaseEvent' \in Notification
    BY <2>1, <2>2, NotifyType DEF Queued, Typed
  <2>4. ASSUME Periodic = {}  PROVE Prompt'
    <3>1. Prompt
      BY <2>4 DEF Queued
    <3>2. pending = {}
      BY <2>1, <3>1 DEF Prompt, immediate, theQueue, pending, Absent
    <3>3. immediate(theQueue)'
      BY <2>1, <3>1, <3>2 DEF Prompt, immediate, theQueue
    <3> QED  BY <2>1, <3>1, <3>3 DEF Prompt
  <2>5. prepared(theQueue)'
    <3> SUFFICES ASSUME NEW u \in pending  PROVE inTime(releaseEvent', due[u])
      BY <2>1 DEF prepared, theQueue, pending
    <3>1. PICK t \in pending : /\ due[t] <= due[u]
                              /\ releaseEvent' = Notify(releaseEvent, 0, due[t])
      BY <2>1
    <3>2. due[t] \in Nat /\ due[u] \in Nat /\ releaseEvent \in Notification
      BY <2>2 DEF Queued, Typed
    <3> QED
      BY <3>1, <3>2 DEF inTime, Notify, Notification, NoNotify, DeltaNotify, Late
  <2> QED  BY <2>1, <2>3, <2>4, <2>5 DEF Queued, Typed
<1> QED  BY <1>1, <1>2 DEF Release

\* A notification makes the method runnable while its entry is still there.
LEMMA QueuedKernel ==
  ASSUME IInv, Queued, DeltaCycle \/ LateNotification \/ AdvanceTime
  PROVE  Queued'
<1>1. CASE DeltaCycle
  <2>1. /\ releaseMethod = "idle" /\ thread \in {"computing", "sleep"}
        /\ releaseMethod' = IF releaseEvent = DeltaNotify THEN "runnable" ELSE releaseMethod
        /\ releaseEvent' = IF releaseEvent = DeltaNotify THEN NoNotify ELSE releaseEvent
        /\ firstDelta' = FALSE /\ thread' \in {thread, "woken"}
        /\ UNCHANGED <<due, activeTasks, priorities, selectedTask, yieldTask>>
    BY <1>1 DEF DeltaCycle, Quiet, policy
  <2>2. Typed'
    BY <2>1 DEF Queued, Typed, Notification
  <2>3. ASSUME Periodic = {}  PROVE Prompt'
    <3>1. Prompt
      BY <2>3 DEF Queued
    <3>2. immediate(theQueue)' /\ releaseEvent' = NoNotify
      BY <2>1, <3>1 DEF Prompt, immediate, theQueue, NoNotify, DeltaNotify
    <3> QED  BY <2>1, <3>1, <3>2 DEF Prompt, immediate, theQueue
  <2>4. (releaseMethod = "idle" => prepared(theQueue))'
    BY <2>1 DEF Queued, prepared, theQueue
  <2> QED  BY <2>2, <2>3, <2>4 DEF Queued
<1>2. CASE AdvanceTime
  <2>1. /\ releaseMethod = "idle" /\ releaseEvent \notin {DeltaNotify, 0}
        /\ releaseMethod' = IF releaseEvent = 1 THEN "runnable" ELSE releaseMethod
        /\ releaseEvent' = IF releaseEvent = 1 THEN NoNotify
                           ELSE IF releaseEvent > 0 THEN releaseEvent - 1 ELSE releaseEvent
        /\ due' = [t \in Task |-> IF due[t] = 0 THEN Late
                                 ELSE IF due[t] > 0 THEN due[t] - 1 ELSE due[t]]
        /\ firstDelta' = TRUE
        /\ UNCHANGED <<priorities, selectedTask, yieldTask>>
    BY <1>2 DEF AdvanceTime, Quiet, policy
  <2>2. Typed'
    BY <2>1 DEF Queued, Typed, Notification, NoNotify, DeltaNotify
  <2>3. ASSUME NEW t \in Task, due[t] # Absent
        PROVE  due[t] \in Nat \ {0} /\ releaseEvent \in 1..due[t]
    <3>1. inTime(releaseEvent, due[t]) /\ due[t] \in {Absent, Late} \cup Nat
      BY <2>1, <2>3 DEF Queued, prepared, theQueue, IInv, Types
    <3> QED  BY <2>1, <2>3, <3>1 DEF inTime, Absent, Late
  <2>4. ASSUME releaseMethod' = "idle"  PROVE prepared(theQueue)'
    <3> SUFFICES ASSUME NEW t \in Task, due'[t] # Absent  PROVE inTime(releaseEvent', due'[t])
      BY DEF prepared, theQueue
    <3>1. due[t] # Absent
      BY <2>1 DEF Absent
    <3>2. due[t] \in Nat \ {0} /\ releaseEvent \in 1..due[t] /\ releaseEvent # 1
      BY <2>1, <2>3, <2>4, <3>1
    <3>3. due'[t] = due[t] - 1 /\ releaseEvent' = releaseEvent - 1
      BY <2>1, <3>2
    <3> QED  BY <3>2, <3>3 DEF inTime
  <2>5. ASSUME Periodic = {}  PROVE Prompt'
    <3>1. releaseEvent = NoNotify /\ \A t \in Task : due[t] = Absent
      BY <2>1, <2>3, <2>5 DEF Queued, Prompt, immediate, theQueue
    <3>2. releaseEvent' = NoNotify /\ releaseMethod' = "idle"
      BY <2>1, <3>1 DEF NoNotify
    <3>3. \A t \in Task : due'[t] = Absent
      BY <2>1, <3>1 DEF Absent
    <3>4. immediate(theQueue)'
      BY <3>2, <3>3 DEF immediate, theQueue, NoNotify, DeltaNotify
    <3> QED  BY <2>1, <3>2, <3>4 DEF Prompt
  <2> QED  BY <2>2, <2>4, <2>5 DEF Queued
<1>3. CASE LateNotification
  <2>1. /\ releaseEvent = 0 /\ releaseEvent' = NoNotify /\ releaseMethod' = "runnable"
        /\ UNCHANGED <<priorities, selectedTask, yieldTask>>
    BY <1>3 DEF LateNotification, policy
  <2>2. Periodic # {}
    BY <2>1 DEF Queued, Prompt, immediate, theQueue, NoNotify, DeltaNotify
  <2> QED  BY <2>1, <2>2 DEF Queued, Typed, Notification
<1> QED  BY <1>1, <1>2, <1>3

\* The steps that leave the queue alone keep the types of the rest.
LEMMA QueuedOther ==
  ASSUME IInv, Queued,
         \/ \E m \in Msg : MessageArrival(m)
         \/ \E t \in Task : InputArrived(t)
         \/ ScheduleAfterTransition
         \/ \E i, k \in DOMAIN priorities : SetDynamicPriority(i, k)
         \/ ThreadRuns \/ Dispatch \/ Sleep
         \/ UNCHANGED vars
  PROVE  Queued'
<1>1. UNCHANGED <<activeTasks, due, releaseEvent, releaseMethod, firstDelta>>
      /\ (thread' = "timeout" => thread = "timeout")
  BY DEF MessageArrival, InputArrived, ScheduleAfterTransition, SetDynamicPriority,
     ThreadRuns, Dispatch, Sleep, vars, queue, scheduler
<1>2. Prompt => Prompt'
  BY <1>1 DEF Prompt, theQueue, immediate
<1>3. (releaseMethod = "idle" => prepared(theQueue))'
  BY <1>1 DEF Queued, prepared, theQueue
<1>4. priorities' \in Seq(Task)
  <2>1. ASSUME NEW i \in DOMAIN priorities, NEW k \in DOMAIN priorities, SetDynamicPriority(i, k)
        PROVE  priorities' \in Seq(Task)
    <3>1. /\ Len(priorities) \in Nat /\ DOMAIN priorities = 1..Len(priorities)
          /\ priorities \in [1..Len(priorities) -> Task]
      BY LenProperties DEF Queued, Typed
    <3>2. priorities' \in [1..Len(priorities) -> Task]
      BY <2>1, <3>1 DEF SetDynamicPriority
    <3> QED  BY <3>1, <3>2, SeqDef
  <2>2. CASE UNCHANGED priorities
    BY <2>2 DEF Queued, Typed
  <2> QED
    BY <2>1, <2>2 DEF MessageArrival, InputArrived, ScheduleAfterTransition, ThreadRuns,
       Dispatch, Sleep, vars, policy
<1>5. yieldTask' \in Task \cup {NoTask}
  <2>1. \/ selectedTask \in Task /\ yieldTask' = selectedTask
        \/ yieldTask' \in {yieldTask, NoTask}
    BY DEF MessageArrival, InputArrived, ScheduleAfterTransition, SetDynamicPriority,
       ThreadRuns, Dispatch, Sleep, vars, policy
  <2> QED  BY <2>1 DEF Queued, Typed
<1>6. selectedTask' \in Job \cup {NoTask}
  <2>1. CASE Dispatch
    <3>1. PICK i \in selectable :
            selectedTask' = IF class = "DYNAMIC" THEN readyTasks[i] ELSE selectedTask
      BY <2>1 DEF Dispatch
    <3>2. i \in 1..Len(readyTasks)
      BY <2>1, Selectable DEF IInv, Dispatch
    <3>3. readyTasks[i] \in Job
      BY <3>2, ElementOfSeq DEF IInv, Types
    <3> QED  BY <3>1, <3>3 DEF Queued, Typed
  <2>2. CASE ~Dispatch
    <3>1. UNCHANGED selectedTask
      BY <2>2 DEF MessageArrival, InputArrived, ScheduleAfterTransition, SetDynamicPriority,
         ThreadRuns, Sleep, vars, policy
    <3> QED  BY <3>1 DEF Queued, Typed
  <2> QED  BY <2>1, <2>2
<1> QED  BY <1>1, <1>2, <1>3, <1>4, <1>5, <1>6 DEF Queued, Typed

\* Every step keeps the queue sound.
LEMMA QueuedStep ==
  ASSUME IInv, Queued, [Next]_vars
  PROVE  Queued'
<1>1. ASSUME NEW t \in Task, Arrival(t)  PROVE Queued'
  <2>1. sound(announce(theQueue, t, tokens', used'))
    BY TheQueueSound, AnnounceSound DEF IInv, Types
  <2> QED  BY <1>1, <2>1, QueuedAnnounce DEF IInv, Arrival, policy, scheduler
<1>2. ASSUME NEW e \in latencyQueue, LatencyExpires(e)  PROVE Queued'
  <2>1. e.job \in Job
    BY DEF IInv, Types
  <2>2. sound(announce(theQueue, delivered(e.job), tokens', used))
    BY <2>1, TheQueueSound, AnnounceSound, Delivered DEF IInv, Types
  <2> QED  BY <1>2, <2>2, QueuedAnnounce DEF IInv, LatencyExpires, policy, scheduler
<1> QED
  BY <1>1, <1>2, QueuedTimeout, QueuedRelease, QueuedKernel, QueuedOther
     DEF Next, Latencies, Thread

\* It is sound at the start, ...
LEMMA QueuedInitially ==
  ASSUME Init
  PROVE  Queued
<1>1. priorities \in Seq(Task)
  <2>1. Cardinality(Task) \in Nat
    BY ConstantsAssumption, FS_CardinalityType
  <2> QED  BY <2>1, SeqDef DEF Init, configured
<1>2. Typed
  BY <1>1 DEF Init, Typed, Notification
<1>3. Periodic = {} => Prompt
  BY DEF Init, Prompt, immediate, theQueue, NoNotify, DeltaNotify
<1>4. prepared(theQueue)
  BY ConstantsAssumption DEF Init, prepared, theQueue, inTime, Absent
<1> QED  BY <1>2, <1>3, <1>4 DEF Queued

\* ... and in every reachable state.
LEMMA QueuedAlways == Spec => [](IInv /\ Queued)
<1> QED  BY SpacedAlways, QueuedInitially, QueuedStep, PTL DEF Spec

\* Every variable has its type: no channel holds more than its capacity, and no
\* counter is negative.
THEOREM TypeCorrect == Spec => []TypeOK
<1>1. Good /\ Conserved /\ Queued => TypeOK
  <2> SUFFICES ASSUME Good, Conserved, Queued  PROVE TypeOK
    OBVIOUS
  <2>1. ASSUME NEW t \in Task  PROVE tokens[t] \in 0..Capacity /\ used[t] \in 0..Capacity
    <3>1. /\ used[t] = tokens[t] + reading(t) + coming(t)
          /\ tokens[t] >= 0 /\ used[t] <= Capacity /\ Capacity \in Nat
      BY ConstantsAssumption DEF Conserved
    <3> QED  BY <3>1, CountsTokens
  <2>2. tokens \in [Task -> 0..Capacity] /\ used \in [Task -> 0..Capacity]
    BY <2>1 DEF Good, IInv, Types
  <2>3. ASSUME NEW e \in latencyQueue  PROVE e \in [job : Job, time : Nat]
    <3>1. e \in [job : Job, time : Int] /\ e.time \in 0..slack(e.job)
      BY DEF Good, IInv, Types, Spaced
    <3> QED  BY <3>1
  <2> QED  BY <2>2, <2>3 DEF Good, IInv, Types, Spaced, Queued, Typed, TypeOK
<1> QED  BY <1>1, ConservedAlways, QueuedAlways, PTL

\* While the method of ttReleaseQueue is not on its way its event is pending,
\* and in time for every entry, whatever the periods and wherever in a delta
\* cycle the activations come.
THEOREM ReleasedInTimeTheorem == Spec => []ReleasedInTime
<1>1. Queued => ReleasedInTime
  BY DEF Queued, prepared, theQueue, ReleasedInTime, pending
<1> QED  BY <1>1, QueuedAlways, PTL

\* Without periodic actors no assertion fails; with them the one of
\* ttReleaseQueue may, as the run NonPreemptiveRelease shows.
THEOREM AssertionsHoldTheorem ==
  ASSUME Periodic = {}
  PROVE  Spec => []AssertionsHold
<1>1. IInv /\ Queued => AssertionsHold
  <2> SUFFICES ASSUME IInv, Queued  PROVE AssertionsHold
    OBVIOUS
  <2>1. Prompt /\ \A t \in pending : due[t] # Late
    BY DEF Queued, Prompt, immediate, theQueue, pending, Late
  <2> QED  BY <2>1 DEF IInv, Awake, Accounted, located, Prompt, AssertionsHold
<1> QED  BY <1>1, QueuedAlways, PTL

=============================================================================
