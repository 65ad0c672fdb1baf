-------------------------- MODULE PreemptiveProofs --------------------------
(***************************************************************************)
(* The preemptive component keeps its invariant with each scheduler, and   *)
(* implements an abstract processor.                                       *)
(*                                                                         *)
(* What the runs check says nothing of the steps of a round of the thread, *)
(* nor of the state of a scheduler; IInv does.  It has four parts: types,  *)
(* where a task is, scheduler and thread, and the release queues.          *)
(***************************************************************************)
EXTENDS PreemptiveComponent, SlotProofs

-----------------------------------------------------------------------------
(* The inductive invariant *)

\* TypeOK, but for the state of the scheduler, of which Consistent says more.
ComponentTypes ==
  /\ tokens \in [Task -> 0..Capacity]
  /\ release \in [Periodic -> Nat]
  /\ phase \in [Periodic -> Nat \ {0}]
  /\ activeTasks \subseteq Task
  /\ due \in [Task -> {Absent, Late} \cup Nat]
  /\ releaseEvent \in [Queue -> Notification]
  /\ releaseMethod \in [Queue -> {"idle", "runnable", "loop"}]
  /\ canExecuteTasks \in BOOLEAN /\ requestExecuteTasks \in BOOLEAN
  /\ readyTasks \subseteq Job
  /\ runningTask \in Job \cup {NoTask}
  /\ remaining \in [Job -> Nat]
  /\ ran \in Nat
  /\ scheduleEvent \in {NoNotify, DeltaNotify}
  /\ thread \in {"runnable", "decide", "waiting"}
  /\ wake \in Notification
  /\ firstDelta \in BOOLEAN

\* A task is queued, ready or running exactly while it is active, and is no
\* two of them; the inputs of a queued one hold a firing.
Accounted ==
  /\ runningTask \notin readyTasks
  /\ \A t \in Task :
       /\ due[t] # Absent => t \notin readyTasks /\ t # runningTask
       /\ t \in activeTasks <=> due[t] # Absent \/ t \in readyTasks \/ t = runningTask
       /\ t \notin Periodic /\ due[t] # Absent => tokens[t] > 0

\* The scheduler holds the instances it is responsible for.
Consistent ==
  /\ scheduler.class \in Policies
  /\ Held(scheduler, readyTasks, runningTask)

\* What is ready or running has delay left, and the thread looks at the
\* running task in time.
Served ==
  /\ \A j \in readyTasks : remaining[j] > 0
  /\ runningTask = NoTask \/ thread = "decide" => ran = 0
  /\ runningTask # NoTask =>
       /\ remaining[runningTask] > 0 /\ left >= 0
       /\ thread = "waiting" => wake = DeltaNotify \/ wake \in 1..left
       /\ thread = "decide" => left > 0

\* The thread waits, and nothing has happened since it decided.
Undisturbed == thread = "waiting" /\ scheduleEvent = NoNotify

Woken == Undisturbed /\ readyTasks # {} => wake # NoNotify

Ordered ==
  scheduler.class = "PRIORITY" /\ Undisturbed =>
    \A j \in readyTasks : runningTask # NoTask /\ Priority[runningTask] <= Priority[j]

Sliced ==
  scheduler.class = "ROUNDROBIN" /\ Undisturbed /\ readyTasks # {} =>
    runningTask # NoTask /\ wake \in 1..scheduler.expires

\* The notification of queue q comes no later than t is due.
covers(q, t) ==
  \/ releaseEvent[q] = DeltaNotify \/ releaseEvent[q] = 0
  \/ releaseEvent[q] \in Nat /\ releaseEvent[q] <= due[t]

\* Every entry of a release queue is on its way out of it.
Announced ==
  /\ requestExecuteTasks => ~canExecuteTasks
  /\ releaseMethod["normal"] = "loop" => canExecuteTasks
  /\ \A t \in Task : due[t] # Absent =>
       \/ releaseMethod[queueOf(t)] \in {"runnable", "loop"}
       \/ covers(queueOf(t), t)
       \/ queueOf(t) = "normal" /\ requestExecuteTasks

\* The scheduler and the thread.
Working == Consistent /\ Served /\ Woken /\ Ordered /\ Sliced

IInv == ComponentTypes /\ Accounted /\ Working /\ Announced

-----------------------------------------------------------------------------
(* Parameters and operators *)

\* What is assumed of the parameters of a component.
LEMMA Parameters ==
  /\ NoTask \notin Job /\ Job = Task \cup Msg /\ Task \cap Msg = {}
  /\ PSM \subseteq Task /\ Periodic \subseteq Task
  /\ Period \in [Periodic -> Nat \ {0}] /\ Offset \in [Periodic -> Nat \ {0}]
  /\ Delay \in [Job -> Nat \ {0}] /\ Capacity \in Nat \ {0}
  BY SchedulerAssumption, ComponentAssumption
  DEF SchedulerAssumption, ComponentAssumption, JobAssumption

\* The entry at the top of a release queue is the earliest.
LEMMA TopTime ==
  ASSUME due \in [Task -> {Absent, Late} \cup Nat], NEW q \in Queue, entries(q) # {}
  PROVE  /\ topTime(q) \in {Late} \cup Nat
         /\ \E t \in entries(q) : due[t] = topTime(q)
         /\ \A t \in entries(q) : topTime(q) <= due[t]
<1> DEFINE S == {due[t] : t \in entries(q)}
<1>1. S \subseteq {Late} \cup Nat /\ S # {}
  <2>1. \A t \in entries(q) : due[t] \in {Late} \cup Nat
    BY DEF entries
  <2> QED  BY <2>1
<1>2. \E n \in S : \A k \in S : n <= k
  <2> HIDE DEF S
  <2>1. CASE Late \in S
    BY <1>1, <2>1 DEF Late
  <2>2. CASE Late \notin S
    BY <1>1, <2>2, LeastNat
  <2> QED  BY <2>1, <2>2
<1>3. topTime(q) = Min(S)
  BY DEF topTime
<1>4. topTime(q) \in S /\ \A k \in S : topTime(q) <= k
  <2> HIDE DEF S
  <2> QED  BY <1>2, <1>3 DEF Min
<1> QED  BY <1>1, <1>4

\* The thread waits no longer than the time slice and the delay that remains.
LEMMA WaitTime ==
  ASSUME ComponentTypes, NEW j \in Job \cup {NoTask}, NEW slice \in {NoSlice} \cup Nat
  PROVE  /\ waitTime(j, slice) \in Notification
         /\ waitTime(j, slice) = NoNotify => j = NoTask /\ slice = NoSlice
         /\ j # NoTask /\ waitTime(j, slice) # DeltaNotify =>
              waitTime(j, slice) \in 1..remaining[j]
         /\ slice # NoSlice /\ waitTime(j, slice) # DeltaNotify =>
              waitTime(j, slice) \in 1..slice
         /\ j # NoTask /\ remaining[j] > 0 /\ slice \in Nat \ {0} =>
              waitTime(j, slice) # DeltaNotify
<1> DEFINE S == ({slice} \ {NoSlice}) \cup (IF j # NoTask THEN {remaining[j]} ELSE {})
           w == waitTime(j, slice)
<1>1. S \subseteq Nat
  BY DEF ComponentTypes
<1>2. CASE S = {}
  <2>1. w = NoNotify
    BY <1>2 DEF waitTime
  <2> QED  BY <1>2, <2>1 DEF Notification
<1>3. CASE S # {}
  <2>1. Min(S) \in S /\ \A k \in S : Min(S) <= k
    <3> HIDE DEF S
    <3> QED  BY <1>1, <1>3, FirstOf
  <2> DEFINE m == Min(S)
  <2>2. w = Notify(NoNotify, 0, m)
    BY <1>3 DEF waitTime
  <2>3. m \in Nat /\ (slice # NoSlice => m <= slice) /\ (j # NoTask => m <= remaining[j])
        /\ (j # NoTask /\ remaining[j] > 0 /\ slice \in Nat \ {0} => m # 0)
    BY <1>1, <2>1
  <2> HIDE DEF m, w
  <2>4. w = IF m = 0 THEN DeltaNotify ELSE m
    BY <2>2, <2>3 DEF Notify, NoNotify, DeltaNotify
  <2>5. w # NoNotify /\ w \in Notification
    BY <2>3, <2>4 DEF NoNotify, DeltaNotify, Notification
  <2>6. w # DeltaNotify => w = m /\ m # 0
    BY <2>4
  <2>7. m # 0 => w # DeltaNotify
    BY <2>3, <2>4 DEF DeltaNotify
  <2>8. j # NoTask => remaining[j] \in Nat
    BY DEF ComponentTypes
  <2>9. w # DeltaNotify => (j # NoTask => w \in 1..remaining[j])
                         /\ (slice # NoSlice => w \in 1..slice)
    BY <2>3, <2>6, <2>8
  <2> QED  BY <2>3, <2>5, <2>7, <2>9 DEF w
<1> QED  BY <1>2, <1>3

\* A notification is moved to an earlier time only.
LEMMA NotifyEarlier ==
  ASSUME NEW p \in Notification, NEW d \in Nat
  PROVE  /\ Notify(p, 0, d) \in Notification
         /\ \/ Notify(p, 0, d) = DeltaNotify
            \/ Notify(p, 0, d) \in Nat /\ Notify(p, 0, d) <= d
         /\ p \in Nat \cup {DeltaNotify} =>
              Notify(p, 0, d) = DeltaNotify \/ (p \in Nat /\ Notify(p, 0, d) <= p)
<1> DEFINE e == Notify(p, 0, d)
<1>1. e = IF d = 0 \/ p = DeltaNotify THEN DeltaNotify
          ELSE IF p = NoNotify \/ d < p THEN d ELSE p
  BY DEF Notify
<1> HIDE DEF e
<1>2. e \in Notification
  BY <1>1 DEF Notification
<1>3. e = DeltaNotify \/ (e \in Nat /\ e <= d)
  BY <1>1 DEF Notification
<1>4. p \in Nat \cup {DeltaNotify} => e = DeltaNotify \/ (p \in Nat /\ e <= p)
  BY <1>1 DEF NoNotify
<1> QED  BY <1>2, <1>3, <1>4 DEF e

\* An event that is notified for an entry comes no later than the entry is due.
LEMMA NotifyAt ==
  ASSUME NEW p \in Notification, NEW d \in {Late} \cup Nat
  PROVE  /\ notifyAt(p, d) \in Notification
         /\ \/ notifyAt(p, d) \in {DeltaNotify, 0}
            \/ notifyAt(p, d) \in Nat /\ notifyAt(p, d) <= d
<1>1. CASE d = Late
  BY <1>1 DEF notifyAt, Notification
<1>2. CASE d # Late
  BY <1>2, NotifyEarlier DEF notifyAt
<1> QED  BY <1>1, <1>2

-----------------------------------------------------------------------------
(* The initial states *)

\* The invariant holds when the component has been constructed.
LEMMA Initially ==
  ASSUME Init
  PROVE  IInv
<1>1. ComponentTypes
  <2>1. due \in [Task -> {Absent, Late} \cup Nat]
        /\ \A t \in Task : due[t] # Absent => due[t] \in Nat \ {0}
    BY Parameters DEF Init
  <2>2. releaseEvent \in [Queue -> Notification]
    <3>1. ASSUME NEW q \in Queue, entries(q) # {}
          PROVE  topTime(q) \in Nat
      <4>1. PICK t \in entries(q) : due[t] = topTime(q)
        BY <2>1, <3>1, TopTime
      <4> QED  BY <2>1, <4>1 DEF entries
    <3> QED  BY <3>1 DEF Init, Notification
  <2>3. tokens \in [Task -> 0..Capacity]
    BY Parameters DEF Init
  <2>4. release \in [Periodic -> Nat] /\ phase \in [Periodic -> Nat \ {0}]
    BY Parameters DEF Init
  <2>5. remaining \in [Job -> Nat] /\ ran \in Nat
    BY DEF Init
  <2> QED  BY <2>1, <2>2, <2>3, <2>4, <2>5, Parameters DEF Init, ComponentTypes, Notification
<1>2. Accounted
  BY Parameters DEF Init, Accounted, Absent
<1>3. Working
  <2>1. Consistent
    BY SchedulerAssumption, HeldInitially DEF Init, Consistent, initialSchedulers
  <2> QED  BY <2>1 DEF Working, Served, Woken, Ordered, Sliced, Undisturbed, Init
<1>4. Announced
  <2>1. ASSUME NEW t \in Task, due[t] # Absent
        PROVE  covers(queueOf(t), t)
    <3> DEFINE q == queueOf(t)
    <3>1. q \in Queue /\ t \in entries(q)
      BY <2>1 DEF queueOf, Queue, entries
    <3> HIDE DEF q
    <3>2. releaseEvent[q] = topTime(q)
      BY <3>1 DEF Init
    <3>3. topTime(q) \in {Late} \cup Nat /\ topTime(q) <= due[t]
      BY <1>1, <3>1, TopTime DEF ComponentTypes
    <3>4. topTime(q) \in Nat
      <4>1. PICK u \in entries(q) : due[u] = topTime(q)
        BY <1>1, <3>1, TopTime DEF ComponentTypes
      <4>2. due[u] \in Nat
        BY <4>1, Parameters DEF Init, entries
      <4> QED  BY <4>1, <4>2
    <3> QED  BY <3>2, <3>3, <3>4 DEF covers, q
  <2> QED  BY <2>1, Parameters DEF Init, Announced, Queue
<1> QED  BY <1>1, <1>2, <1>3, <1>4 DEF IInv

-----------------------------------------------------------------------------
(* What the steps have in common *)

\* Each task has one of the two release queues.
LEMMA QueueOf == \A t \in Task : queueOf(t) \in Queue
  BY DEF queueOf, Queue

\* A job that is neither waiting nor running becomes ready.
LEMMA AddTask ==
  ASSUME IInv, NEW j \in Job, j \notin readyTasks, j # runningTask,
         addTask(scheduler, j), UNCHANGED <<cpu, thread, wake>>
  PROVE  /\ Working'
         /\ readyTasks' = readyTasks \cup {j} /\ readyTasks' \subseteq Job
         /\ remaining' \in [Job -> Nat]
         /\ scheduleEvent' = DeltaNotify
<1>1. /\ readyTasks' = readyTasks \cup {j} /\ readyTasks' \subseteq Job
      /\ remaining' = [remaining EXCEPT ![j] = Delay[j]] /\ remaining' \in [Job -> Nat]
      /\ scheduler' = addedNewTask(scheduler, j)
      /\ scheduleEvent' = DeltaNotify
  BY Parameters DEF addTask, IInv, ComponentTypes
<1>2. Consistent'
  <2>1. scheduler.class \in Policies /\ Held(scheduler, readyTasks, runningTask)
    BY DEF IInv, Working, Consistent
  <2>2. /\ Held(scheduler', readyTasks', runningTask)
        /\ scheduler'.class = scheduler.class
    <3>1. /\ Held(addedNewTask(scheduler, j), readyTasks \cup {j}, runningTask)
          /\ addedNewTask(scheduler, j).class = scheduler.class
      BY <2>1, SchedulerAssumption, HeldAdded
    <3> QED  BY <1>1, <3>1
  <2> QED  BY <2>1, <2>2 DEF Consistent, cpu
<1>3. Served'
  <2>1. \A k \in Job : remaining'[k] = IF k = j THEN Delay[j] ELSE remaining[k]
    BY <1>1 DEF IInv, ComponentTypes
  <2>2. \A k \in readyTasks' : remaining'[k] > 0
    BY <1>1, <2>1, Parameters DEF IInv, Working, Served
  <2>3. runningTask # NoTask => remaining'[runningTask] = remaining[runningTask]
    BY <2>1 DEF IInv, ComponentTypes
  <2> QED  BY <1>1, <2>2, <2>3 DEF IInv, Working, Served, left, cpu
<1>4. Woken' /\ Ordered' /\ Sliced'
  BY <1>1 DEF Woken, Ordered, Sliced, Undisturbed, NoNotify, DeltaNotify
<1> QED  BY <1>1, <1>2, <1>3, <1>4 DEF Working

\* An actor is fired and computed: t->schedule().
LEMMA Schedule ==
  ASSUME IInv, NEW t \in Task, t \notin readyTasks, t # runningTask,
         NEW tk \in [Task -> 0..Capacity], t \notin Periodic => tk[t] > 0,
         schedule(t, tk, scheduler), UNCHANGED <<cpu, thread, wake>>
  PROVE  /\ Working'
         /\ readyTasks' = readyTasks \cup {t} /\ readyTasks' \subseteq Job
         /\ remaining' \in [Job -> Nat]
         /\ scheduleEvent' = DeltaNotify
         /\ tokens' \in [Task -> 0..Capacity] /\ release' \in [Periodic -> Nat]
         /\ \A u \in Task : u # t => tokens'[u] = tk[u]
<1>1. t \in Job
  BY Parameters
<1>2. addTask(scheduler, t)
  BY DEF schedule
<1>3. tokens' \in [Task -> 0..Capacity] /\ \A u \in Task : u # t => tokens'[u] = tk[u]
  BY Parameters DEF schedule
<1>4. release' \in [Periodic -> Nat]
  BY DEF schedule, IInv, ComponentTypes
<1> QED  BY <1>1, <1>2, <1>3, <1>4, AddTask

\* An actor goes to its release queue and is announced there in time.
LEMMA Enqueue ==
  ASSUME IInv, NEW t \in Task, enqueue(t), UNCHANGED <<releaseMethod, power>>
  PROVE  /\ due' = [due EXCEPT ![t] = nextRelease(t)] /\ nextRelease(t) \in Nat
         /\ due' \in [Task -> {Absent, Late} \cup Nat]
         /\ releaseEvent' \in [Queue -> Notification]
         /\ Announced'
<1> DEFINE q == queueOf(t)
           d == nextRelease(t)
<1>1. q \in Queue /\ d \in Nat
  BY QueueOf, Parameters DEF nextRelease, IInv, ComponentTypes
<1> HIDE DEF q, d
<1>2. due' = [due EXCEPT ![t] = d]
      /\ releaseEvent' = [releaseEvent EXCEPT ![q] = Notify(releaseEvent[q], 0, d)]
  BY DEF enqueue, q, d
<1>3. due \in [Task -> {Absent, Late} \cup Nat] /\ releaseEvent \in [Queue -> Notification]
  BY DEF IInv, ComponentTypes
<1> DEFINE e == Notify(releaseEvent[q], 0, d)
<1>4. /\ e \in Notification
      /\ e = DeltaNotify \/ (e \in Nat /\ e <= d)
      /\ releaseEvent[q] \in Nat \cup {DeltaNotify} =>
           e = DeltaNotify \/ (releaseEvent[q] \in Nat /\ e <= releaseEvent[q])
  BY <1>1, <1>3, NotifyEarlier
<1> HIDE DEF e
<1>5. releaseEvent' \in [Queue -> Notification] /\ due' \in [Task -> {Absent, Late} \cup Nat]
      /\ due'[t] = d /\ releaseEvent'[q] = e
      /\ \A u \in Task : u # t => due'[u] = due[u]
      /\ \A p \in Queue : p # q => releaseEvent'[p] = releaseEvent[p]
  BY <1>1, <1>2, <1>3, <1>4 DEF e
<1>6. ASSUME NEW u \in Task, due'[u] # Absent
      PROVE  \/ releaseMethod[queueOf(u)] \in {"runnable", "loop"}
             \/ covers(queueOf(u), u)'
             \/ queueOf(u) = "normal" /\ requestExecuteTasks
  <2>1. CASE u = t
    BY <1>1, <1>4, <1>5, <2>1 DEF covers, q
  <2>2. CASE u # t /\ covers(queueOf(u), u)
    <3>1. CASE queueOf(u) = q
      <4>1. due'[u] = due[u] /\ due[u] \in {Absent, Late} \cup Nat /\ releaseEvent'[q] = e
        BY <1>3, <1>5, <2>2
      <4>2. releaseEvent[q] \in Nat \cup {DeltaNotify}
        BY <2>2, <3>1 DEF covers
      <4>3. CASE e = DeltaNotify
        BY <3>1, <4>1, <4>3 DEF covers
      <4>4. CASE releaseEvent[q] \in Nat /\ e <= releaseEvent[q] /\ e \in Nat
        BY <2>2, <3>1, <4>1, <4>4 DEF covers, DeltaNotify, Absent, Late
      <4> QED  BY <1>4, <4>2, <4>3, <4>4
    <3>2. CASE queueOf(u) # q
      BY <1>5, <2>2, <3>2, QueueOf DEF covers
    <3> QED  BY <3>1, <3>2
  <2>3. CASE u # t /\ ~covers(queueOf(u), u)
    BY <1>5, <1>6, <2>3 DEF IInv, Announced
  <2> QED  BY <2>1, <2>2, <2>3
<1>7. Announced'
  BY <1>6 DEF IInv, Announced, power
<1> QED  BY <1>1, <1>2, <1>5, <1>7 DEF d

\* What leaves scheduler, thread and ready list alone keeps what is shown of them.
LEMMA WorkingKept ==
  ASSUME IInv, UNCHANGED <<ready, cpu, thread, wake>>
  PROVE  Working'
  BY DEF IInv, Working, Consistent, Served, Woken, Ordered, Sliced, Undisturbed, left,
         ready, cpu

\* What leaves the release queues alone keeps their entries announced.
LEMMA AnnouncedKept ==
  ASSUME IInv, UNCHANGED <<due, releaseEvent, releaseMethod, power>>
  PROVE  Announced'
  BY DEF IInv, Announced, covers, power

-----------------------------------------------------------------------------
(* One lemma for each action *)

\* notifyActivation: an actor goes to a release queue, or becomes ready at once.
LEMMA ArrivalStep ==
  ASSUME IInv, NEW t \in Task, Arrival(t)
  PROVE  IInv'
<1> DEFINE tk == [tokens EXCEPT ![t] = @ + 1]
<1>1. /\ t \notin Periodic /\ UNCHANGED <<phase, releaseMethod, power, cpu, thread, wake, firstDelta>>
      /\ ComponentTypes /\ Accounted
  BY DEF Arrival, IInv
<1>2. tk \in [Task -> 0..Capacity] /\ tk[t] > 0 /\ \A u \in Task : u # t => tk[u] = tokens[u]
  BY Parameters DEF Arrival, IInv, ComponentTypes
<1>3. CASE t \in activeTasks
  <2>1. tokens' = tk /\ UNCHANGED <<release, activeTasks, due, releaseEvent, ready>>
    BY <1>3 DEF Arrival
  <2> HIDE DEF tk
  <2>2. Working' /\ Announced'
    BY <1>1, <2>1, WorkingKept, AnnouncedKept
  <2>3. Accounted'
    BY <1>1, <1>2, <2>1 DEF Accounted, ready, cpu
  <2>4. ComponentTypes'
    BY <1>1, <1>2, <2>1 DEF ComponentTypes, ready, cpu, power
  <2> QED  BY <2>2, <2>3, <2>4 DEF IInv
<1>4. CASE t \notin activeTasks /\ enqueued(t)
  <2>1. /\ activeTasks' = activeTasks \cup {t} /\ tokens' = tk
        /\ enqueue(t) /\ UNCHANGED <<release, ready>>
    BY <1>4 DEF Arrival, notifyActivation
  <2> HIDE DEF tk
  <2>2. Working'
    BY <1>1, <2>1, WorkingKept
  <2>3. /\ due' = [due EXCEPT ![t] = nextRelease(t)] /\ nextRelease(t) \in Nat
        /\ due' \in [Task -> {Absent, Late} \cup Nat]
        /\ releaseEvent' \in [Queue -> Notification]
        /\ Announced'
    BY <1>1, <2>1, Enqueue
  <2>4. due'[t] # Absent /\ \A u \in Task : u # t => due'[u] = due[u]
    BY <1>1, <2>3 DEF ComponentTypes, Absent
  <2>5. Accounted'
    BY <1>1, <1>2, <1>4, <2>1, <2>4 DEF Accounted, ready, cpu
  <2>6. ComponentTypes'
    BY <1>1, <1>2, <2>1, <2>3 DEF ComponentTypes, ready, cpu, power
  <2> QED  BY <2>2, <2>3, <2>5, <2>6 DEF IInv
<1>5. CASE t \notin activeTasks /\ ~enqueued(t)
  <2>1. /\ activeTasks' = activeTasks \cup {t}
        /\ schedule(t, tk, scheduler) /\ UNCHANGED <<due, releaseEvent>>
    BY <1>5 DEF Arrival, notifyActivation
  <2> HIDE DEF tk
  <2>2. t \notin readyTasks /\ t # runningTask /\ due[t] = Absent
    BY <1>1, <1>5 DEF Accounted
  <2>3. /\ Working'
        /\ readyTasks' = readyTasks \cup {t} /\ readyTasks' \subseteq Job
        /\ remaining' \in [Job -> Nat]
        /\ scheduleEvent' = DeltaNotify
        /\ tokens' \in [Task -> 0..Capacity] /\ release' \in [Periodic -> Nat]
        /\ \A u \in Task : u # t => tokens'[u] = tk[u]
    BY <1>1, <1>2, <2>1, <2>2, Schedule
  <2>4. Announced'
    BY <1>1, <2>1, AnnouncedKept
  <2>5. Accounted'
    BY <1>1, <1>2, <2>1, <2>2, <2>3 DEF Accounted, cpu
  <2>6. ComponentTypes'
    BY <1>1, <2>1, <2>3 DEF ComponentTypes, cpu, power
  <2> QED  BY <2>3, <2>4, <2>5, <2>6 DEF IInv
<1> QED  BY <1>3, <1>4, <1>5

\* A message hop becomes ready (AbstractComponent::executeHop).
LEMMA MessageStep ==
  ASSUME IInv, NEW m \in Msg, MessageArrival(m)
  PROVE  IInv'
<1>1. /\ m # runningTask /\ m \notin readyTasks /\ addTask(scheduler, m)
      /\ UNCHANGED <<actors, queues, power, cpu, thread, wake, firstDelta>>
      /\ ComponentTypes /\ Accounted
  BY DEF MessageArrival, IInv
<1>2. m \in Job /\ m \notin Task
  BY Parameters
<1>3. /\ Working'
      /\ readyTasks' = readyTasks \cup {m} /\ readyTasks' \subseteq Job
      /\ remaining' \in [Job -> Nat]
      /\ scheduleEvent' = DeltaNotify
  BY <1>1, <1>2, AddTask
<1>4. Announced'
  BY <1>1, AnnouncedKept DEF queues
<1>5. Accounted'
  BY <1>1, <1>2, <1>3 DEF Accounted, actors, queues, cpu
<1>6. ComponentTypes'
  BY <1>1, <1>3 DEF ComponentTypes, actors, queues, cpu, power
<1> QED  BY <1>3, <1>4, <1>5, <1>6 DEF IInv

\* The release method of a component without power asks for power, once.
LEMMA RequestStep ==
  ASSUME IInv, RequestCanExecute
  PROVE  IInv'
<1>1. /\ ~canExecuteTasks /\ requestExecuteTasks' = TRUE
      /\ releaseMethod' = [releaseMethod EXCEPT !["normal"] = "idle"]
      /\ UNCHANGED <<actors, activeTasks, due, releaseEvent, canExecuteTasks, cpu, ready,
                     thread, wake, firstDelta>>
      /\ ComponentTypes /\ Accounted /\ Announced
  BY DEF RequestCanExecute, mayRelease, IInv
<1>2. Working'
  BY <1>1, WorkingKept
<1>3. Accounted'
  BY <1>1 DEF Accounted, actors, cpu, ready
<1>4. ComponentTypes'
  BY <1>1 DEF ComponentTypes, actors, cpu, ready
<1>5. /\ releaseMethod'["normal"] = "idle"
      /\ \A q \in Queue : q # "normal" => releaseMethod'[q] = releaseMethod[q]
  BY <1>1 DEF ComponentTypes, Queue
<1>6. Announced'
  <2>1. ASSUME NEW t \in Task, due'[t] # Absent
        PROVE  \/ releaseMethod'[queueOf(t)] \in {"runnable", "loop"}
               \/ covers(queueOf(t), t)'
               \/ queueOf(t) = "normal" /\ requestExecuteTasks'
    BY <1>1, <1>5, <2>1, QueueOf DEF Announced, covers
  <2> QED  BY <1>1, <1>5, <2>1 DEF Announced
<1> QED  BY <1>2, <1>3, <1>4, <1>6 DEF IInv

\* The release method fires the actor at the top of its queue.
LEMMA ReleaseStep ==
  ASSUME IInv, NEW t \in Task, ReleaseTask(t)
  PROVE  IInv'
<1> DEFINE q == queueOf(t)
<1>1. /\ due[t] # Absent
      /\ due' = [due EXCEPT ![t] = Absent]
      /\ releaseMethod' = [releaseMethod EXCEPT ![q] = "loop"]
      /\ schedule(t, tokens, scheduler)
      /\ UNCHANGED <<phase, activeTasks, releaseEvent, power, cpu, thread, wake, firstDelta>>
      /\ ComponentTypes /\ Accounted /\ Announced /\ q \in Queue
  BY QueueOf DEF ReleaseTask, isDue, IInv, Absent, Late
<1>2. q = "normal" => canExecuteTasks
  BY DEF ReleaseTask, mayRelease, IInv, Announced
<1> HIDE DEF q
<1>3. t \notin readyTasks /\ t # runningTask /\ t \in activeTasks
      /\ (t \notin Periodic => tokens[t] > 0)
  BY <1>1 DEF Accounted
<1>4. /\ Working'
      /\ readyTasks' = readyTasks \cup {t} /\ readyTasks' \subseteq Job
      /\ remaining' \in [Job -> Nat]
      /\ scheduleEvent' = DeltaNotify
      /\ tokens' \in [Task -> 0..Capacity] /\ release' \in [Periodic -> Nat]
      /\ \A u \in Task : u # t => tokens'[u] = tokens[u]
  BY <1>1, <1>3, Schedule DEF ComponentTypes
<1>5. due'[t] = Absent /\ \A u \in Task : u # t => due'[u] = due[u]
  BY <1>1 DEF ComponentTypes
<1>6. Accounted'
  BY <1>1, <1>3, <1>4, <1>5 DEF Accounted, cpu
<1>7. ComponentTypes'
  BY <1>1, <1>4 DEF ComponentTypes, cpu, power
<1>8. releaseMethod'[q] = "loop"
      /\ \A p \in Queue : p # q => releaseMethod'[p] = releaseMethod[p]
  BY <1>1 DEF ComponentTypes
<1>9. Announced'
  <2>1. ASSUME NEW u \in Task, due'[u] # Absent
        PROVE  \/ releaseMethod'[queueOf(u)] \in {"runnable", "loop"}
               \/ covers(queueOf(u), u)'
               \/ queueOf(u) = "normal" /\ requestExecuteTasks'
    BY <1>1, <1>5, <1>8, <2>1, QueueOf DEF Announced, covers, power
  <2>2. (requestExecuteTasks' => ~canExecuteTasks')
        /\ (releaseMethod'["normal"] = "loop" => canExecuteTasks')
    BY <1>1, <1>2, <1>8 DEF Announced, power, Queue
  <2> QED  BY <2>1, <2>2 DEF Announced
<1> QED  BY <1>4, <1>6, <1>7, <1>9 DEF IInv

\* A queue whose event is notified for its top is announced.
LEMMA TopAnnounced ==
  ASSUME IInv, NEW q \in Queue, entries(q) # {}, due' = due,
         releaseEvent' = [releaseEvent EXCEPT ![q] = notifyAt(@, topTime(q))]
  PROVE  /\ releaseEvent' \in [Queue -> Notification]
         /\ \A t \in entries(q) : covers(q, t)'
         /\ \A p \in Queue : p # q => releaseEvent'[p] = releaseEvent[p]
<1> DEFINE d == topTime(q)
           e == notifyAt(releaseEvent[q], d)
<1>1. releaseEvent \in [Queue -> Notification] /\ due \in [Task -> {Absent, Late} \cup Nat]
  BY DEF IInv, ComponentTypes
<1>2. d \in {Late} \cup Nat /\ \A t \in entries(q) : d <= due[t]
  BY <1>1, TopTime
<1> HIDE DEF d
<1>3. e \in Notification /\ (e \in {DeltaNotify, 0} \/ (e \in Nat /\ e <= d))
  BY <1>1, <1>2, NotifyAt
<1>4. releaseEvent' = [releaseEvent EXCEPT ![q] = e]
  BY DEF d
<1> HIDE DEF e
<1>5. releaseEvent'[q] = e
  BY <1>1, <1>4
<1>6. ASSUME NEW t \in entries(q)
      PROVE  covers(q, t)'
  <2>1. due'[t] = due[t] /\ due[t] \in {Late} \cup Nat /\ d <= due[t]
    BY <1>1, <1>2 DEF entries
  <2> QED  BY <1>2, <1>3, <1>5, <2>1 DEF covers, Late
<1> QED  BY <1>1, <1>3, <1>4, <1>6

\* The release method leaves its loop and notifies its event for the next entry.
LEMMA DoneStep ==
  ASSUME IInv, NEW q \in Queue, ReleaseDone(q)
  PROVE  IInv'
<1>1. /\ releaseMethod[q] = "loop"
      /\ releaseMethod' = [releaseMethod EXCEPT ![q] = "idle"]
      /\ UNCHANGED <<actors, activeTasks, due, power, cpu, ready, thread, wake, firstDelta>>
      /\ ComponentTypes /\ Accounted /\ Announced
  BY DEF ReleaseDone, IInv
<1>2. /\ releaseEvent' \in [Queue -> Notification]
      /\ \A t \in entries(q) : covers(q, t)'
      /\ \A p \in Queue : p # q => releaseEvent'[p] = releaseEvent[p]
  <2>1. CASE entries(q) = {} /\ UNCHANGED releaseEvent
    BY <1>1, <2>1 DEF ComponentTypes
  <2>2. CASE /\ entries(q) # {}
             /\ releaseEvent' = [releaseEvent EXCEPT ![q] = notifyAt(@, topTime(q))]
    BY <1>1, <2>2, TopAnnounced
  <2> QED  BY <2>1, <2>2 DEF ReleaseDone
<1>3. Working'
  BY <1>1, WorkingKept
<1>4. Accounted'
  BY <1>1 DEF Accounted, actors, cpu, ready
<1>5. ComponentTypes'
  BY <1>1, <1>2 DEF ComponentTypes, actors, cpu, ready, power
<1>6. releaseMethod'[q] = "idle"
      /\ \A p \in Queue : p # q => releaseMethod'[p] = releaseMethod[p]
  BY <1>1 DEF ComponentTypes
<1>7. Announced'
  <2>1. ASSUME NEW t \in Task, due'[t] # Absent
        PROVE  \/ releaseMethod'[queueOf(t)] \in {"runnable", "loop"}
               \/ covers(queueOf(t), t)'
               \/ queueOf(t) = "normal" /\ requestExecuteTasks'
    <3>1. CASE queueOf(t) = q
      BY <1>1, <1>2, <2>1, <3>1 DEF entries
    <3>2. CASE queueOf(t) # q
      BY <1>1, <1>2, <1>6, <2>1, <3>2, QueueOf DEF Announced, covers, power
    <3> QED  BY <3>1, <3>2
  <2>2. (requestExecuteTasks' => ~canExecuteTasks')
        /\ (releaseMethod'["normal"] = "loop" => canExecuteTasks')
    BY <1>1, <1>6 DEF Announced, power, Queue
  <2> QED  BY <2>1, <2>2 DEF Announced
<1> QED  BY <1>3, <1>4, <1>5, <1>7 DEF IInv

\* setCanExec(true): what came due without power is announced again.
LEMMA PowerUpStep ==
  ASSUME IInv, PowerUp
  PROVE  IInv'
<1>1. /\ canExecuteTasks' = TRUE /\ requestExecuteTasks' = FALSE
      /\ releaseEvent' = IF entries("normal") = {} THEN releaseEvent
                         ELSE [releaseEvent EXCEPT !["normal"] = notifyAt(@, topTime("normal"))]
      /\ scheduleEvent' = NoNotify /\ thread' = "runnable" /\ wake' = NoNotify
      /\ UNCHANGED <<actors, activeTasks, due, releaseMethod, cpu, readyTasks, remaining,
                     scheduler, firstDelta>>
      /\ thread # "decide"
      /\ ComponentTypes /\ Accounted /\ Announced /\ Working
  BY DEF PowerUp, reactivateExecution, Evaluating, IInv
<1>2. /\ releaseEvent' \in [Queue -> Notification]
      /\ \A t \in entries("normal") : covers("normal", t)'
      /\ \A p \in Queue : p # "normal" => releaseEvent'[p] = releaseEvent[p]
  <2>1. "normal" \in Queue
    BY DEF Queue
  <2>2. CASE entries("normal") = {}
    BY <1>1, <2>2 DEF ComponentTypes
  <2>3. CASE entries("normal") # {}
    BY <1>1, <2>1, <2>3, TopAnnounced
  <2> QED  BY <2>2, <2>3
<1>3. Working'
  <2>1. Consistent'
    BY <1>1 DEF Working, Consistent, cpu
  <2>2. Served'
    BY <1>1 DEF Working, Served, left, cpu
  <2> QED  BY <1>1, <2>1, <2>2 DEF Working, Woken, Ordered, Sliced, Undisturbed
<1>4. Accounted'
  BY <1>1 DEF Accounted, actors, cpu
<1>5. ComponentTypes'
  BY <1>1, <1>2 DEF ComponentTypes, actors, cpu, Notification
<1>6. Announced'
  <2>1. ASSUME NEW t \in Task, due'[t] # Absent
        PROVE  \/ releaseMethod'[queueOf(t)] \in {"runnable", "loop"}
               \/ covers(queueOf(t), t)'
    <3>1. CASE queueOf(t) = "normal"
      BY <1>1, <1>2, <2>1, <3>1 DEF entries
    <3>2. CASE queueOf(t) # "normal"
      BY <1>1, <1>2, <2>1, <3>2, QueueOf DEF Announced, covers
    <3> QED  BY <3>1, <3>2
  <2> QED  BY <1>1, <2>1 DEF Announced
<1> QED  BY <1>3, <1>4, <1>5, <1>6 DEF IInv

\* setCanExec(false), which is possible when nothing is ready or running.
LEMMA PowerDownStep ==
  ASSUME IInv, PowerDown
  PROVE  IInv'
<1>1. /\ canExecuteTasks' = FALSE
      /\ UNCHANGED <<actors, queues, requestExecuteTasks, cpu, ready, thread, wake, firstDelta>>
      /\ releaseMethod["normal"] # "loop"
      /\ ComponentTypes /\ Accounted /\ Announced
  BY DEF PowerDown, Evaluating, IInv, Queue
<1>2. Working'
  BY <1>1, WorkingKept
<1>3. Accounted'
  BY <1>1 DEF Accounted, actors, queues, cpu, ready
<1>4. ComponentTypes'
  BY <1>1 DEF ComponentTypes, actors, queues, cpu, ready
<1>5. Announced'
  BY <1>1 DEF Announced, covers, queues
<1> QED  BY <1>2, <1>3, <1>4, <1>5 DEF IInv

\* scheduleThread goes on: the running task is charged for the time it ran.
LEMMA RanStep ==
  ASSUME IInv, RanTask
  PROVE  IInv'
<1>1. /\ thread = "runnable" /\ ran' = 0 /\ thread' = "decide"
      /\ UNCHANGED <<actors, queues, power, runningTask, readyTasks, scheduler,
                     scheduleEvent, wake, firstDelta>>
      /\ ComponentTypes /\ Accounted /\ Working
  BY DEF RanTask, IInv
<1>2. /\ remaining' \in [Job -> Nat]
      /\ \A j \in Job : j # runningTask => remaining'[j] = remaining[j]
      /\ runningTask # NoTask => remaining'[runningTask] > 0
  <2>1. CASE runningTask = NoTask /\ UNCHANGED remaining
    BY <1>1, <2>1 DEF ComponentTypes
  <2>2. CASE /\ runningTask # NoTask /\ left > 0
             /\ remaining' = [remaining EXCEPT ![runningTask] = left]
    <3>1. left \in Nat /\ runningTask \in Job
      BY <1>1, <2>2 DEF ComponentTypes, left
    <3> HIDE DEF left
    <3> QED  BY <1>1, <2>2, <3>1 DEF ComponentTypes
  <2> QED  BY <2>1, <2>2 DEF RanTask
<1>3. Working'
  <2>1. Consistent'
    BY <1>1 DEF Working, Consistent
  <2>2. Served'
    <3>1. \A j \in readyTasks : remaining'[j] > 0
      BY <1>1, <1>2 DEF Working, Served, Accounted, ComponentTypes
    <3>2. runningTask # NoTask => remaining'[runningTask] \in Nat
      BY <1>1, <1>2 DEF ComponentTypes
    <3> QED  BY <1>1, <1>2, <3>1, <3>2 DEF Served, left
  <2> QED  BY <1>1, <2>1, <2>2 DEF Working, Woken, Ordered, Sliced, Undisturbed
<1>4. Announced'
  BY <1>1, AnnouncedKept DEF queues
<1>5. Accounted'
  BY <1>1 DEF Accounted, actors, queues
<1>6. ComponentTypes'
  BY <1>1, <1>2 DEF ComponentTypes, actors, queues, power
<1> QED  BY <1>3, <1>4, <1>5, <1>6 DEF IInv

\* The running task finishes: it is removed from the scheduler and may be active
\* again at once.
LEMMA FinishStep ==
  ASSUME IInv, FinishTask
  PROVE  IInv'
<1> DEFINE r == runningTask
           s == removedTask(scheduler, r)
<1>1. /\ thread = "runnable" /\ thread' = "decide"
      /\ r # NoTask /\ r \in Job /\ r \notin readyTasks
      /\ runningTask' = NoTask /\ ran' = 0
      /\ UNCHANGED <<phase, releaseMethod, power, wake, firstDelta>>
      /\ ComponentTypes /\ Accounted /\ Working
  BY DEF FinishTask, IInv, Accounted, ComponentTypes
<1>2. Held(s, readyTasks, NoTask) /\ s.class \in Policies
  <2>1. scheduler.class \in Policies /\ Held(scheduler, readyTasks, r)
    BY <1>1 DEF Working, Consistent
  <2> HIDE DEF r
  <2>2. Held(s, readyTasks, NoTask) /\ s.class = scheduler.class
    BY <1>1, <2>1, SchedulerAssumption, HeldRemoved
  <2> QED  BY <2>1, <2>2
<1> HIDE DEF s
<1>3. ASSUME \A j \in readyTasks' : remaining'[j] > 0, Consistent'
      PROVE  Working'
  BY <1>1, <1>3 DEF Working, Served, Woken, Ordered, Sliced, Undisturbed
<1>4. \A j \in readyTasks : remaining[j] > 0
  BY <1>1 DEF Working, Served
<1>5. CASE r \notin Task
  <2>1. /\ scheduler' = s
        /\ UNCHANGED <<tokens, release, activeTasks, due, releaseEvent, readyTasks,
                       remaining, scheduleEvent>>
    BY <1>5 DEF FinishTask, s
  <2>2. Working'
    BY <1>1, <1>2, <1>3, <1>4, <2>1 DEF Consistent
  <2>3. Announced'
    BY <1>1, <2>1, AnnouncedKept
  <2>4. Accounted'
    BY <1>1, <1>5, <2>1, Parameters DEF Accounted, ComponentTypes
  <2>5. ComponentTypes'
    BY <1>1, <2>1 DEF ComponentTypes, power
  <2> QED  BY <2>2, <2>3, <2>4, <2>5 DEF IInv
<1>6. CASE r \in Task /\ canFire(r)
  <2>1. /\ schedule(r, tokens, s) /\ UNCHANGED <<activeTasks, due, releaseEvent>>
    BY <1>6 DEF FinishTask, reactivate, s
  <2>2. /\ readyTasks' = readyTasks \cup {r}
        /\ remaining' = [remaining EXCEPT ![r] = Delay[r]]
        /\ scheduler' = addedNewTask(s, r)
        /\ scheduleEvent' = DeltaNotify
    BY <2>1 DEF schedule, addTask
  <2>3. /\ remaining' \in [Job -> Nat]
        /\ \A j \in readyTasks' : remaining'[j] > 0
    BY <1>1, <1>4, <2>2, Parameters DEF ComponentTypes
  <2>4. Consistent'
    <3>1. /\ Held(addedNewTask(s, r), readyTasks \cup {r}, NoTask)
          /\ addedNewTask(s, r).class = s.class
      BY <1>1, <1>2, SchedulerAssumption, HeldAdded
    <3> QED  BY <1>1, <1>2, <2>2, <3>1 DEF Consistent
  <2>5. Working'
    BY <1>3, <2>3, <2>4
  <2>6. Announced'
    BY <1>1, <2>1, AnnouncedKept
  <2>7. /\ tokens' \in [Task -> 0..Capacity]
        /\ release' \in [Periodic -> Nat]
        /\ \A u \in Task : u # r => tokens'[u] = tokens[u]
    <3>1. r \notin Periodic => tokens[r] > 0
      BY <1>6 DEF canFire
    <3> HIDE DEF r
    <3> QED  BY <1>1, <1>6, <2>1, <3>1, Parameters DEF schedule, ComponentTypes
  <2>8. Accounted'
    BY <1>1, <1>6, <2>1, <2>2, <2>7, Parameters DEF Accounted, ComponentTypes
  <2>9. ComponentTypes'
    BY <1>1, <2>1, <2>2, <2>3, <2>7 DEF ComponentTypes, power
  <2> QED  BY <2>5, <2>6, <2>8, <2>9 DEF IInv
<1>7. CASE r \in Task /\ ~canFire(r) /\ r \in Periodic
  <2>1. /\ scheduler' = s /\ enqueue(r) /\ UNCHANGED activeTasks
        /\ UNCHANGED <<tokens, release, readyTasks, remaining, scheduleEvent>>
    BY <1>7 DEF FinishTask, reactivate, s
  <2>2. Working'
    BY <1>1, <1>2, <1>3, <1>4, <2>1 DEF Consistent
  <2>3. /\ due' = [due EXCEPT ![r] = nextRelease(r)] /\ nextRelease(r) \in Nat
        /\ due' \in [Task -> {Absent, Late} \cup Nat]
        /\ releaseEvent' \in [Queue -> Notification]
        /\ Announced'
    BY <1>1, <1>7, <2>1, Enqueue
  <2>4. due'[r] # Absent /\ \A u \in Task : u # r => due'[u] = due[u]
    BY <1>1, <1>7, <2>3 DEF ComponentTypes, Absent
  <2>5. Accounted'
    BY <1>1, <1>7, <2>1, <2>4, Parameters DEF Accounted, ComponentTypes
  <2>6. ComponentTypes'
    BY <1>1, <2>1, <2>3 DEF ComponentTypes, power
  <2> QED  BY <2>2, <2>3, <2>5, <2>6 DEF IInv
<1>8. CASE r \in Task /\ ~canFire(r) /\ r \notin Periodic
  <2>1. /\ scheduler' = s /\ activeTasks' = activeTasks \ {r} /\ UNCHANGED <<due, releaseEvent>>
        /\ UNCHANGED <<tokens, release, readyTasks, remaining, scheduleEvent>>
    BY <1>8 DEF FinishTask, reactivate, s
  <2>2. Working'
    BY <1>1, <1>2, <1>3, <1>4, <2>1 DEF Consistent
  <2>3. Announced'
    BY <1>1, <2>1, AnnouncedKept
  <2>4. Accounted'
    BY <1>1, <1>8, <2>1, Parameters DEF Accounted, ComponentTypes
  <2>5. ComponentTypes'
    BY <1>1, <2>1 DEF ComponentTypes, power
  <2> QED  BY <2>2, <2>3, <2>4, <2>5 DEF IInv
<1> QED  BY <1>5, <1>6, <1>7, <1>8

\* A decision of the scheduler, as the lemmas on schedulers speak of it.
LEMMA Decision ==
  ASSUME IInv, Decide
  PROVE  \E d \in schedulingDecision(scheduler, readyTasks, runningTask),
            slice \in {NoSlice} \cup Nat :
           /\ Sound(d, readyTasks, runningTask)
           /\ readyTasks' = readyAfter(d, readyTasks)
           /\ runningTask' = runningAfter(d, runningTask)
           /\ scheduler' = d.state /\ wake' = waitTime(runningTask', slice)
           /\ Held(scheduler', readyTasks', runningTask') /\ scheduler'.class = scheduler.class
           /\ slice = NoSlice => runningTask' # NoTask \/ readyTasks' = {}
           /\ scheduler.class = "PRIORITY" =>
                \A j \in readyTasks' :
                  runningTask' # NoTask /\ Priority[runningTask'] <= Priority[j]
           /\ scheduler.class = "ROUNDROBIN" /\ readyTasks' # {} =>
                /\ runningTask' # NoTask
                /\ scheduler'.expires \in Nat \ {0} /\ slice = scheduler'.expires
           /\ (scheduler.class # "TDMA" => Fits(scheduler, runningTask))
                 /\ runningTask' # NoTask =>
                /\ Fits(scheduler', runningTask')
                /\ inStatic(scheduler') => slice \in Nat /\ slice = restOf(scheduler')
<1> DEFINE R == readyTasks
           r == runningTask
<1>1. PICK d \in schedulingDecision(scheduler, R, r) :
        /\ sliceAssertion(d.state, offered(d, R), kept(d, r))
        /\ scheduler' = d.state
        /\ runningTask' = runningAfter(d, r)
        /\ readyTasks' = readyAfter(d, R)
        /\ wake' = waitTime(runningTask', getSchedulerTimeSlice(d.state, offered(d, R), kept(d, r)))
  BY DEF Decide, offered, kept, readyAfter, runningAfter, resignTaskInstance
<1> DEFINE slice == getSchedulerTimeSlice(d.state, offered(d, R), kept(d, r))
<1>2. Instances(R, r) /\ Held(scheduler, R, r) /\ decisionAssertion(scheduler, r)
  BY DEF Instances, Decide, IInv, ComponentTypes, Accounted, Working, Consistent
<1> HIDE DEF R, r
<1>a. slice = getSchedulerTimeSlice(d.state, offered(d, R), kept(d, r))
  OBVIOUS
<1> HIDE DEF slice
<1>b. d \in schedulingDecision(scheduler, R, r)
      /\ sliceAssertion(d.state, offered(d, R), kept(d, r))
  BY <1>1
<1>3. /\ Sound(d, R, r)
      /\ Held(d.state, readyAfter(d, R), runningAfter(d, r))
      /\ Timed(slice, d, R, r)
      /\ d.state.class = scheduler.class
      /\ scheduler.class = "PRIORITY" =>
           \A k \in readyAfter(d, R) :
             /\ runningAfter(d, r) # NoTask
             /\ Priority[runningAfter(d, r)] <= Priority[k]
      /\ scheduler.class = "ROUNDROBIN" /\ readyAfter(d, R) # {} =>
           /\ runningAfter(d, r) # NoTask
           /\ d.state.expires \in Nat \ {0} /\ slice = d.state.expires
  BY <1>b, <1>2, <1>a, HeldDecides
<1>4. slice \in {NoSlice} \cup Nat
      /\ (slice = NoSlice => runningAfter(d, r) # NoTask \/ readyAfter(d, R) = {})
  BY <1>3 DEF Timed, readyAfter
<1>5. wake' = waitTime(runningTask', slice)
  BY <1>1 DEF slice
<1>6. (scheduler.class # "TDMA" => Fits(scheduler, r)) /\ runningAfter(d, r) # NoTask =>
        /\ Fits(d.state, runningAfter(d, r))
        /\ inStatic(d.state) => slice \in Nat /\ slice = restOf(d.state)
  BY <1>b, <1>2, <1>a, FitsDecides
<1> QED  BY <1>1, <1>3, <1>4, <1>5, <1>6 DEF R, r

\* scheduleThread asks for a decision and a time slice and waits.
LEMMA DecideStep ==
  ASSUME IInv, Decide
  PROVE  IInv'
<1> DEFINE R == readyTasks
           r == runningTask
<1>1. PICK d \in schedulingDecision(scheduler, R, r), slice \in {NoSlice} \cup Nat :
        /\ Sound(d, R, r)
        /\ readyTasks' = readyAfter(d, R)
        /\ runningTask' = runningAfter(d, r)
        /\ wake' = waitTime(runningTask', slice)
        /\ Held(scheduler', readyTasks', runningTask') /\ scheduler'.class = scheduler.class
        /\ slice = NoSlice => runningTask' # NoTask \/ readyTasks' = {}
        /\ scheduler.class = "PRIORITY" =>
             \A j \in readyTasks' :
               runningTask' # NoTask /\ Priority[runningTask'] <= Priority[j]
        /\ scheduler.class = "ROUNDROBIN" /\ readyTasks' # {} =>
             /\ runningTask' # NoTask
             /\ scheduler'.expires \in Nat \ {0} /\ slice = scheduler'.expires
  BY Decision
<1>2. /\ thread = "decide" /\ thread' = "waiting"
      /\ UNCHANGED <<actors, queues, power, ran, remaining, scheduleEvent, firstDelta>>
      /\ ComponentTypes /\ Accounted /\ Working /\ Instances(R, r)
  BY DEF Decide, IInv, Instances, ComponentTypes, Accounted
<1>3. /\ Instances(readyTasks', runningTask')
      /\ current(readyTasks', runningTask') = current(R, r)
  <2>1. Instances(readyAfter(d, R), runningAfter(d, r))
    BY <1>1, <1>2, Parameters DEF Sound, Instances, readyAfter, runningAfter, offered, kept
  <2>2. current(readyAfter(d, R), runningAfter(d, r)) = current(R, r)
    BY <1>1, <1>2, Parameters, CurrentKept
  <2> QED  BY <1>1, <2>1, <2>2
<1>4. ASSUME NEW j \in Job
      PROVE  j \in readyTasks' \/ j = runningTask' <=> j \in readyTasks \/ j = runningTask
  BY <1>3, Parameters DEF current
<1>5. ran = 0 /\ \A j \in current(R, r) : remaining[j] > 0
  BY <1>2 DEF Working, Served, current
<1>6. /\ wake' \in Notification
      /\ wake' = NoNotify => runningTask' = NoTask /\ slice = NoSlice
      /\ runningTask' # NoTask /\ wake' # DeltaNotify => wake' \in 1..remaining[runningTask']
      /\ slice # NoSlice /\ wake' # DeltaNotify => wake' \in 1..slice
      /\ runningTask' # NoTask /\ remaining[runningTask'] > 0 /\ slice \in Nat \ {0} =>
           wake' # DeltaNotify
  <2>1. runningTask' \in Job \cup {NoTask}
    BY <1>3 DEF Instances
  <2> QED  BY <1>1, <1>2, <2>1, WaitTime
<1>7. runningTask' # NoTask => remaining[runningTask'] > 0 /\ runningTask' \in Job
  BY <1>3, <1>5 DEF current, Instances
<1>8. Working'
  <2>1. Consistent'
    BY <1>1, <1>2 DEF Working, Consistent
  <2>2. Served'
    <3>1. \A j \in readyTasks' : remaining[j] > 0
      BY <1>3, <1>5, Parameters DEF current, Instances
    <3>2. runningTask' # NoTask => left' = remaining[runningTask']
      BY <1>2, <1>5, <1>7 DEF left, ComponentTypes
    <3> QED  BY <1>2, <1>5, <1>6, <1>7, <3>1, <3>2 DEF Served, ComponentTypes
  <2>3. Woken'
    BY <1>1, <1>6 DEF Woken
  <2>4. Ordered'
    BY <1>1 DEF Ordered
  <2>5. Sliced'
    BY <1>1, <1>6, <1>7 DEF Sliced, NoSlice
  <2> QED  BY <2>1, <2>2, <2>3, <2>4, <2>5 DEF Working
<1>9. Accounted'
  BY <1>2, <1>3, <1>4, Parameters DEF Accounted, actors, queues, Instances
<1>10. Announced'
  BY <1>2, AnnouncedKept DEF queues
<1>11. ComponentTypes'
  BY <1>2, <1>3, <1>6 DEF ComponentTypes, actors, queues, power, Instances
<1> QED  BY <1>8, <1>9, <1>10, <1>11 DEF IInv

\* A delta cycle wakes the processes whose events are due.
LEMMA DeltaStep ==
  ASSUME IInv, DeltaCycle
  PROVE  IInv'
<1>1. /\ releaseMethod' = [q \in Queue |->
           IF releaseEvent[q] = DeltaNotify THEN "runnable" ELSE releaseMethod[q]]
      /\ releaseEvent' = [q \in Queue |->
           IF releaseEvent[q] = DeltaNotify THEN NoNotify ELSE releaseEvent[q]]
      /\ \/ thread' = "runnable" /\ wake' = NoNotify
         \/ UNCHANGED <<thread, wake>> /\ scheduleEvent # DeltaNotify /\ wake # DeltaNotify
      /\ scheduleEvent' = NoNotify
      /\ UNCHANGED <<actors, activeTasks, due, power, cpu, readyTasks, remaining, scheduler>>
      /\ firstDelta' = FALSE /\ thread = "waiting"
      /\ ComponentTypes /\ Accounted /\ Announced /\ Working
  BY DEF DeltaCycle, Quiet, IInv
<1>2. Working'
  <2>1. Consistent'
    BY <1>1 DEF Working, Consistent, cpu
  <2>2. Served'
    BY <1>1 DEF Working, Served, left, cpu
  <2>3. CASE thread' = "runnable"
    BY <2>1, <2>2, <2>3 DEF Working, Woken, Ordered, Sliced, Undisturbed
  <2>4. CASE UNCHANGED <<thread, wake>> /\ scheduleEvent # DeltaNotify
    <3>1. Undisturbed
      BY <1>1, <2>4 DEF Undisturbed, ComponentTypes
    <3> QED  BY <1>1, <2>1, <2>2, <2>4, <3>1 DEF Working, Woken, Ordered, Sliced, cpu
  <2> QED  BY <1>1, <2>3, <2>4
<1>3. Accounted'
  BY <1>1 DEF Accounted, actors, cpu
<1>4. ComponentTypes'
  BY <1>1 DEF ComponentTypes, actors, cpu, power, Notification
<1>5. Announced'
  <2>1. ASSUME NEW t \in Task, due'[t] # Absent
        PROVE  \/ releaseMethod'[queueOf(t)] \in {"runnable", "loop"}
               \/ covers(queueOf(t), t)'
               \/ queueOf(t) = "normal" /\ requestExecuteTasks'
    BY <1>1, <2>1, QueueOf DEF Announced, covers, power
  <2>2. (requestExecuteTasks' => ~canExecuteTasks')
        /\ (releaseMethod'["normal"] = "loop" => canExecuteTasks')
    BY <1>1 DEF Announced, power, Queue
  <2> QED  BY <2>1, <2>2 DEF Announced
<1> QED  BY <1>2, <1>3, <1>4, <1>5 DEF IInv

\* An event that was notified for a time that has passed.
LEMMA LateStep ==
  ASSUME IInv, NEW q \in Queue, LateNotification(q)
  PROVE  IInv'
<1>1. /\ releaseEvent' = [releaseEvent EXCEPT ![q] = NoNotify]
      /\ releaseMethod' = [releaseMethod EXCEPT ![q] = "runnable"]
      /\ UNCHANGED <<actors, activeTasks, due, power, cpu, ready, thread, wake, firstDelta>>
      /\ ComponentTypes /\ Accounted /\ Announced
  BY DEF LateNotification, IInv
<1>2. Working'
  BY <1>1, WorkingKept
<1>3. Accounted'
  BY <1>1 DEF Accounted, actors, cpu, ready
<1>4. ComponentTypes'
  BY <1>1 DEF ComponentTypes, actors, cpu, power, ready, Notification
<1>5. releaseMethod'[q] = "runnable"
      /\ \A p \in Queue : p # q => releaseMethod'[p] = releaseMethod[p]
                                 /\ releaseEvent'[p] = releaseEvent[p]
  BY <1>1 DEF ComponentTypes
<1>6. Announced'
  <2>1. ASSUME NEW t \in Task, due'[t] # Absent
        PROVE  \/ releaseMethod'[queueOf(t)] \in {"runnable", "loop"}
               \/ covers(queueOf(t), t)'
               \/ queueOf(t) = "normal" /\ requestExecuteTasks'
    BY <1>1, <1>5, <2>1, QueueOf DEF Announced, covers, power
  <2>2. (requestExecuteTasks' => ~canExecuteTasks')
        /\ (releaseMethod'["normal"] = "loop" => canExecuteTasks')
    BY <1>1, <1>5 DEF Announced, power, Queue
  <2> QED  BY <2>1, <2>2 DEF Announced
<1> QED  BY <1>2, <1>3, <1>4, <1>6 DEF IInv

\* Time passes, for the events, the running task and the scheduler alike.
LEMMA AdvanceStep ==
  ASSUME IInv, AdvanceTime
  PROVE  IInv'
<1> DEFINE elapse(n) == IF n > 0 THEN n - 1 ELSE n
<1>1. /\ thread = "waiting" /\ scheduleEvent = NoNotify /\ wake # DeltaNotify
      /\ \A q \in Queue : releaseMethod[q] = "idle" /\ releaseEvent[q] \notin {DeltaNotify, 0}
      /\ ComponentTypes /\ Accounted /\ Announced /\ Working
  BY DEF AdvanceTime, Quiet, DeltaPending, IInv, ComponentTypes
<1>2. /\ release' = [t \in Periodic |-> elapse(release[t])]
      /\ phase' = [t \in Periodic |-> IF phase[t] = 1 THEN Period[t] ELSE phase[t] - 1]
      /\ due' = [t \in Task |-> IF due[t] = 0 THEN Late ELSE elapse(due[t])]
      /\ releaseEvent' = [q \in Queue |->
           IF releaseEvent[q] = 1 THEN NoNotify ELSE elapse(releaseEvent[q])]
      /\ wake' = IF wake = 1 THEN NoNotify ELSE elapse(wake)
      /\ releaseMethod' = [q \in Queue |->
           IF releaseEvent[q] = 1 THEN "runnable" ELSE releaseMethod[q]]
      /\ thread' = IF wake = 1 THEN "runnable" ELSE thread
      /\ ran' = IF runningTask = NoTask THEN 0 ELSE ran + 1
      /\ scheduler' = elapsed(scheduler)
      /\ firstDelta' = TRUE
      /\ UNCHANGED <<tokens, activeTasks, power, runningTask, readyTasks, remaining, scheduleEvent>>
  BY DEF AdvanceTime
<1>3. /\ \A t \in Task : due'[t] # Absent <=> due[t] # Absent
      /\ due' \in [Task -> {Absent, Late} \cup Nat]
      /\ \A t \in Task : due[t] \in Nat \ {0} => due'[t] = due[t] - 1
  BY <1>1, <1>2 DEF ComponentTypes, Absent, Late
<1>4. /\ wake \in Nat \ {0} /\ wake # 1 => wake' = wake - 1 /\ wake' \in Nat \ {0}
      /\ wake \in {NoNotify, 0} => wake' = wake
      /\ wake' \in Notification
  BY <1>1, <1>2 DEF ComponentTypes, Notification, NoNotify, DeltaNotify
<1>5. Held(scheduler', readyTasks, runningTask) /\ scheduler'.class = scheduler.class
  <2>1. Held(scheduler, readyTasks, runningTask)
    BY <1>1 DEF Working, Consistent
  <2> QED  BY <1>2, <2>1, SchedulerAssumption, HeldElapsed
<1>6. Working'
  <2>1. Consistent'
    BY <1>1, <1>2, <1>5 DEF Working, Consistent
  <2>2. Served'
    <3>1. \A j \in readyTasks' : remaining'[j] > 0
      BY <1>1, <1>2 DEF Working, Served
    <3>2. CASE runningTask = NoTask
      BY <1>1, <1>2, <3>1, <3>2 DEF Served
    <3>3. CASE runningTask # NoTask
      <4>1. wake \in 1..left /\ remaining[runningTask] > 0 /\ left \in Int
        BY <1>1, <3>3 DEF Working, Served, ComponentTypes, left
      <4>2. left' = left - 1
        BY <1>1, <1>2, <3>3 DEF left, ComponentTypes
      <4> HIDE DEF left
      <4>3. left' >= 0 /\ (thread' = "waiting" => wake' \in 1..left')
        BY <1>2, <1>4, <4>1, <4>2
      <4> QED  BY <1>1, <1>2, <3>1, <3>3, <4>1, <4>3 DEF Served
    <3> QED  BY <3>2, <3>3
  <2>3. Woken'
    BY <1>1, <1>2, <1>4 DEF Working, Woken, Undisturbed, ComponentTypes, Notification, NoNotify
  <2>4. Ordered'
    BY <1>1, <1>2, <1>5 DEF Working, Ordered, Undisturbed
  <2>5. Sliced'
    <3>1. SUFFICES ASSUME scheduler.class = "ROUNDROBIN", thread' = "waiting", readyTasks # {}
                   PROVE  runningTask # NoTask /\ wake' \in 1..scheduler'.expires
      BY <1>2, <1>5 DEF Sliced, Undisturbed
    <3>2. runningTask # NoTask /\ wake \in 1..scheduler.expires
      BY <1>1, <3>1 DEF Working, Sliced, Undisturbed
    <3>3. scheduler \in Rr!State
      BY <1>1, <3>1 DEF Working, Consistent, Held, RrHeld
    <3>4. scheduler'.expires = scheduler.expires - 1 /\ scheduler.expires \in Int
      <4>1. scheduler' = Rr!elapsed(scheduler)
        BY <1>2, <3>1 DEF elapsed
      <4>2. scheduler.expires \in {-1} \cup Nat
        BY <3>3 DEF Rr!State, Rr!Passed
      <4>3. scheduler.expires # -1
        BY <3>2, <4>2
      <4> QED  BY <3>3, <4>1, <4>2, <4>3 DEF Rr!elapsed, Rr!State, Rr!Passed
    <3>5. wake # 1
      BY <1>2, <3>1
    <3> QED  BY <1>4, <3>2, <3>4, <3>5
  <2> QED  BY <2>1, <2>2, <2>3, <2>4, <2>5 DEF Working
<1>7. Accounted'
  BY <1>1, <1>2, <1>3 DEF Accounted
<1>8. ComponentTypes'
  <2>1. release' \in [Periodic -> Nat] /\ phase' \in [Periodic -> Nat \ {0}]
    BY <1>1, <1>2, Parameters DEF ComponentTypes
  <2>2. releaseEvent' \in [Queue -> Notification]
    BY <1>1, <1>2 DEF ComponentTypes, Notification, NoNotify, DeltaNotify
  <2>3. /\ releaseMethod' \in [Queue -> {"idle", "runnable", "loop"}]
        /\ thread' \in {"runnable", "decide", "waiting"} /\ ran' \in Nat
    BY <1>1, <1>2 DEF ComponentTypes
  <2> QED  BY <1>1, <1>2, <1>3, <1>4, <2>1, <2>2, <2>3 DEF ComponentTypes, power
<1>9. Announced'
  <2>1. ASSUME NEW t \in Task, due'[t] # Absent, covers(queueOf(t), t)
        PROVE  releaseMethod'[queueOf(t)] = "runnable" \/ covers(queueOf(t), t)'
    <3> DEFINE q == queueOf(t)
               e == releaseEvent[q]
    <3>1. q \in Queue
      BY QueueOf
    <3> HIDE DEF q
    <3>2. e \in Nat \ {0} /\ e <= due[t]
      BY <1>1, <2>1, <3>1 DEF covers, q
    <3>3. CASE e = 1
      BY <1>2, <3>1, <3>3 DEF q
    <3>4. CASE e # 1
      <4>1. due[t] \in Nat \ {0}
        BY <1>1, <3>2 DEF ComponentTypes, Absent, Late
      <4>2. due'[t] = due[t] - 1 /\ releaseEvent'[q] = e - 1
        BY <1>2, <1>3, <3>1, <3>2, <3>4, <4>1
      <4> QED  BY <3>2, <3>4, <4>1, <4>2 DEF covers, q
    <3> QED  BY <3>3, <3>4
  <2>2. ASSUME NEW t \in Task, due'[t] # Absent
        PROVE  \/ releaseMethod'[queueOf(t)] \in {"runnable", "loop"}
               \/ covers(queueOf(t), t)'
               \/ queueOf(t) = "normal" /\ requestExecuteTasks'
    BY <1>1, <1>2, <1>3, <2>1, <2>2, QueueOf DEF Announced, power
  <2>3. (requestExecuteTasks' => ~canExecuteTasks')
        /\ (releaseMethod'["normal"] = "loop" => canExecuteTasks')
    BY <1>1, <1>2 DEF Announced, power, Queue
  <2> QED  BY <2>2, <2>3 DEF Announced
<1> QED  BY <1>6, <1>7, <1>8, <1>9 DEF IInv

-----------------------------------------------------------------------------
(* The invariant of the component *)

\* The invariant of the component, with each of the eight schedulers and for any
\* tasks, messages, periods, delays and times of power.
THEOREM Invariance == Spec => []IInv
<1>1. IInv /\ [Next]_vars => IInv'
  <2> SUFFICES ASSUME IInv, [Next]_vars
               PROVE  IInv'
    OBVIOUS
  <2>1. CASE \E t \in Task : Arrival(t)
    BY <2>1, ArrivalStep
  <2>2. CASE \E m \in Msg : MessageArrival(m)
    BY <2>2, MessageStep
  <2>3. CASE Release
    BY <2>3, RequestStep, ReleaseStep, DoneStep DEF Release
  <2>4. CASE PowerUp \/ PowerDown
    BY <2>4, PowerUpStep, PowerDownStep
  <2>5. CASE Thread
    BY <2>5, RanStep, FinishStep, DecideStep DEF Thread
  <2>6. CASE DeltaCycle \/ AdvanceTime
    BY <2>6, DeltaStep, AdvanceStep
  <2>7. CASE \E q \in Queue : LateNotification(q)
    BY <2>7, LateStep
  <2>8. CASE UNCHANGED vars
    <3>1. Working' /\ Announced'
      BY <2>8, WorkingKept, AnnouncedKept DEF vars, queues
    <3>2. Accounted' /\ ComponentTypes'
      BY <2>8 DEF IInv, Accounted, ComponentTypes, vars, actors, queues, power, cpu, ready
    <3> QED  BY <3>1, <3>2 DEF IInv
  <2> QED  BY <2>1, <2>2, <2>3, <2>4, <2>5, <2>6, <2>7, <2>8 DEF Next
<1> QED  BY Initially, <1>1, PTL DEF Spec

\* What a scheduler holds includes its type; for FlexRay it does without the
\* bounds on its counters that rest on the times at which it is called.
LEMMA HeldTyped ==
  ASSUME NEW s, NEW R, NEW r, Held(s, R, r), s.class # "FLEXRAY"
  PROVE  schedulerTypeOK(s)
  BY DEF Held, schedulerTypeOK, PrioHeld, RrHeld, ShaperHeld, AvbHeld, MostHeld, TdmaHeld,
         TtccHeld

\* The type invariant, bounds on credits and clocks included, with all schedulers
\* but FlexRay, whose bounds are only model-checked.
THEOREM TypeCorrectness ==
  ASSUME "FLEXRAY" \notin Policies
  PROVE  Spec => []TypeOK
<1>1. IInv => TypeOK
  BY HeldTyped DEF IInv, ComponentTypes, Working, Consistent, TypeOK
<1> QED  BY Invariance, <1>1, PTL

\* A task is in activeTasks exactly while it is in a release queue, ready or
\* running: notifyActivation (PreemptiveComponent.cpp:78) drops no activation
\* and renews none twice.
THEOREM EveryTaskAccounted == Spec => []ActiveTasksAccounted
<1>1. ASSUME IInv
      PROVE  ActiveTasksAccounted
  <2>1. ASSUME NEW t \in Task
        PROVE  /\ t \in activeTasks => \E s \in stations(t) : stations(t) = {s}
               /\ t \notin activeTasks => stations(t) = {}
    <3>1. /\ due[t] # Absent => t \notin readyTasks /\ t # runningTask
          /\ t \in activeTasks <=> due[t] # Absent \/ t \in readyTasks \/ t = runningTask
          /\ t \in readyTasks => t # runningTask
      BY <1>1 DEF IInv, Accounted
    <3>2. CASE due[t] # Absent
      <4>1. stations(t) = {"queued"}
        BY <3>1, <3>2 DEF stations
      <4> QED  BY <3>1, <3>2, <4>1
    <3>3. CASE t \in readyTasks
      <4>1. stations(t) = {"ready"}
        BY <3>1, <3>3 DEF stations
      <4> QED  BY <3>1, <3>3, <4>1
    <3>4. CASE t = runningTask
      <4>1. stations(t) = {"running"}
        BY <3>1, <3>4 DEF stations
      <4> QED  BY <3>1, <3>4, <4>1
    <3>5. CASE ~(due[t] # Absent \/ t \in readyTasks \/ t = runningTask)
      <4>1. stations(t) = {}
        BY <3>5 DEF stations
      <4> QED  BY <3>1, <3>5, <4>1
    <3> QED  BY <3>2, <3>3, <3>4, <3>5
  <2> QED  BY <2>1 DEF ActiveTasksAccounted
<1> QED  BY Invariance, <1>1, PTL

\* With PriorityScheduler, between two rounds no ready task is more urgent than the
\* one that runs.
THEOREM NoInversion == Spec => []NoPriorityInversion
<1>1. IInv => NoPriorityInversion
  BY DEF IInv, ComponentTypes, Working, Ordered, Undisturbed, NoPriorityInversion, Settled,
         Quiet, DeltaPending
<1> QED  BY Invariance, <1>1, PTL

\* With RoundRobinScheduler no task outruns its slice while another one waits.
THEOREM SlicesRespected == Spec => []SliceRespected
<1>1. ASSUME IInv
      PROVE  SliceRespected
  <2>1. SUFFICES ASSUME scheduler.class = "ROUNDROBIN", Settled, readyTasks # {}
                 PROVE  runningTask # NoTask /\ scheduler.expires > 0 /\ wake <= scheduler.expires
    BY DEF SliceRespected
  <2>2. runningTask # NoTask /\ wake \in 1..scheduler.expires
    BY <1>1, <2>1 DEF IInv, ComponentTypes, Working, Sliced, Undisturbed, Settled, Quiet,
                      DeltaPending
  <2>3. scheduler.expires \in Int
    BY <1>1, <2>1 DEF IInv, Working, Consistent, Held, RrHeld, Rr!State, Rr!Passed
  <2> QED  BY <2>2, <2>3
<1> QED  BY Invariance, <1>1, PTL

\* scheduleThread never waits for ever while a task is ready.
THEOREM NeverStalled == Spec => []NoStall
<1>1. IInv => NoStall
  BY DEF IInv, ComponentTypes, Working, Woken, Undisturbed, NoStall, Settled, Quiet, DeltaPending
<1> QED  BY Invariance, <1>1, PTL

\* The thread looks at the running task at the very moment its delay is over.
THEOREM EveryTaskInTime == Spec => []FinishedInTime
<1>1. IInv => FinishedInTime
  BY DEF IInv, Working, Served, FinishedInTime
<1> QED  BY Invariance, <1>1, PTL

\* An entry that came due without power has requested it (lines 131-141).
THEOREM EveryReleaseRequested == Spec => []PowerRequested
<1>1. ASSUME IInv
      PROVE  PowerRequested
  <2>1. SUFFICES ASSUME ~canExecuteTasks, NEW t \in entries("normal"), isDue(t)
                 PROVE  \/ requestExecuteTasks
                        \/ releaseMethod["normal"] = "runnable"
                        \/ releaseEvent["normal"] \in {DeltaNotify, 0}
    BY DEF PowerRequested
  <2>2. t \in Task /\ due[t] # Absent /\ queueOf(t) = "normal" /\ due[t] \in {Late, 0}
    BY <2>1 DEF entries, isDue
  <2>3. releaseMethod["normal"] # "loop"
    BY <1>1, <2>1 DEF IInv, Announced
  <2>4. covers("normal", t) => releaseEvent["normal"] \in {DeltaNotify, 0}
    BY <2>2 DEF covers, Late
  <2> QED  BY <1>1, <2>2, <2>3, <2>4 DEF IInv, Announced
<1> QED  BY Invariance, <1>1, PTL

-----------------------------------------------------------------------------
(* The slots *)

\* While the thread waits undisturbed, the running task is in its slot and the
\* thread wakes up before the slot is over.  In between, a scheduler that counts its
\* slots still counts the slot of the task; TDMA, which asks the clock, may already
\* be in the next one when the thread runs.
InSlots ==
  runningTask # NoTask =>
    /\ scheduler.class # "TDMA" => Fits(scheduler, runningTask)
    /\ Undisturbed /\ wake # DeltaNotify =>
         /\ Fits(scheduler, runningTask)
         /\ inStatic(scheduler) => wake <= restOf(scheduler)

\* What leaves scheduler and thread alone keeps the task in its slot.
LEMMA InSlotsKept ==
  ASSUME InSlots, UNCHANGED <<ready, cpu, thread, wake>>
  PROVE  InSlots'
  BY DEF InSlots, Undisturbed, ready, cpu

\* A task that becomes ready does not disturb the slot of the running one.
LEMMA InSlotsAdded ==
  ASSUME IInv, InSlots, NEW j \in Job, j \notin readyTasks, j # runningTask,
         addTask(scheduler, j), UNCHANGED cpu
  PROVE  InSlots'
<1>1. /\ scheduler' = addedNewTask(scheduler, j) /\ scheduleEvent' = DeltaNotify
      /\ runningTask' = runningTask
  BY DEF addTask, cpu
<1>2. ~Undisturbed'
  BY <1>1 DEF Undisturbed, DeltaNotify, NoNotify
<1>3. Held(scheduler, readyTasks, runningTask)
  BY DEF IInv, Working, Consistent
<1>4. addedNewTask(scheduler, j).class = scheduler.class
  BY <1>3, SchedulerAssumption, HeldAdded
<1>5. ASSUME runningTask # NoTask, scheduler.class # "TDMA"
      PROVE  Fits(addedNewTask(scheduler, j), runningTask)
  <2>1. Fits(scheduler, runningTask)
    BY <1>5 DEF InSlots
  <2>2. Instances(readyTasks, runningTask)
    BY DEF IInv, ComponentTypes, Accounted, Instances, Working, Consistent
  <2> QED  BY <1>3, <1>4, <1>5, <2>1, <2>2, FitsAdded
<1> QED  BY <1>1, <1>2, <1>4, <1>5 DEF InSlots

\* The scheduler decides for a task in the slot, and the thread waits for the end of
\* the slot at most.
LEMMA InSlotsDecided ==
  ASSUME IInv, InSlots, Decide
  PROVE  InSlots'
<1>1. scheduler.class # "TDMA" => Fits(scheduler, runningTask)
  <2>1. CASE runningTask = NoTask
    BY <2>1 DEF Fits, TtccFits, FlexRayFits
  <2>2. CASE runningTask # NoTask
    BY <2>2 DEF InSlots
  <2> QED  BY <2>1, <2>2
<1>2. PICK slice \in {NoSlice} \cup Nat :
        /\ wake' = waitTime(runningTask', slice)
        /\ (scheduler.class # "TDMA" => Fits(scheduler, runningTask))
              /\ runningTask' # NoTask =>
             /\ Fits(scheduler', runningTask')
             /\ inStatic(scheduler') => slice \in Nat /\ slice = restOf(scheduler')
  BY Decision
<1>3. runningTask' \in Job \cup {NoTask}
  BY DecideStep DEF IInv, ComponentTypes
<1>4. slice # NoSlice /\ wake' # DeltaNotify => wake' \in 1..slice
  BY <1>2, <1>3, WaitTime DEF IInv
<1>5. slice \in Nat /\ wake' # DeltaNotify => wake' <= slice
  BY <1>4 DEF NoSlice
<1> QED  BY <1>1, <1>2, <1>5 DEF InSlots

\* Time passes for the clock of the scheduler and for the thread alike.
LEMMA InSlotsElapsed ==
  ASSUME IInv, InSlots, AdvanceTime
  PROVE  InSlots'
<1>1. /\ Undisturbed /\ wake # DeltaNotify
      /\ scheduler' = elapsed(scheduler) /\ runningTask' = runningTask
      /\ wake' = (IF wake = 1 THEN NoNotify ELSE IF wake > 0 THEN wake - 1 ELSE wake)
      /\ thread' = (IF wake = 1 THEN "runnable" ELSE thread)
  BY DEF AdvanceTime, Quiet, DeltaPending, Undisturbed, IInv, ComponentTypes
<1>2. SUFFICES ASSUME runningTask # NoTask
               PROVE  InSlots'
  BY <1>1 DEF InSlots
<1>3. wake \in Nat \ {0}
  <2>1. left \in Int
    BY <1>2 DEF IInv, ComponentTypes, left
  <2>2. wake \in 1..left
    BY <1>1, <1>2 DEF IInv, Working, Served, Undisturbed
  <2> QED  BY <2>1, <2>2
<1>4. Held(scheduler, readyTasks, runningTask)
  BY DEF IInv, Working, Consistent
<1>5. Fits(scheduler, runningTask) /\ (inStatic(scheduler) => wake <= restOf(scheduler))
  BY <1>1, <1>2 DEF InSlots
<1>6. /\ scheduler.class # "TDMA" => Fits(scheduler', runningTask)
      /\ wake > 1 => /\ Fits(scheduler', runningTask)
                     /\ inStatic(scheduler') => wake - 1 <= restOf(scheduler')
  BY <1>1, <1>3, <1>4, <1>5, FitsElapsed
<1>7. scheduler'.class = scheduler.class
  BY <1>1, <1>4, SchedulerAssumption, HeldElapsed
<1>8. thread' = "waiting" => wake > 1 /\ wake' = wake - 1
  BY <1>1, <1>3
<1> QED  BY <1>1, <1>6, <1>7, <1>8 DEF InSlots, Undisturbed

\* Every step of the component keeps the running task in its slot.
LEMMA InSlotsStep ==
  ASSUME IInv, InSlots, [Next]_vars
  PROVE  InSlots'
<1>1. ASSUME NEW t \in Task, t \notin readyTasks, t # runningTask, UNCHANGED cpu,
             NEW tk, schedule(t, tk, scheduler)
      PROVE  InSlots'
  BY <1>1, InSlotsAdded, Parameters DEF schedule
<1>2. ASSUME NEW t \in Task, Arrival(t)
      PROVE  InSlots'
  <2>1. UNCHANGED <<cpu, thread, wake>>
    BY <1>2 DEF Arrival
  <2>2. CASE UNCHANGED ready
    BY <2>1, <2>2, InSlotsKept
  <2>3. CASE ~UNCHANGED ready
    <3>1. t \notin activeTasks /\ schedule(t, [tokens EXCEPT ![t] = @ + 1], scheduler)
      BY <1>2, <2>3 DEF Arrival, notifyActivation
    <3>2. t \notin readyTasks /\ t # runningTask
      BY <3>1 DEF IInv, Accounted
    <3> QED  BY <1>1, <2>1, <3>1, <3>2
  <2> QED  BY <2>2, <2>3
<1>3. ASSUME NEW m \in Msg, MessageArrival(m)
      PROVE  InSlots'
  BY <1>3, InSlotsAdded, Parameters DEF MessageArrival
<1>4. ASSUME NEW t \in Task, ReleaseTask(t)
      PROVE  InSlots'
  <2>1. due[t] # Absent /\ schedule(t, tokens, scheduler) /\ UNCHANGED cpu
    BY <1>4 DEF ReleaseTask, isDue, Absent, Late
  <2>2. t \notin readyTasks /\ t # runningTask
    BY <2>1 DEF IInv, Accounted
  <2> QED  BY <1>1, <2>1, <2>2
<1>5. CASE RequestCanExecute \/ (\E q \in Queue : ReleaseDone(q)) \/ PowerDown
             \/ (\E q \in Queue : LateNotification(q)) \/ UNCHANGED vars
  BY <1>5, InSlotsKept DEF RequestCanExecute, ReleaseDone, PowerDown, LateNotification, vars
<1>6. CASE PowerUp \/ RanTask
  BY <1>6 DEF PowerUp, reactivateExecution, RanTask, InSlots, Undisturbed, cpu
<1>7. CASE FinishTask
  BY <1>7 DEF FinishTask, InSlots
<1>8. CASE DeltaCycle
  <2>1. /\ UNCHANGED <<runningTask, scheduler>>
        /\ \/ thread' = "runnable"
           \/ UNCHANGED <<thread, wake>> /\ scheduleEvent # DeltaNotify
    BY <1>8 DEF DeltaCycle, cpu
  <2>2. scheduleEvent \in {NoNotify, DeltaNotify}
    BY DEF IInv, ComponentTypes
  <2> QED  BY <2>1, <2>2 DEF InSlots, Undisturbed
<1> QED  BY <1>2, <1>3, <1>4, <1>5, <1>6, <1>7, <1>8, InSlotsDecided, InSlotsElapsed
         DEF Next, Release, Thread

\* With TDMA, time triggered CC and FlexRay no time passes with a task running
\* outside its slot, though decisions, delays, arrivals and the ends of slots may
\* fall into the same instant in any order.
THEOREM SlotsRespected == Spec => []SlotRespected
<1>1. Init => InSlots
  BY DEF Init, InSlots
<1>2. ASSUME IInv, InSlots
      PROVE  SlotRespected
  <2>1. SUFFICES ASSUME Settled, runningTask # NoTask
                 PROVE  slotRespected(scheduler, runningTask)
    BY DEF SlotRespected
  <2>2. Undisturbed /\ wake # DeltaNotify
    BY <1>2, <2>1 DEF Settled, Quiet, DeltaPending, Undisturbed, IInv, ComponentTypes
  <2>3. runningTask \in Job /\ Held(scheduler, readyTasks, runningTask)
    BY <1>2, <2>1 DEF IInv, ComponentTypes, Working, Consistent
  <2>4. Fits(scheduler, runningTask) /\ (inStatic(scheduler) => 1 <= restOf(scheduler))
    <3>1. left \in Int /\ wake \in 1..left
      BY <1>2, <2>1, <2>2 DEF IInv, ComponentTypes, Working, Served, Undisturbed, left
    <3>2. wake \in Int /\ 1 <= wake
      BY <3>1
    <3>3. inStatic(scheduler) => restOf(scheduler) \in Int
      BY <2>3, RestWhole
    <3> QED  BY <1>2, <2>1, <2>2, <3>2, <3>3 DEF InSlots
  <2> QED  BY <2>3, <2>4, FitsRespected
<1> QED  BY Invariance, InSlotsStep, <1>1, <1>2, PTL DEF Spec

-----------------------------------------------------------------------------
(* The queues of the scheduler *)

\* Queues that list the instances of disjoint sets hold each of them once.
LEMMA OncePlaced ==
  ASSUME NEW F, NEW S, NEW D, NEW key,
         Sorted(F, key, D, S), \A k \in S : key[k] \in D,
         NEW j, NEW P,
         P = {place \in UNION {{i} \X DOMAIN F[i] : i \in D} : F[place[1]][place[2]] = j}
  PROVE  /\ j \in S => \E place \in P : P = {place}
         /\ j \notin S => P = {}
<1>1. ASSUME NEW place \in P
      PROVE  /\ place = <<place[1], place[2]>> /\ place[1] \in D
             /\ place[2] \in 1..Len(F[place[1]]) /\ F[place[1]][place[2]] = j
             /\ j \in S /\ key[j] = place[1]
  <2>1. PICK i \in D : place \in {i} \X DOMAIN F[i]
    OBVIOUS
  <2>2. Lists(F[i], {k \in S : key[k] = i}) /\ DOMAIN F[i] = 1..Len(F[i])
    BY DEF Sorted, Lists
  <2>3. place = <<place[1], place[2]>> /\ place[1] = i /\ place[2] \in 1..Len(F[i])
        /\ F[i][place[2]] = j
    BY <2>1, <2>2
  <2> QED  BY <2>2, <2>3 DEF Lists
<1>2. CASE j \notin S
  BY <1>1, <1>2
<1>3. CASE j \in S
  <2> DEFINE i == key[j]
  <2>1. i \in D /\ Lists(F[i], {k \in S : key[k] = i}) /\ DOMAIN F[i] = 1..Len(F[i])
    BY <1>3 DEF Sorted, Lists
  <2>2. PICK n \in 1..Len(F[i]) : F[i][n] = j
    BY <1>3, <2>1 DEF Lists
  <2>3. <<i, n>> \in P
    BY <2>1, <2>2
  <2>4. ASSUME NEW place \in P
        PROVE  place = <<i, n>>
    <3>1. place = <<i, place[2]>> /\ place[2] \in 1..Len(F[i]) /\ F[i][place[2]] = j
      BY <1>1
    <3>2. place[2] = n
      BY <2>1, <2>2, <3>1 DEF Lists
    <3> QED  BY <3>1, <3>2
  <2>5. P = {<<i, n>>}
    BY <2>3, <2>4
  <2> QED  BY <1>3, <2>3, <2>5
<1> QED  BY <1>2, <1>3

\* A single queue is the queue of every instance in it.
LEMMA SingleSorted ==
  ASSUME NEW q, NEW S, S \subseteq Job, Lists(q, S)
  PROVE  LET key == [k \in Job |-> 1]
         IN  Sorted(<<q>>, key, {1}, S) /\ \A k \in S : key[k] \in {1}
<1> DEFINE key == [k \in Job |-> 1]
<1>1. {k \in S : key[k] = 1} = S /\ \A k \in S : key[k] \in {1}
  OBVIOUS
<1>2. q \in Seq(Job)
  BY DEF Lists
<1>3. <<q>> \in [{1} -> Seq(Job)] /\ <<q>>[1] = q
  BY <1>2
<1> HIDE DEF key
<1>4. Sorted(<<q>>, key, {1}, S)
  BY <1>1, <1>3 DEF Sorted
<1> QED  BY <1>1, <1>4 DEF key

\* Each instance the scheduler is responsible for is in its queues once, and no
\* other one is.
LEMMA HeldOnce ==
  ASSUME NEW s, NEW R, NEW r, Instances(R, r), Held(s, R, r), NEW j \in Job
  PROVE  IF j \in responsible(s, R, r)
         THEN \E place \in placesOf(s, j) : placesOf(s, j) = {place}
         ELSE placesOf(s, j) = {}
<1> DEFINE S == responsible(s, R, r)
           F == fifos(s)
           P == placesOf(s, j)
<1>1. NoTask \notin Job /\ R \subseteq Job /\ current(R, r) \subseteq Job
  BY Parameters DEF Instances, current
<1>2. P = {place \in UNION {{i} \X DOMAIN F[i] : i \in DOMAIN F} : F[place[1]][place[2]] = j}
  BY DEF placesOf
<1>3. ASSUME NEW q, F = <<q>>, S \subseteq Job, Lists(q, S)
      PROVE  IF j \in S THEN \E place \in P : P = {place} ELSE P = {}
  <2> DEFINE key == [k \in Job |-> 1]
  <2>1. Sorted(F, key, {1}, S) /\ \A k \in S : key[k] \in {1}
    BY <1>3, SingleSorted
  <2>2. DOMAIN F = {1}
    BY <1>3
  <2> HIDE DEF F, S, P, key
  <2>3. P = {place \in UNION {{i} \X DOMAIN F[i] : i \in {1}} : F[place[1]][place[2]] = j}
    BY <1>2, <2>2
  <2> QED  BY <2>1, <2>3, OncePlaced
<1>4. ASSUME NEW D, NEW key, Sorted(F, key, D, S), \A k \in S : key[k] \in D
      PROVE  IF j \in S THEN \E place \in P : P = {place} ELSE P = {}
  <2> HIDE DEF F, S, P
  <2>1. DOMAIN F = D
    BY <1>4 DEF Sorted
  <2>2. P = {place \in UNION {{i} \X DOMAIN F[i] : i \in D} : F[place[1]][place[2]] = j}
    BY <1>2, <2>1
  <2> QED  BY <1>4, <2>2, OncePlaced
<1>5. CASE s.class \in {"PRIORITY", "ROUNDROBIN"}
  <2>1. F = <<s.queue>> /\ S = R /\ Lists(s.queue, R)
    BY <1>5 DEF fifos, responsible, Held, PrioHeld, RrHeld
  <2> HIDE DEF F, S, P
  <2>2. S \subseteq Job /\ Lists(s.queue, S)
    BY <1>1, <2>1
  <2> QED  BY <1>3, <2>1, <2>2 DEF S, P
<1>6. CASE s.class = "SHAPER"
  <2>1. F = <<s.fifo>> /\ S = R /\ Lists(s.fifo, R)
    BY <1>6 DEF fifos, responsible, Held, ShaperHeld
  <2> HIDE DEF F, S, P
  <2>2. S \subseteq Job /\ Lists(s.fifo, S)
    BY <1>1, <2>1
  <2> QED  BY <1>3, <2>1, <2>2 DEF S, P
<1>7. CASE s.class = "MOST"
  <2>1. F = <<s.async>> /\ S = current(R, r) \ Stream /\ Lists(s.async, current(R, r) \ Stream)
    BY <1>7 DEF fifos, responsible, Held, MostHeld, current
  <2> HIDE DEF F, S, P
  <2>2. S \subseteq Job /\ Lists(s.async, S)
    BY <1>1, <2>1
  <2> QED  BY <1>3, <2>1, <2>2 DEF S, P
<1>8. CASE s.class = "AVB"
  <2>1. F = s.queue /\ S = R /\ Sorted(s.queue, LevelOf, Avb!Level, R)
    BY <1>8 DEF fifos, responsible, Held, AvbHeld
  <2>2. \A k \in R : LevelOf[k] \in Avb!Level
    BY <1>1, SchedulerAssumption DEF SchedulerAssumption, Avb!ShareAssumption, Avb!Level
  <2> HIDE DEF F, S, P
  <2>3. Sorted(F, LevelOf, Avb!Level, S) /\ \A k \in S : LevelOf[k] \in Avb!Level
    BY <2>1, <2>2
  <2> QED  BY <1>4, <2>3 DEF S, P
<1>9. CASE s.class \in {"TDMA", "TTCC", "FLEXRAY"}
  <2>1. F = s.fifo /\ S = current(R, r)
    BY <1>9 DEF fifos, responsible, current
  <2>2. PICK D, key : key \in [Job -> D] /\ Sorted(s.fifo, key, D, current(R, r))
    <3>1. /\ TdmaTable.slotOf \in [Job -> DOMAIN TdmaTable.slots]
          /\ CcTable.slotOf \in [Job -> DOMAIN CcTable.slots]
          /\ FrameTable.slotOf \in [Job -> FrameSlots]
      BY SchedulerAssumption, TableSlots
    <3>2. CASE TdmaHeld(s, R, r)
      BY <3>1, <3>2 DEF TdmaHeld
    <3>3. CASE TtccHeld(s, R, r)
      BY <3>1, <3>3 DEF TtccHeld
    <3>4. CASE FlexRayHeld(s, R, r)
      BY <3>1, <3>4 DEF FlexRayHeld
    <3> QED  BY <1>9, <3>2, <3>3, <3>4 DEF Held
  <2> HIDE DEF F, S, P
  <2>3. Sorted(F, key, D, S) /\ \A k \in S : key[k] \in D
    BY <1>1, <2>1, <2>2
  <2> QED  BY <1>4, <2>3 DEF S, P
<1> QED  BY <1>5, <1>6, <1>7, <1>8, <1>9 DEF Held

\* Scheduler and component agree on what is ready and running: each instance is in
\* the queues at one place as long as the scheduler is responsible for it.
THEOREM SchedulersConsistent == Spec => []SchedulerConsistent
<1>1. ASSUME IInv
      PROVE  SchedulerConsistent
  <2>1. Instances(readyTasks, runningTask) /\ Held(scheduler, readyTasks, runningTask)
    BY <1>1 DEF IInv, ComponentTypes, Accounted, Instances, Working, Consistent
  <2>2. \A j \in Job :
          LET places == placesOf(scheduler, j)
          IN  IF j \in responsible(scheduler, readyTasks, runningTask)
              THEN \E place \in places : places = {place}
              ELSE places = {}
    BY <2>1, HeldOnce
  <2> QED  BY <2>1, <2>2 DEF SchedulerConsistent, Instances
<1> QED  BY Invariance, <1>1, PTL

-----------------------------------------------------------------------------
(* Steps *)

\* No step makes a task ready while the component has no power, but for those of
\* the power management itself.
THEOREM PoweredWhenComputed == Spec => ComputedWithPower
<1> DEFINE Held1 == \A t \in Task \ PSM :
                     t \notin readyTasks /\ t \in readyTasks' /\ t # runningTask
                       => canExecuteTasks
<1>1. IInv /\ [Next]_vars => Held1
  <2> SUFFICES ASSUME IInv, [Next]_vars, NEW t \in Task \ PSM,
                      t \notin readyTasks, t \in readyTasks', t # runningTask
               PROVE  canExecuteTasks
    OBVIOUS
  <2>1. CASE \E u \in Task : Arrival(u)
    <3>1. PICK u \in Task : Arrival(u)
      BY <2>1
    <3>2. u = t /\ ~enqueued(u)
      BY <3>1 DEF Arrival, notifyActivation, schedule, addTask, ready
    <3>3. t \in PSM \/ canExecuteTasks
      BY <3>2 DEF enqueued
    <3> QED  BY <3>3
  <2>2. CASE \E m \in Msg : MessageArrival(m)
    BY <2>2, Parameters DEF MessageArrival, addTask
  <2>3. CASE \E u \in Task : ReleaseTask(u)
    <3>1. PICK u \in Task : ReleaseTask(u)
      BY <2>3
    <3>2. u = t
      BY <3>1 DEF ReleaseTask, schedule, addTask
    <3>3. queueOf(t) = "normal"
      BY DEF queueOf
    <3> QED  BY <3>1, <3>2, <3>3 DEF ReleaseTask, mayRelease, IInv, Announced
  <2>4. CASE FinishTask
    BY <2>4 DEF FinishTask, reactivate, schedule, addTask
  <2>5. CASE Decide
    <3>1. PICK d \in schedulingDecision(scheduler, readyTasks, runningTask) :
            Sound(d, readyTasks, runningTask) /\ readyTasks' = readyAfter(d, readyTasks)
      BY <2>5, Decision
    <3> QED  BY <3>1 DEF Sound, readyAfter, offered
  <2>6. CASE \/ RequestCanExecute \/ (\E q \in Queue : ReleaseDone(q)) \/ PowerUp \/ PowerDown
             \/ RanTask \/ DeltaCycle \/ AdvanceTime \/ (\E q \in Queue : LateNotification(q))
             \/ UNCHANGED vars
    BY <2>6 DEF RequestCanExecute, ReleaseDone, PowerUp, PowerDown, RanTask, DeltaCycle,
                AdvanceTime, LateNotification, vars, ready
  <2> QED  BY <2>1, <2>2, <2>3, <2>4, <2>5, <2>6 DEF Next, Release, Thread
<1>2. Spec => [][Held1]_vars
  BY Invariance, <1>1, PTL DEF Spec
<1> QED  BY <1>2 DEF ComputedWithPower

-----------------------------------------------------------------------------
(* The component implements a processor *)

\* The processor time job j still needs.
workOf(j) ==
  IF j \in readyTasks THEN remaining[j] ELSE IF j = runningTask THEN left ELSE Absent

work == [j \in Job |-> workOf(j)]

\* What leaves ready list and running task alone leaves the work.
LEMMA WorkKept ==
  ASSUME UNCHANGED <<readyTasks, remaining, cpu>>
  PROVE  UNCHANGED work
  BY DEF work, workOf, left, cpu

\* A job that becomes ready begins.
LEMMA WorkBegins ==
  ASSUME IInv, NEW j \in Job, j \notin readyTasks, j # runningTask,
         addTask(scheduler, j), UNCHANGED cpu
  PROVE  AbstractProcessor!Begin(j)
<1>1. work[j] = Absent
  BY DEF work, workOf
<1>2. work' = [work EXCEPT ![j] = Delay[j]]
  <2>1. ASSUME NEW k \in Job
        PROVE  workOf(k)' = IF k = j THEN Delay[j] ELSE workOf(k)
    BY <2>1 DEF workOf, left, addTask, cpu, IInv, ComponentTypes
  <2> QED  BY <2>1 DEF work
<1> QED  BY <1>1, <1>2 DEF AbstractProcessor!Begin, AbstractProcessor!Absent, Absent, work, workOf

\* A task that finishes has been served, and may begin again at once.
LEMMA WorkEnds ==
  ASSUME IInv, FinishTask, NEW r \in Job, r = runningTask
  PROVE  AbstractProcessor!End(r)
<1>1. /\ r \in Job /\ r # NoTask /\ r \notin readyTasks /\ left = 0
      /\ runningTask' = NoTask /\ NoTask \notin Job
  BY Parameters DEF FinishTask, IInv, ComponentTypes, Accounted
<1>2. \/ readyTasks' = readyTasks /\ remaining' = remaining
      \/ readyTasks' = readyTasks \cup {r} /\ remaining' = [remaining EXCEPT ![r] = Delay[r]]
  BY DEF FinishTask, reactivate, schedule, addTask
<1>3. work[r] = 0
  BY <1>1 DEF work, workOf
<1>4. PICK w \in {Absent, Delay[r]} : \A k \in Job : workOf(k)' = IF k = r THEN w ELSE workOf(k)
  <2>1. CASE readyTasks' = readyTasks /\ remaining' = remaining
    <3>1. \A k \in Job : workOf(k)' = IF k = r THEN Absent ELSE workOf(k)
      BY <1>1, <2>1 DEF workOf
    <3> QED  BY <3>1
  <2>2. CASE readyTasks' = readyTasks \cup {r} /\ remaining' = [remaining EXCEPT ![r] = Delay[r]]
    <3>1. \A k \in Job : workOf(k)' = IF k = r THEN Delay[r] ELSE workOf(k)
      BY <1>1, <2>2 DEF workOf, IInv, ComponentTypes
    <3> QED  BY <3>1
  <2> QED  BY <1>2, <2>1, <2>2
<1>5. work' = [work EXCEPT ![r] = w]
  BY <1>4 DEF work
<1> QED  BY <1>3, <1>4, <1>5
         DEF AbstractProcessor!End, AbstractProcessor!Absent, Absent, work, workOf

\* Time that passes serves the running task and no other.
LEMMA WorkServed ==
  ASSUME IInv, AdvanceTime, NEW r \in Job, r = runningTask
  PROVE  AbstractProcessor!Serve(r)
<1>1. /\ r # NoTask /\ r \notin readyTasks /\ wake \in 1..left /\ left \in Int
      /\ \A j \in readyTasks : remaining[j] > 0
  BY Parameters
  DEF AdvanceTime, Quiet, DeltaPending, IInv, ComponentTypes, Accounted, Working, Served, left
<1>2. left > 0
  <2> HIDE DEF left
  <2> QED  BY <1>1
<1>3. UNCHANGED <<readyTasks, remaining, runningTask>> /\ left' = left - 1
  BY <1>1 DEF AdvanceTime, left, IInv, ComponentTypes
<1>4. work[r] > 0 /\ \A k \in Job : work[k] # 0
  BY <1>1, <1>2 DEF work, workOf, Absent
<1>5. \A k \in Job : workOf(k)' = IF k = r THEN workOf(r) - 1 ELSE workOf(k)
  <2> HIDE DEF left
  <2> QED  BY <1>1, <1>3 DEF workOf
<1>6. work' = [work EXCEPT ![r] = @ - 1]
  BY <1>1, <1>5 DEF work
<1> QED  BY <1>4, <1>6 DEF AbstractProcessor!Serve, work, workOf

\* Resigning and assigning tasks neither adds to nor takes from their work.
LEMMA WorkDecided ==
  ASSUME IInv, Decide
  PROVE  UNCHANGED work
<1>1. PICK d \in schedulingDecision(scheduler, readyTasks, runningTask) :
        /\ Sound(d, readyTasks, runningTask)
        /\ readyTasks' = readyAfter(d, readyTasks)
        /\ runningTask' = runningAfter(d, runningTask)
  BY Decision
<1>2. /\ UNCHANGED <<ran, remaining>> /\ ran = 0 /\ NoTask \notin Job
      /\ Instances(readyTasks, runningTask) /\ remaining \in [Job -> Nat]
  BY Parameters DEF Decide, IInv, ComponentTypes, Accounted, Working, Served, Instances
<1>3. current(readyTasks', runningTask') = current(readyTasks, runningTask)
  BY <1>1, <1>2, CurrentKept
<1>4. \A k \in Job : workOf(k) = IF k \in current(readyTasks, runningTask) THEN remaining[k]
                                 ELSE Absent
  BY <1>2 DEF workOf, left, current, Instances
<1>5. \A k \in Job : workOf(k)' = IF k \in current(readyTasks', runningTask') THEN remaining[k]
                                  ELSE Absent
  BY <1>2 DEF workOf, left, current, Instances
<1> QED  BY <1>3, <1>4, <1>5 DEF work

\* The time a task is charged is the time it was served.
LEMMA WorkRan ==
  ASSUME IInv, RanTask
  PROVE  UNCHANGED work
<1>1. UNCHANGED <<readyTasks, runningTask>> /\ ran' = 0 /\ runningTask \notin readyTasks
      /\ remaining \in [Job -> Nat] /\ ran \in Nat /\ runningTask \in Job \cup {NoTask}
      /\ NoTask \notin Job
  BY Parameters DEF RanTask, IInv, ComponentTypes, Accounted
<1>2. CASE runningTask = NoTask /\ UNCHANGED remaining
  BY <1>1, <1>2 DEF work, workOf
<1>3. CASE remaining' = [remaining EXCEPT ![runningTask] = left] /\ runningTask # NoTask
  <2>1. \A k \in Job : workOf(k)' = workOf(k)
    BY <1>1, <1>3 DEF workOf, left
  <2> QED  BY <2>1 DEF work
<1> QED  BY <1>2, <1>3 DEF RanTask

\* Each step of the component is one of an abstract processor or leaves the
\* work alone: whatever the scheduler, each job is served for exactly its delay,
\* one at a time, and ends when it has been.
THEOREM ProcessorImplemented == Spec => AbstractProcessor!Spec
<1>1. Init => AbstractProcessor!Init
  BY Parameters DEF Init, AbstractProcessor!Init, AbstractProcessor!Absent, Absent
<1>2. IInv /\ [Next]_vars => AbstractProcessor!Next \/ UNCHANGED work
  <2> SUFFICES ASSUME IInv, [Next]_vars
               PROVE  AbstractProcessor!Next \/ UNCHANGED work
    OBVIOUS
  <2>1. ASSUME NEW t \in Task, Arrival(t)
        PROVE  AbstractProcessor!Next \/ UNCHANGED work
    <3>1. CASE t \notin activeTasks /\ ~enqueued(t)
      <4>1. addTask(scheduler, t) /\ UNCHANGED cpu /\ t \in Job
            /\ t \notin readyTasks /\ t # runningTask
        BY <2>1, <3>1, Parameters DEF Arrival, notifyActivation, schedule, IInv, Accounted
      <4> QED  BY <4>1, WorkBegins DEF AbstractProcessor!Next
    <3>2. CASE ~(t \notin activeTasks /\ ~enqueued(t))
      BY <2>1, <3>2, WorkKept DEF Arrival, notifyActivation, ready
    <3> QED  BY <3>1, <3>2
  <2>2. ASSUME NEW m \in Msg, MessageArrival(m)
        PROVE  AbstractProcessor!Next
    <3>1. m \in Job /\ m \notin readyTasks /\ m # runningTask /\ addTask(scheduler, m)
          /\ UNCHANGED cpu
      BY <2>2, Parameters DEF MessageArrival
    <3> QED  BY <3>1, WorkBegins DEF AbstractProcessor!Next
  <2>3. ASSUME NEW t \in Task, ReleaseTask(t)
        PROVE  AbstractProcessor!Next
    <3>1. due[t] # Absent
      BY <2>3 DEF ReleaseTask, isDue, Absent, Late
    <3>2. t \in Job /\ t \notin readyTasks /\ t # runningTask /\ addTask(scheduler, t)
          /\ UNCHANGED cpu
      BY <2>3, <3>1, Parameters DEF ReleaseTask, schedule, IInv, Accounted
    <3> QED  BY <3>2, WorkBegins DEF AbstractProcessor!Next
  <2>4. CASE FinishTask
    <3>1. runningTask \in Job
      BY <2>4 DEF FinishTask, IInv, ComponentTypes
    <3> QED  BY <2>4, <3>1, WorkEnds DEF AbstractProcessor!Next
  <2>5. CASE Decide \/ RanTask
    BY <2>5, WorkDecided, WorkRan
  <2>6. CASE AdvanceTime
    <3>1. CASE runningTask # NoTask
      <4>1. runningTask \in Job
        BY <3>1 DEF IInv, ComponentTypes
      <4> QED  BY <2>6, <3>1, <4>1, WorkServed DEF AbstractProcessor!Next
    <3>2. CASE runningTask = NoTask
      <4>1. UNCHANGED <<readyTasks, remaining, cpu>>
        BY <2>6, <3>2 DEF AdvanceTime, cpu, IInv, Working, Served
      <4> QED  BY <4>1, WorkKept
    <3> QED  BY <3>1, <3>2
  <2>7. CASE \/ RequestCanExecute \/ (\E q \in Queue : ReleaseDone(q)) \/ PowerUp \/ PowerDown
             \/ DeltaCycle \/ (\E q \in Queue : LateNotification(q)) \/ UNCHANGED vars
    <3>1. UNCHANGED <<readyTasks, remaining, cpu>>
      BY <2>7 DEF RequestCanExecute, ReleaseDone, PowerUp, PowerDown, DeltaCycle,
                  LateNotification, vars, ready, cpu
    <3> QED  BY <3>1, WorkKept
  <2> QED  BY <2>1, <2>2, <2>3, <2>4, <2>5, <2>6, <2>7 DEF Next, Release, Thread
<1>3. AbstractProcessor!Next \/ UNCHANGED work => [AbstractProcessor!Next]_work
  OBVIOUS
<1> QED  BY Invariance, <1>1, <1>2, <1>3, PTL DEF Spec, AbstractProcessor!Spec, work, workOf

=============================================================================
