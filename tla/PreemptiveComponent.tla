-------------------------- MODULE PreemptiveComponent --------------------------
(***************************************************************************)
(* A component with a preemptive scheduler (PreemptiveComponent and the    *)
(* parts of AbstractComponent it uses), which may be powered down.         *)
(*                                                                         *)
(* An actor that can fire is announced by notifyActivation and is fired at *)
(* once, or from a release queue at its release time; while the component  *)
(* may not execute tasks, only the actors that model its power states      *)
(* (PSM) are fired.  Fired actors and message hops are ready until         *)
(* scheduleThread assigns them; it may resign and assign them again until  *)
(* their DII has passed.                                                   *)
(*                                                                         *)
(* The outputs of the actors leave the component; what happens to them is  *)
(* the same for all components (NonPreemptiveComponent).  Times are kept   *)
(* relative to the current simulated time.                                 *)
(***************************************************************************)
EXTENDS Schedulers, SimKernel

CONSTANTS Task,      \* the actors mapped to the component
          Msg,       \* the message hops routed over it
          PSM,       \* the actors that model its power states
          Periodic,  \* the actors that are released periodically
          Period,    \* the period of each of them
          Offset,    \* its first release
          Capacity,  \* how many firings of an actor its inputs hold
          Managed    \* whether the application switches the component

ASSUME ComponentAssumption ==
  /\ Job = Task \cup Msg /\ Task \cap Msg = {}
  /\ PSM \subseteq Task /\ Periodic \subseteq Task
  /\ Period \in [Periodic -> Nat \ {0}] /\ Offset \in [Periodic -> Nat \ {0}]
  /\ \A t \in Periodic : Offset[t] <= Period[t]
  /\ Delay \in [Job -> Nat \ {0}]
  /\ Capacity \in Nat \ {0}
  /\ Managed \in BOOLEAN

VARIABLES
  (* the actors (SysteMoC) *)
  tokens,               \* the firings the inputs of an actor hold
  release,              \* time to a periodic actor's next release
  phase,                \* time to the next point of its period
  (* the component; "PSM" and "normal" name its two release queues *)
  activeTasks,          \* activeTasks
  due,                  \* ttReleaseQueue, -PSM: time to an entry, Late or Absent
  releaseEvent,         \* ttReleaseQueueEvent, -PSMEvent
  releaseMethod,        \* ttReleaseQueueMethod, -PSMMethod
  canExecuteTasks,      \* canExecuteTasks
  requestExecuteTasks,  \* requestExecuteTasks: componentWakeup was notified
  readyTasks,           \* readyTasks
  runningTask,          \* the member of runningTasks, or NoTask
  remaining,            \* the remainingDelay of the task instances
  ran,                  \* time since assignedTaskInstanceTime
  scheduler,            \* the scheduler's state
  scheduleEvent,        \* the pending notification of scheduleEvent
  thread,               \* where scheduleThread is
  wake,                 \* time to the end of its wait(waitTime, ..)
  firstDelta            \* this is the first delta cycle at this time

actors == <<tokens, release, phase>>
queues == <<activeTasks, due, releaseEvent, releaseMethod>>
power  == <<canExecuteTasks, requestExecuteTasks>>
cpu    == <<runningTask, ran>>
ready  == <<readyTasks, remaining, scheduler, scheduleEvent>>
vars == <<actors, queues, power, cpu, ready, thread, wake, firstDelta>>

Absent == -1
Late   == -2     \* the time of an entry has passed
Queue == {"normal", "PSM"}

queueOf(t) == IF t \in PSM THEN "PSM" ELSE "normal"

entries(q) == {t \in Task : due[t] # Absent /\ queueOf(t) = q}

isDue(t) == due[t] \in {Late, 0}

TypeOK ==
  /\ tokens \in [Task -> 0..Capacity]
  /\ release \in [Periodic -> Nat]
  /\ phase \in [Periodic -> Nat \ {0}]
  /\ activeTasks \subseteq Task
  /\ due \in [Task -> {Absent, Late} \cup Nat]
  /\ releaseEvent \in [Queue -> Notification]
  /\ releaseMethod \in [Queue -> {"idle", "runnable", "loop"}]
  /\ canExecuteTasks \in BOOLEAN /\ requestExecuteTasks \in BOOLEAN
  /\ readyTasks \subseteq Job
  /\ runningTask \in Job \cup {NoTask}
  /\ remaining \in [Job -> Nat]
  /\ ran \in Nat
  /\ schedulerTypeOK(scheduler)
  /\ scheduleEvent \in {NoNotify, DeltaNotify}
  /\ thread \in {"runnable", "decide", "waiting"}
  /\ wake \in Notification
  /\ firstDelta \in BOOLEAN

\* The time of the top of queue q.
topTime(q) == Min({due[t] : t \in entries(q)})

\* event.notify(top.time - now).  The difference of two sc_times is unsigned:
\* for a passed time it wraps around, and so does the sum the kernel makes of
\* it and now, which is the passed time again.  The kernel triggers such a
\* notification when no process is runnable, without a step in time: 0.
notifyAt(pending, d) ==
  IF d = Late THEN IF pending = DeltaNotify THEN pending ELSE 0
  ELSE Notify(pending, 0, d)

Init ==
  /\ tokens = [t \in Task |-> 0]
  /\ release = Offset
  /\ phase = Offset
  /\ activeTasks = Periodic
  /\ due = [t \in Task |-> IF t \in Periodic THEN Offset[t] ELSE Absent]
  /\ releaseEvent = [q \in Queue |->
       IF entries(q) = {} THEN NoNotify ELSE topTime(q)]
  /\ releaseMethod = [q \in Queue |-> "idle"]
  /\ canExecuteTasks = TRUE /\ requestExecuteTasks = FALSE
  /\ readyTasks = {}
  /\ runningTask = NoTask
  /\ remaining = [j \in Job |-> 0]
  /\ ran = 0
  /\ scheduler \in initialSchedulers
  /\ scheduleEvent = NoNotify
  /\ thread = "runnable"
  /\ wake = NoNotify
  /\ firstDelta = TRUE

\* A process runs to its next wait: while one is on its way no other runs.
Evaluating == thread # "decide" /\ \A q \in Queue : releaseMethod[q] # "loop"

-----------------------------------------------------------------------------
(* The ready list. *)

\* Mutated addTask: the scheduler is not told.
addTaskUntold(s, j) ==
  /\ readyTasks' = readyTasks \cup {j}
  /\ remaining' = [remaining EXCEPT ![j] = Delay[j]]
  /\ scheduler' = s
  /\ scheduleEvent' = DeltaNotify

\* Mutated addTask: a job that comes again has no delay.
addTaskStale(s, j) ==
  /\ readyTasks' = readyTasks \cup {j}
  /\ UNCHANGED remaining
  /\ scheduler' = addedNewTask(s, j)
  /\ scheduleEvent' = DeltaNotify

\* compute and addTask of job j, with the scheduler in state s before.
addTask(s, j) ==
  /\ readyTasks' = readyTasks \cup {j}
  /\ remaining' = [remaining EXCEPT ![j] = Delay[j]]
  /\ scheduler' = addedNewTask(s, j)
  /\ scheduleEvent' = DeltaNotify

-----------------------------------------------------------------------------
(* Activation. *)

\* ScheduledTask::getNextReleaseTime() - sc_time_stamp(); a release that has
\* passed is taken to be due now.
nextRelease(t) == IF t \in Periodic THEN release[t] ELSE 0

\* t->schedule() fires actor t, which executes its action and is computed;
\* the inputs hold tk firings before.
schedule(t, tk, s) ==
  /\ tokens' = IF t \in Periodic THEN tk ELSE [tk EXCEPT ![t] = @ - 1]
  /\ release' = IF t \in Periodic THEN [release EXCEPT ![t] = phase[t]] ELSE release
  /\ addTask(s, t)

\* Mutated enqueued: powering down does not hold activations back.
enqueuedByTime(t) == nextRelease(t) > 0

\* Whether an activation goes to its release queue.
enqueued(t) == nextRelease(t) > 0 \/ (t \notin PSM /\ ~canExecuteTasks)

\* Mutated enqueue: the event is not notified.
enqueueSilently(t) ==
  /\ due' = [due EXCEPT ![t] = nextRelease(t)]
  /\ UNCHANGED releaseEvent

enqueue(t) ==
  /\ due' = [due EXCEPT ![t] = nextRelease(t)]
  /\ releaseEvent' = [releaseEvent EXCEPT ![queueOf(t)] = Notify(@, 0, nextRelease(t))]

\* notifyActivation(t, true) of an actor that is not active.
notifyActivation(t, tk) ==
  /\ activeTasks' = activeTasks \cup {t}
  /\ IF enqueued(t)
     THEN enqueue(t) /\ tokens' = tk /\ UNCHANGED <<release, ready>>
     ELSE schedule(t, tk, scheduler) /\ UNCHANGED <<due, releaseEvent>>

\* An input of actor t arrives and announces it.
Arrival(t) ==
  /\ Evaluating
  /\ t \notin Periodic /\ tokens[t] < Capacity
  /\ LET tk == [tokens EXCEPT ![t] = @ + 1]
     IN  IF t \in activeTasks
         THEN tokens' = tk /\ UNCHANGED <<release, activeTasks, due, releaseEvent, ready>>
         ELSE notifyActivation(t, tk)
  /\ UNCHANGED <<phase, releaseMethod, power, cpu, thread, wake, firstDelta>>

\* A route starts a hop here (AbstractComponent::executeHop).  Bound: one
\* message per hop at a time.
MessageArrival(m) ==
  /\ Evaluating
  /\ m # runningTask /\ m \notin readyTasks
  /\ addTask(scheduler, m)
  /\ UNCHANGED <<actors, queues, power, cpu, thread, wake, firstDelta>>

-----------------------------------------------------------------------------
(* The release queues (ttReleaseQueueRelease). *)

mayRelease(q) == q = "PSM" \/ canExecuteTasks

starts(q) == releaseMethod[q] = "runnable" /\ Evaluating

\* The method of the powered down component only asks for power, once.
RequestCanExecute ==
  /\ starts("normal")
  /\ ~mayRelease("normal")
  /\ requestExecuteTasks' = TRUE
  /\ releaseMethod' = [releaseMethod EXCEPT !["normal"] = "idle"]
  /\ UNCHANGED <<actors, activeTasks, due, releaseEvent, canExecuteTasks, cpu, ready,
                 thread, wake, firstDelta>>

\* The top is popped and its actor fired: the first one is due now or late,
\* each other one due now.
ReleaseTask(t) ==
  /\ \/ starts(queueOf(t)) /\ mayRelease(queueOf(t)) /\ isDue(t)
     \/ releaseMethod[queueOf(t)] = "loop" /\ due[t] = 0
  /\ due[t] = topTime(queueOf(t))
  /\ due' = [due EXCEPT ![t] = Absent]
  /\ releaseMethod' = [releaseMethod EXCEPT ![queueOf(t)] = "loop"]
  /\ schedule(t, tokens, scheduler)
  /\ UNCHANGED <<phase, activeTasks, releaseEvent, power, cpu, thread, wake, firstDelta>>

\* The method leaves its loop, with a notification for the next entry.
ReleaseDone(q) ==
  /\ releaseMethod[q] = "loop"
  /\ \/ entries(q) = {} /\ UNCHANGED releaseEvent
     \/ /\ entries(q) # {} /\ topTime(q) # 0
        /\ releaseEvent' = [releaseEvent EXCEPT ![q] = notifyAt(@, topTime(q))]
  /\ releaseMethod' = [releaseMethod EXCEPT ![q] = "idle"]
  /\ UNCHANGED <<actors, activeTasks, due, power, cpu, ready, thread, wake, firstDelta>>

-----------------------------------------------------------------------------
(* Power. *)

\* Mutated reactivateExecution: the release queue is not looked at.
reactivateThreadOnly ==
  /\ UNCHANGED releaseEvent
  /\ scheduleEvent' = NoNotify
  /\ thread' = "runnable"
  /\ wake' = NoNotify

\* scheduleEvent.notify() wakes the thread at once, in place of any pending
\* notification; the thread is waiting or about to run.
reactivateExecution ==
  /\ releaseEvent' = IF entries("normal") = {} THEN releaseEvent
                     ELSE [releaseEvent EXCEPT !["normal"] = notifyAt(@, topTime("normal"))]
  /\ scheduleEvent' = NoNotify
  /\ thread' = "runnable"
  /\ wake' = NoNotify

\* setCanExecuteTasks(true): the application answers a request, or powers up
\* for a reason of its own, which it has in a later delta cycle.
PowerUp ==
  /\ Managed /\ Evaluating
  /\ requestExecuteTasks \/ ~firstDelta
  /\ ~canExecuteTasks
  /\ canExecuteTasks' = TRUE
  /\ requestExecuteTasks' = FALSE
  /\ reactivateExecution
  /\ UNCHANGED <<actors, activeTasks, due, releaseMethod, cpu, readyTasks, remaining,
                 scheduler, firstDelta>>

hasWaitingOrRunningTasks == readyTasks # {} \/ runningTask # NoTask

\* setCanExecuteTasks(false): the application asks hasWaitingOrRunningTasks
\* before, does not power down what it has powered up for a release before that
\* is executed, and has a time of its own for it, in its first delta cycle.
PowerDown ==
  /\ Managed /\ Evaluating /\ firstDelta
  /\ canExecuteTasks /\ ~hasWaitingOrRunningTasks
  /\ \A t \in entries("normal") : ~isDue(t)
  /\ canExecuteTasks' = FALSE
  /\ UNCHANGED <<actors, queues, requestExecuteTasks, cpu, ready, thread, wake,
                 firstDelta>>

-----------------------------------------------------------------------------
(* scheduleThread: one round of its loop is done without a wait. *)

left == remaining[runningTask] - ran

\* The thread runs; ranTaskInstance brings the delay of the task up to date.
RanTask ==
  /\ thread = "runnable" /\ Evaluating
  /\ \/ runningTask = NoTask /\ UNCHANGED remaining
     \/ /\ runningTask # NoTask /\ left > 0
        /\ remaining' = [remaining EXCEPT ![runningTask] = left]
  /\ ran' = 0
  /\ thread' = "decide"
  /\ UNCHANGED <<actors, queues, power, runningTask, readyTasks, scheduler,
                 scheduleEvent, wake, firstDelta>>

\* Mutated canFire: the actor is not asked.
canFireAlways(t) == TRUE

\* canFire() of the actor whose DII has passed: a periodic one that is not
\* due yet announces itself instead.
canFire(t) == IF t \in Periodic THEN release[t] = 0 ELSE tokens[t] > 0

\* Mutated reactivate: the actor stays active when it cannot fire.
reactivateKeepsActive(t, s) ==
  IF canFire(t)
  THEN schedule(t, tokens, s) /\ UNCHANGED <<activeTasks, due, releaseEvent>>
  ELSE /\ scheduler' = s
       /\ IF t \in Periodic THEN enqueue(t) ELSE UNCHANGED <<due, releaseEvent>>
       /\ UNCHANGED <<tokens, release, activeTasks, readyTasks, remaining, scheduleEvent>>

\* The actor is erased from activeTasks and announces itself or is scheduled.
reactivate(t, s) ==
  IF canFire(t)
  THEN schedule(t, tokens, s) /\ UNCHANGED <<activeTasks, due, releaseEvent>>
  ELSE /\ scheduler' = s
       /\ IF t \in Periodic
          THEN enqueue(t) /\ UNCHANGED activeTasks
          ELSE activeTasks' = activeTasks \ {t} /\ UNCHANGED <<due, releaseEvent>>
       /\ UNCHANGED <<tokens, release, readyTasks, remaining, scheduleEvent>>

\* The DII of the running task is over: removeTask, then the next firing.
FinishTask ==
  /\ thread = "runnable" /\ Evaluating
  /\ runningTask # NoTask /\ left = 0
  /\ runningTask' = NoTask
  /\ ran' = 0
  /\ LET s == removedTask(scheduler, runningTask)
     IN  IF runningTask \in Task
         THEN reactivate(runningTask, s)
         ELSE /\ scheduler' = s
              /\ UNCHANGED <<tokens, release, activeTasks, due, releaseEvent, readyTasks,
                             remaining, scheduleEvent>>
  /\ thread' = "decide"
  /\ UNCHANGED <<phase, releaseMethod, power, wake, firstDelta>>

\* Mutated waitTime: the remaining delay is not looked at if there is a slice.
waitTimeOfSlice(j, slice) ==
  IF slice # NoSlice THEN Notify(NoNotify, 0, slice)
  ELSE IF j # NoTask THEN Notify(NoNotify, 0, remaining[j]) ELSE NoNotify

\* How long the thread waits at most when j is running: the time slice, if
\* there is one, or the remaining delay, whichever is less.
waitTime(j, slice) ==
  LET times == ({slice} \ {NoSlice}) \cup (IF j # NoTask THEN {remaining[j]} ELSE {})
  IN  IF times = {} THEN NoNotify ELSE Notify(NoNotify, 0, Min(times))

\* What runs on when a task has been resigned.
resignTaskInstance(j) == IF j = NoTask THEN runningTask ELSE NoTask

\* The scheduler decides, the tasks are resigned and assigned, and the thread
\* waits.  The time slice is asked for between resigning and assigning.
Decide ==
  /\ thread = "decide"
  /\ decisionAssertion(scheduler, runningTask)
  /\ \E d \in schedulingDecision(scheduler, readyTasks, runningTask) :
       LET kept    == resignTaskInstance(d.resign)
           offered == readyTasks \cup ({d.resign} \ {NoTask})
       IN  /\ sliceAssertion(d.state, offered, kept)
           /\ scheduler' = d.state
           /\ runningTask' = IF d.assign = NoTask THEN kept ELSE d.assign
           /\ readyTasks' = offered \ {d.assign}
           /\ wake' = waitTime(runningTask', getSchedulerTimeSlice(d.state, offered, kept))
  /\ thread' = "waiting"
  /\ UNCHANGED <<actors, queues, power, ran, remaining, scheduleEvent, firstDelta>>

-----------------------------------------------------------------------------
(* The kernel. *)

\* No process is runnable.
Quiet == thread = "waiting" /\ \A q \in Queue : releaseMethod[q] = "idle"

DeltaPending ==
  \/ scheduleEvent = DeltaNotify \/ wake = DeltaNotify
  \/ \E q \in Queue : releaseEvent[q] = DeltaNotify

DeltaCycle ==
  /\ Quiet /\ DeltaPending
  /\ releaseMethod' = [q \in Queue |->
       IF releaseEvent[q] = DeltaNotify THEN "runnable" ELSE releaseMethod[q]]
  /\ releaseEvent' = [q \in Queue |->
       IF releaseEvent[q] = DeltaNotify THEN NoNotify ELSE releaseEvent[q]]
  /\ IF DeltaNotify \in {scheduleEvent, wake}
     THEN thread' = "runnable" /\ wake' = NoNotify
     ELSE UNCHANGED <<thread, wake>>
  /\ scheduleEvent' = NoNotify
  /\ firstDelta' = FALSE
  /\ UNCHANGED <<actors, activeTasks, due, power, cpu, readyTasks, remaining, scheduler>>

\* The notification for a late entry triggers.
LateNotification(q) ==
  /\ Quiet /\ ~DeltaPending
  /\ releaseEvent[q] = 0
  /\ releaseEvent' = [releaseEvent EXCEPT ![q] = NoNotify]
  /\ releaseMethod' = [releaseMethod EXCEPT ![q] = "runnable"]
  /\ UNCHANGED <<actors, activeTasks, due, power, cpu, ready, thread, wake, firstDelta>>

AdvanceTime ==
  /\ Quiet /\ ~DeltaPending
  /\ \A q \in Queue : releaseEvent[q] # 0
  /\ LET elapse(n) == IF n > 0 THEN n - 1 ELSE n
     IN  /\ release' = [t \in Periodic |-> elapse(release[t])]
         /\ phase' = [t \in Periodic |-> IF phase[t] = 1 THEN Period[t] ELSE phase[t] - 1]
         /\ due' = [t \in Task |-> IF due[t] = 0 THEN Late ELSE elapse(due[t])]
         /\ releaseEvent' = [q \in Queue |->
              IF releaseEvent[q] = 1 THEN NoNotify ELSE elapse(releaseEvent[q])]
         /\ wake' = IF wake = 1 THEN NoNotify ELSE elapse(wake)
  /\ releaseMethod' = [q \in Queue |->
       IF releaseEvent[q] = 1 THEN "runnable" ELSE releaseMethod[q]]
  /\ thread' = IF wake = 1 THEN "runnable" ELSE thread
  /\ ran' = IF runningTask = NoTask THEN 0 ELSE ran + 1
  /\ scheduler' = elapsed(scheduler)
  /\ firstDelta' = TRUE
  /\ UNCHANGED <<tokens, activeTasks, power, runningTask, readyTasks, remaining,
                 scheduleEvent>>

-----------------------------------------------------------------------------
Release ==
  \/ RequestCanExecute
  \/ \E t \in Task : ReleaseTask(t)
  \/ \E q \in Queue : ReleaseDone(q)

Thread == RanTask \/ FinishTask \/ Decide

Next ==
  \/ \E t \in Task : Arrival(t)
  \/ \E m \in Msg : MessageArrival(m)
  \/ Release
  \/ PowerUp \/ PowerDown
  \/ Thread
  \/ DeltaCycle \/ AdvanceTime
  \/ \E q \in Queue : LateNotification(q)

Spec == Init /\ [][Next]_vars

\* The kernel runs every runnable process and lets time go on.  The
\* application answers a request for power in the end, however often a process
\* is on its way meanwhile.
FairSpec ==
  /\ Spec
  /\ WF_vars(Release) /\ WF_vars(Thread)
  /\ WF_vars(DeltaCycle) /\ WF_vars(AdvanceTime)
  /\ WF_vars(\E q \in Queue : LateNotification(q))
  /\ SF_vars(requestExecuteTasks /\ PowerUp)

-----------------------------------------------------------------------------
(* Properties *)

\* The method of a release queue is never runnable without an entry that is
\* due (PreemptiveComponent.cpp:113, 118).
ReleaseAssertion ==
  \A q \in Queue : releaseMethod[q] = "runnable" => \E t \in entries(q) : isDue(t)

\* The time slice of the running task has not passed when the scheduler is
\* asked (RoundRobinScheduler.cpp:96).
SliceAssertion == thread = "decide" => decisionAssertion(scheduler, runningTask)

\* Whatever AVBScheduler decides, the levels that still have tasks have no
\* credit left when it is asked for the time slice (AVBScheduler.cpp:94).
CreditAssertion ==
  thread = "decide" =>
    \A d \in schedulingDecision(scheduler, readyTasks, runningTask) :
      sliceAssertion(d.state, readyTasks, runningTask)

\* Tasks that are not PSM tasks are computed only while the component may
\* execute tasks (PreemptiveComponent.cpp:179); messages are not held back.
ComputedWithPower ==
  [][\A t \in Task \ PSM : t \notin readyTasks /\ t \in readyTasks' /\ t # runningTask
                            => canExecuteTasks]_vars

\* Where a task is on its way from notifyActivation to the end of its DII.
stations(t) ==
  {s \in {"queued", "ready", "running"} :
     \/ s = "queued"  /\ due[t] # Absent
     \/ s = "ready"   /\ t \in readyTasks
     \/ s = "running" /\ t = runningTask}

\* A task is active exactly while it is in one, and only one, of them, so no
\* activation is lost or doubled, whichever of the two ways it is scheduled
\* and however often it is preempted.
ActiveTasksAccounted ==
  \A t \in Task :
    /\ t \in activeTasks => \E s \in stations(t) : stations(t) = {s}
    /\ t \notin activeTasks => stations(t) = {}

\* The scheduler's own queues hold the ready tasks, and in slots the running
\* one as well, each of them once.
SchedulerConsistent ==
  /\ \A j \in Job :
       LET places == placesOf(scheduler, j)
       IN  IF j \in responsible(scheduler, readyTasks, runningTask)
           THEN \E place \in places : places = {place}
           ELSE places = {}
  /\ runningTask \notin readyTasks

\* Time is about to pass.
Settled == Quiet /\ ~DeltaPending

\* No priority inversion: when time is about to pass, no ready task is more
\* urgent than the running one, and none is ready while nothing runs.
NoPriorityInversion ==
  scheduler.class = "PRIORITY" /\ Settled =>
    \A j \in readyTasks : runningTask # NoTask /\ Priority[runningTask] <= Priority[j]

\* Round robin: while a job waits no other runs on when its time slice has
\* ended, however the ends of slices, delays and arrivals fall together.
SliceRespected ==
  scheduler.class = "ROUNDROBIN" /\ Settled /\ readyTasks # {} =>
    runningTask # NoTask /\ scheduler.expires > 0 /\ wake <= scheduler.expires

\* Slots: no time passes with a task running outside its slot, or in a static
\* slot in a cycle that the parameters found for it do not allow, however the
\* ends of slots, delays and arrivals fall together.
SlotRespected ==
  Settled /\ runningTask # NoTask => slotRespected(scheduler, runningTask)

\* The thread never sleeps without a timeout while a task is waiting for its
\* slot, its credit or the end of a gap: no arrival may come to wake it up.
NoStall ==
  Settled /\ readyTasks # {} => wake # NoNotify

\* Every task that is ready is assigned in the end, whatever else arrives,
\* where the scheduler gives each task its turn.
ReadyServed ==
  \A j \in Job :
    scheduler.class \in {"ROUNDROBIN", "SHAPER", "TDMA", "TTCC", "FLEXRAY", "AVB"}
      /\ j \in readyTasks
      ~> j \notin readyTasks \/ ~SliceAssertion \/ ~CreditAssertion

\* The thread wakes up in time: the running task has delay left when it is
\* assigned, and is looked at again when it has none.
FinishedInTime ==
  runningTask # NoTask =>
    /\ left >= 0
    /\ thread = "waiting" => wake = DeltaNotify \/ wake \in 1..left

\* While the component is powered down no release is forgotten: if one is
\* due, the application has been asked for power or is about to be.
PowerRequested ==
  ~canExecuteTasks /\ (\E t \in entries("normal") : isDue(t)) =>
    \/ requestExecuteTasks
    \/ releaseMethod["normal"] = "runnable"
    \/ releaseEvent["normal"] \in {DeltaNotify, 0}

\* Every entry leaves its release queue in the end, whenever the component is
\* powered down or up, unless the assertion of the method stops the program.
ActivationReleased ==
  \A t \in Task : due[t] # Absent ~> due[t] = Absent \/ ~ReleaseAssertion

\* The component implements a processor that serves its jobs one at a time,
\* for their delay altogether, and never idles while it has one.
AbstractProcessor ==
  INSTANCE Processor WITH
    Demand <- Delay,
    work   <- [j \in Job |->
                 IF j \in readyTasks THEN remaining[j]
                 ELSE IF j = runningTask THEN left ELSE Absent]

\* Under every scheduler, and without idling under the one by priority.
ImplementsProcessor ==
  /\ AbstractProcessor!Spec
  /\ [](scheduler.class = "PRIORITY") => AbstractProcessor!Fairness

=============================================================================
