------------------------ MODULE NonPreemptiveComponent ------------------------
(***************************************************************************)
(* A component with a non-preemptive scheduler: NonPreemptiveComponent and *)
(* the parts of AbstractComponent it uses, with the selection policies of  *)
(* FcfsComponent, PriorityComponent and DynamicPriorityComponent.          *)
(*                                                                         *)
(* An actor that can fire is announced by notifyActivation, kept in        *)
(* activeTasks and in ttReleaseQueue until its release time, fired,        *)
(* computed once its inputs have arrived, selected by scheduleThread,      *)
(* assigned for its DII, and its outputs appear when its latency is over.  *)
(*                                                                         *)
(* Times are kept relative to the current simulated time, so a state is a  *)
(* state of the program up to a shift of the clock and no bound on time is *)
(* needed.  latencyQueue only ever gets positive delays and is used by its *)
(* specification Timers (theorem TimeQueueImplementsTimers);               *)
(* ttReleaseQueue, which gets zero delays too, is modelled in full.        *)
(***************************************************************************)
EXTENDS SimKernel, SequencesExt

CONSTANTS Task,       \* the actors mapped to the component
          Msg,        \* the message hops routed over it
          NoTask,     \* the null pointer
          Periodic,   \* the actors that are released periodically
          Period,     \* the period of each of them
          Delay,      \* the DII of each job
          Latency,    \* its latency
          Priority,   \* its priority: the lesser value goes first
          Remote,     \* the number of an actor's inputs that take time to read
          Succ,       \* the actor that reads an actor's output, or NoTask
          Hop,        \* the hop here that the output takes first, or NoTask
          Sources,    \* the actors fed, and the hops used, from outside
          Capacity,   \* the size of every actor's input channel
          Policies    \* the classes the component may be of

Job == Task \cup Msg

ASSUME ConstantsAssumption ==
  /\ IsFiniteSet(Task) /\ Task \cap Msg = {} /\ NoTask \notin Job
  /\ Periodic \subseteq Task /\ Period \in [Periodic -> Nat \ {0}]
  /\ Delay \in [Job -> Nat \ {0}]
  /\ Latency \in [Job -> Nat]
  /\ \A j \in Job : Latency[j] >= Delay[j]
  /\ Priority \in [Job -> Int]
  /\ Remote \in [Task -> Nat]
  /\ Succ \in [Task -> Task \cup {NoTask}]
  /\ Hop \in [Task -> Msg \cup {NoTask}]
  /\ \A s, t \in Task : Succ[s] = Succ[t] /\ Succ[s] # NoTask => s = t
  /\ \A s, t \in Task : Hop[s] = Hop[t] /\ Hop[s] # NoTask => s = t
  /\ Sources \subseteq Job   \* a channel has one writer, a hop one route
  /\ \A t \in Task : Succ[t] \notin Sources /\ Hop[t] \notin Sources
  /\ Capacity \in Nat \ {0}
  /\ Policies \subseteq {"FCFS", "PRIORITY", "DYNAMIC"}

VARIABLES
  (* the actors and their channels (SysteMoC) *)
  tokens,         \* tokens an actor may read
  used,           \* places taken in its input channel
  release,        \* time to a periodic actor's next release, or Late
  phase,          \* time to the next point of its period
  (* the component *)
  class,          \* its class, which its configuration fixes
  activeTasks,    \* activeTasks
  due,            \* ttReleaseQueue: time to an entry, Late or Absent
  releaseEvent,   \* its queueEvent
  releaseMethod,  \* its queueMethod
  missing,        \* InputsAvailableListener::missing of an actor
  readyTasks,     \* the ready list, in order of arrival
  runningTask,    \* runningTask, equally assignedTaskInstance
  scheduleEvent,  \* the pending notification of scheduleEvent
  thread,         \* where scheduleThread is
  wake,           \* time to the end of its wait(delay)
  latencyQueue,   \* [job, time] for the latencies that are not over
  priorities,     \* DynamicPriorityComponent::priorities_
  selectedTask,   \* DynamicPriorityComponent::selectedTask
  yieldTask,      \* DynamicPriorityComponent::yieldTask
  (* the kernel *)
  firstDelta      \* this is the first delta cycle at this time

actors    == <<tokens, used, release, phase>>
queue     == <<activeTasks, due, releaseEvent>>
scheduler == <<thread, wake>>
policy    == <<class, priorities, selectedTask, yieldTask>>
vars == <<actors, queue, releaseMethod, missing, readyTasks, runningTask,
          scheduleEvent, scheduler, latencyQueue, policy, firstDelta>>

Absent == -1
Late   == -2     \* the time of a release has passed

\* The hop a message takes belongs to the actor that sends it.
Dest(j) ==
  IF j \in Task THEN Succ[j]
  ELSE IF \E t \in Task : Hop[t] = j
       THEN Succ[CHOOSE t \in Task : Hop[t] = j]
       ELSE NoTask

TypeOK ==
  /\ tokens \in [Task -> 0..Capacity]
  /\ used \in [Task -> 0..Capacity]
  /\ release \in [Periodic -> {Late} \cup Nat]
  /\ phase \in [Periodic -> Nat \ {0}]
  /\ class \in Policies
  /\ activeTasks \subseteq Task
  /\ due \in [Task -> {Absent, Late} \cup Nat]
  /\ releaseEvent \in Notification
  /\ releaseMethod \in {"idle", "runnable", "loop"}
  /\ missing \in [Task -> Nat]
  /\ readyTasks \in Seq(Job)
  /\ runningTask \in Job \cup {NoTask}
  /\ scheduleEvent \in {NoNotify, DeltaNotify}
  /\ thread \in {"runnable", "woken", "timeout", "loop", "computing", "sleep"}
  /\ wake \in Nat
  /\ latencyQueue \subseteq [job : Job, time : Nat]
  /\ priorities \in Seq(Task)
  /\ selectedTask \in Job \cup {NoTask}
  /\ yieldTask \in Task \cup {NoTask}
  /\ firstDelta \in BOOLEAN

\* The priority list at the start: the actors in the order of their priorities,
\* those of one priority in the order the application declares them.
configured ==
  {p \in [1..Cardinality(Task) -> Task] :
     /\ IsInjective(p)
     /\ \A i, k \in DOMAIN p : i < k => Priority[p[i]] <= Priority[p[k]]}

Init ==
  /\ tokens = [t \in Task |-> 0]
  /\ used = [t \in Task |-> 0]
  /\ release = [t \in Periodic |-> 0]
  /\ phase = Period
  /\ class \in Policies
  /\ activeTasks = Periodic
  /\ due = [t \in Task |-> IF t \in Periodic THEN 0 ELSE Absent]
  /\ releaseEvent = IF Periodic = {} THEN NoNotify ELSE DeltaNotify
  /\ releaseMethod = "idle"
  /\ missing = [t \in Task |-> 0]
  /\ readyTasks = <<>>
  /\ runningTask = NoTask
  /\ scheduleEvent = NoNotify
  /\ thread = "runnable"
  /\ wake = 0
  /\ latencyQueue = {}
  /\ priorities \in configured
  /\ selectedTask = NoTask
  /\ yieldTask = NoTask
  /\ firstDelta = TRUE

\* A process runs to its next wait: while one is in its loop no other runs.
Evaluating == releaseMethod # "loop" /\ thread # "loop"

-----------------------------------------------------------------------------
(* SysteMoC, as src/ uses it. *)

\* Mutated enabled: the place in the output channel is not asked for.
enabledWithoutSpace(t, tk, us) == t \in Periodic \/ tk[t] > 0

\* The actor has a token to read and a place to write to.
enabled(t, tk, us) ==
  /\ t \in Periodic \/ tk[t] > 0
  /\ Succ[t] = NoTask \/ us[Succ[t]] < Capacity

\* ScheduledTask::getNextReleaseTime() - sc_time_stamp().
nextRelease(t) == IF t \in Periodic THEN release[t] ELSE 0

-----------------------------------------------------------------------------
(* Activation.  A step may activate several actors one after the other, so *)
(* these operators map the queue, a record, to the queue.                  *)

theQueue == [active |-> activeTasks, due |-> due, event |-> releaseEvent]

\* queueEvent.notify(d).  The difference of two sc_times is unsigned: for a
\* passed release it wraps around, and so does the sum the kernel makes of it
\* and the current time, which is the passed time again.  The kernel triggers
\* such a notification when no process is runnable, without a step in time: 0.
notifyAt(event, d) ==
  IF d = Late THEN IF event = DeltaNotify THEN event ELSE 0
  ELSE Notify(event, 0, d)

setQueue(q) ==
  /\ activeTasks' = q.active
  /\ due' = q.due
  /\ releaseEvent' = q.event

\* Mutated notifyActivation: an active task is queued again.
notifyTwice(q, t) ==
  [active |-> q.active \cup {t},
   due    |-> [q.due EXCEPT ![t] = nextRelease(t)],
   event  |-> notifyAt(q.event, nextRelease(t))]

\* Mutated notifyActivation: the event is not notified if it is pending.
notifyOnce(q, t) ==
  IF t \in q.active THEN q
  ELSE [active |-> q.active \cup {t},
        due    |-> [q.due EXCEPT ![t] = nextRelease(t)],
        event  |-> IF q.event = NoNotify THEN notifyAt(q.event, nextRelease(t)) ELSE q.event]

\* NonPreemptiveComponent::notifyActivation(t, true)
notifyActivation(q, t) ==
  IF t \in q.active THEN q
  ELSE [active |-> q.active \cup {t},
        due    |-> [q.due EXCEPT ![t] = nextRelease(t)],
        event  |-> notifyAt(q.event, nextRelease(t))]

\* A channel of actor t has changed: it is announced if it can fire now.
announce(q, t, tk, us) ==
  IF t # NoTask /\ enabled(t, tk, us) THEN notifyActivation(q, t) ELSE q

-----------------------------------------------------------------------------
(* The ready list. *)

\* Mutated addTask: the condition of the notification is inverted.
addTaskInverted(j) ==
  /\ readyTasks' = Append(readyTasks, j)
  /\ scheduleEvent' = IF runningTask = NoTask THEN scheduleEvent ELSE DeltaNotify

\* NonPreemptiveComponent::addTask; newReadyTask appends.
addTask(j) ==
  /\ readyTasks' = Append(readyTasks, j)
  /\ scheduleEvent' = IF runningTask = NoTask THEN DeltaNotify ELSE scheduleEvent

\* The positions of readyTasks that selectReadyTask may return.  In the class
\* DYNAMIC it reads the entry after erasing it (DynamicPriorityComponent.cpp:89,
\* 91), where it still is unless the debug output has reused the memory.
selectable ==
  CASE class = "FCFS" -> {1}
    [] class = "PRIORITY" ->
         {i \in DOMAIN readyTasks : \A k \in DOMAIN readyTasks :
            \/ Priority[readyTasks[i]] < Priority[readyTasks[k]]
            \/ Priority[readyTasks[i]] = Priority[readyTasks[k]] /\ i <= k}
    [] class = "DYNAMIC" ->
         LET rank(t)    == CHOOSE n \in DOMAIN priorities : priorities[n] = t
             candidates == {i \in DOMAIN readyTasks :
                              /\ readyTasks[i] \in Task
                              /\ readyTasks[i] # yieldTask}
         IN  IF candidates = {} THEN {1}
             ELSE {i \in candidates : \A k \in candidates :
                     rank(readyTasks[i]) <= rank(readyTasks[k])}

-----------------------------------------------------------------------------
(* Actions of the surroundings. *)

\* A token comes in from another component.  All DIIs are positive, so every
\* step that produces one is made in the first delta cycle of its time.
Arrival(t) ==
  /\ Evaluating /\ firstDelta
  /\ t \in Sources \cap Task /\ used[t] < Capacity
  /\ tokens' = [tokens EXCEPT ![t] = @ + 1]
  /\ used' = [used EXCEPT ![t] = @ + 1]
  /\ setQueue(announce(theQueue, t, tokens', used'))
  /\ UNCHANGED <<release, phase, releaseMethod, missing, readyTasks, runningTask,
                 scheduleEvent, scheduler, latencyQueue, policy, firstDelta>>

\* A route of another component starts a hop here (AbstractComponent::
\* executeHop).  Bound: one message per hop at a time.
MessageArrival(m) ==
  /\ Evaluating
  /\ m \in Sources \cap Msg
  /\ m # runningTask /\ m \notin Range(readyTasks)
  /\ addTask(m)
  /\ UNCHANGED <<actors, queue, releaseMethod, missing, runningTask, scheduler,
                 latencyQueue, policy, firstDelta>>

\* A route delivers one of the remote inputs of a fired actor; the last one
\* calls compute (InputsAvailableListener::arrived).
InputArrived(t) ==
  /\ Evaluating
  /\ missing[t] > 0
  /\ missing' = [missing EXCEPT ![t] = @ - 1]
  /\ IF missing[t] = 1 THEN addTask(t) ELSE UNCHANGED <<readyTasks, scheduleEvent>>
  /\ UNCHANGED <<actors, queue, releaseMethod, runningTask, scheduler,
                 latencyQueue, policy, firstDelta>>

\* An actor asks to be passed over once (scheduleAfterTransition).
ScheduleAfterTransition ==
  /\ class = "DYNAMIC"
  /\ Evaluating
  /\ selectedTask \in Task /\ yieldTask # selectedTask
  /\ yieldTask' = selectedTask
  /\ UNCHANGED <<actors, queue, releaseMethod, missing, readyTasks, runningTask,
                 scheduleEvent, scheduler, latencyQueue, class, priorities,
                 selectedTask, firstDelta>>

\* The application reorders the priority list (setDynamicPriority).
SetDynamicPriority(i, k) ==
  /\ class = "DYNAMIC"
  /\ Evaluating
  /\ i < k
  /\ priorities' = [priorities EXCEPT ![i] = priorities[k], ![k] = priorities[i]]
  /\ UNCHANGED <<actors, queue, releaseMethod, missing, readyTasks, runningTask,
                 scheduleEvent, scheduler, latencyQueue, class, selectedTask,
                 yieldTask, firstDelta>>

-----------------------------------------------------------------------------
(* ttReleaseQueue: TimeQueueImpl::queueMethod with schedule() as callback. *)

\* t->schedule() fires the actor: AbstractComponent::executeFiringRule takes
\* the inputs, reserves the outputs and waits for the remote inputs.
executeFiringRule(t) ==
  /\ tokens' = IF t \in Periodic THEN tokens ELSE [tokens EXCEPT ![t] = @ - 1]
  /\ used' = IF Succ[t] = NoTask THEN used ELSE [used EXCEPT ![Succ[t]] = @ + 1]
  /\ release' = IF t \in Periodic THEN [release EXCEPT ![t] = phase[t]] ELSE release
  /\ missing' = [missing EXCEPT ![t] = Remote[t]]
  /\ IF Remote[t] = 0 THEN addTask(t) ELSE UNCHANGED <<readyTasks, scheduleEvent>>

pending == {t \in Task : due[t] # Absent}

\* The top of the queue, which is due now, is popped and its actor fired.
ReleaseTask(t) ==
  /\ \/ releaseMethod = "runnable" /\ Evaluating
     \/ releaseMethod = "loop"
  /\ due[t] = 0 /\ \A u \in pending : due[u] # Late
  /\ due' = [due EXCEPT ![t] = Absent]
  /\ releaseMethod' = "loop"
  /\ executeFiringRule(t)
  /\ UNCHANGED <<phase, activeTasks, releaseEvent, runningTask, scheduler,
                 latencyQueue, policy, firstDelta>>

\* The method leaves its loop, with a notification for the next entry.
ReleaseDone ==
  /\ releaseMethod = "loop"
  /\ \A t \in pending : due[t] > 0
  /\ \/ pending = {} /\ UNCHANGED releaseEvent
     \/ \E t \in pending : /\ \A u \in pending : due[t] <= due[u]
                           /\ releaseEvent' = Notify(releaseEvent, 0, due[t])
  /\ releaseMethod' = "idle"
  /\ UNCHANGED <<actors, activeTasks, due, missing, readyTasks, runningTask,
                 scheduleEvent, scheduler, latencyQueue, policy, firstDelta>>

-----------------------------------------------------------------------------
(* finishLatencyTaskInstance: the outputs appear. *)

\* The output of j takes its hop over this component ...
hops(j) == j \in Task /\ Hop[j] # NoTask

\* Mutated delivered: the output also skips its hop.
deliveredTwice(j) == Dest(j)

\* ... or is there for the actor that reads it.
delivered(j) == IF hops(j) THEN NoTask ELSE Dest(j)

arrived(tk, j) ==
  [t \in Task |-> IF t = delivered(j) THEN tk[t] + 1 ELSE tk[t]]

forward(j) ==
  IF hops(j) THEN addTask(Hop[j]) ELSE UNCHANGED <<readyTasks, scheduleEvent>>

LatencyExpires(e) ==
  /\ Evaluating /\ firstDelta
  /\ e \in latencyQueue /\ e.time = 0
  /\ latencyQueue' = latencyQueue \ {e}
  /\ forward(e.job)
  /\ tokens' = arrived(tokens, e.job)
  /\ setQueue(announce(theQueue, delivered(e.job), tokens', used))
  /\ UNCHANGED <<used, release, phase, releaseMethod, missing, runningTask,
                 scheduler, policy, firstDelta>>

-----------------------------------------------------------------------------
(* scheduleThread *)

\* The thread is started, or continues after wait(scheduleEvent).
ThreadRuns ==
  /\ Evaluating
  /\ \/ thread = "runnable"
     \/ thread = "woken" /\ readyTasks # <<>>
  /\ thread' = "loop"
  /\ UNCHANGED <<actors, queue, releaseMethod, missing, readyTasks, runningTask,
                 scheduleEvent, wake, latencyQueue, policy, firstDelta>>

\* selectReadyTask, assignTaskInstance, wait(getDelay()).
Dispatch ==
  /\ thread = "loop" /\ readyTasks # <<>>
  /\ \E i \in selectable :
       /\ runningTask' = readyTasks[i]
       /\ selectedTask' = IF class = "DYNAMIC" THEN readyTasks[i] ELSE selectedTask
       /\ readyTasks' = RemoveAt(readyTasks, i)
  /\ yieldTask' = NoTask
  /\ wake' = Delay[runningTask']
  /\ thread' = "computing"
  /\ UNCHANGED <<actors, queue, releaseMethod, missing, scheduleEvent,
                 latencyQueue, class, priorities, firstDelta>>

\* Mutated Sleep: `if' instead of `while (readyTasks > 0)'.
sleepAfterOne ==
  /\ thread = "loop"
  /\ thread' = "sleep"
  /\ UNCHANGED <<actors, queue, releaseMethod, missing, readyTasks, runningTask,
                 scheduleEvent, wake, latencyQueue, policy, firstDelta>>

\* wait(scheduleEvent)
Sleep ==
  /\ thread = "loop" /\ readyTasks = <<>>
  /\ thread' = "sleep"
  /\ UNCHANGED <<actors, queue, releaseMethod, missing, readyTasks, runningTask,
                 scheduleEvent, wake, latencyQueue, policy, firstDelta>>

\* Mutated freed: commFinish of the inputs is left out.
freedNever(j) == used

\* finishDiiTaskInstance: an actor's inputs are consumed, which makes room
\* for the actors that write to it; with no latency left the outputs appear.
freed(j) == [t \in Task |-> IF t = j /\ t \notin Periodic THEN used[t] - 1 ELSE used[t]]

writer(j) ==
  IF \E t \in Task : Succ[t] = j THEN CHOOSE t \in Task : Succ[t] = j ELSE NoTask

finishDii(j) ==
  /\ used' = freed(j)
  /\ IF Latency[j] = Delay[j]
     THEN /\ tokens' = arrived(tokens, j)
          /\ forward(j)
          /\ UNCHANGED latencyQueue
     ELSE /\ latencyQueue' = latencyQueue \cup {[job |-> j, time |-> Latency[j] - Delay[j]]}
          /\ UNCHANGED <<tokens, readyTasks, scheduleEvent>>

\* The actors that finishDii(j) announces, in the order of the code.
announced(j) ==
  LET q == announce(theQueue, writer(j), tokens, used')
  IN  IF Latency[j] = Delay[j] THEN announce(q, delivered(j), tokens', used') ELSE q

\* Mutated reactivate: canFire() is asked before the task is erased ...
reactivateBeforeErase(q, t) ==
  [announce(q, t, tokens', used') EXCEPT !.active = @ \ {t}]

\* ... or the task is not erased at all ...
reactivateKeepsActive(q, t) == announce(q, t, tokens', used')

\* ... or the answer is ignored.
reactivateAlways(q, t) == notifyActivation([q EXCEPT !.active = @ \ {t}], t)

\* activeTasks.erase(t), then canFire() and the next activation of t.
reactivate(q, t) ==
  announce([q EXCEPT !.active = @ \ {t}], t, tokens', used')

\* The DII of the running task is over.
Timeout ==
  /\ Evaluating
  /\ thread = "timeout"
  /\ finishDii(runningTask)
  /\ setQueue(IF runningTask \in Task
              THEN reactivate(announced(runningTask), runningTask)
              ELSE announced(runningTask))
  /\ runningTask' = NoTask
  /\ thread' = "loop"
  /\ UNCHANGED <<release, phase, releaseMethod, missing, wake, policy, firstDelta>>

-----------------------------------------------------------------------------
(* The kernel. *)

\* No process is runnable.
Quiet ==
  /\ releaseMethod = "idle"
  /\ thread \in {"computing", "sleep"}
  /\ firstDelta => \A e \in latencyQueue : e.time > 0

DeltaCycle ==
  /\ Quiet
  /\ releaseEvent = DeltaNotify \/ scheduleEvent = DeltaNotify
  /\ releaseMethod' = IF releaseEvent = DeltaNotify THEN "runnable" ELSE releaseMethod
  /\ releaseEvent' = IF releaseEvent = DeltaNotify THEN NoNotify ELSE releaseEvent
  /\ thread' = IF scheduleEvent = DeltaNotify /\ thread = "sleep" THEN "woken" ELSE thread
  /\ scheduleEvent' = NoNotify
  /\ firstDelta' = FALSE
  /\ UNCHANGED <<actors, activeTasks, due, missing, readyTasks, runningTask, wake,
                 latencyQueue, policy>>

\* The notification for a passed release triggers.
LateNotification ==
  /\ Quiet /\ scheduleEvent # DeltaNotify
  /\ releaseEvent = 0
  /\ releaseEvent' = NoNotify
  /\ releaseMethod' = "runnable"
  /\ UNCHANGED <<actors, activeTasks, due, missing, readyTasks, runningTask,
                 scheduleEvent, scheduler, latencyQueue, policy, firstDelta>>

AdvanceTime ==
  /\ Quiet
  /\ releaseEvent \notin {DeltaNotify, 0} /\ scheduleEvent # DeltaNotify
  /\ LET elapse(n) == IF n > 0 THEN n - 1 ELSE n
         pass(n)   == IF n = 0 THEN Late ELSE elapse(n)
     IN  /\ release' = [t \in Periodic |-> pass(release[t])]
         /\ phase' = [t \in Periodic |-> IF phase[t] = 1 THEN Period[t] ELSE phase[t] - 1]
         /\ due' = [t \in Task |-> pass(due[t])]
         /\ releaseEvent' = IF releaseEvent = 1 THEN NoNotify ELSE elapse(releaseEvent)
         /\ wake' = elapse(wake)
         /\ latencyQueue' = {[e EXCEPT !.time = elapse(@)] : e \in latencyQueue}
  /\ releaseMethod' = IF releaseEvent = 1 THEN "runnable" ELSE releaseMethod
  /\ thread' = IF thread = "computing" /\ wake = 1 THEN "timeout" ELSE thread
  /\ firstDelta' = TRUE
  /\ UNCHANGED <<tokens, used, activeTasks, missing, readyTasks, runningTask,
                 scheduleEvent, policy>>

-----------------------------------------------------------------------------
Release == (\E t \in Task : ReleaseTask(t)) \/ ReleaseDone
Thread == ThreadRuns \/ Dispatch \/ Sleep \/ Timeout
Latencies == \E e \in latencyQueue : LatencyExpires(e)

Next ==
  \/ \E t \in Task : Arrival(t) \/ InputArrived(t)
  \/ \E m \in Msg : MessageArrival(m)
  \/ ScheduleAfterTransition
  \/ \E i, k \in DOMAIN priorities : SetDynamicPriority(i, k)
  \/ Release
  \/ Latencies
  \/ Thread
  \/ DeltaCycle \/ LateNotification \/ AdvanceTime

Spec == Init /\ [][Next]_vars

\* The kernel runs every runnable process and lets time go on; a route that
\* was started delivers in the end, however busy this component is.
FairSpec ==
  /\ Spec
  /\ WF_vars(Release) /\ WF_vars(Thread) /\ WF_vars(Latencies)
  /\ WF_vars(DeltaCycle) /\ WF_vars(LateNotification) /\ WF_vars(AdvanceTime)
  /\ \A t \in Task : SF_vars(InputArrived(t))

-----------------------------------------------------------------------------
(* Properties *)

\* No assertion fails.  scheduleThread is never woken for nothing
\* (NonPreemptiveComponent.cpp:138), the task whose DII ends is in activeTasks
\* (:130), and the method of ttReleaseQueue is never runnable unless its top is
\* due now (TimeQueue.cpp:40, 42).  Only the process concerned takes
\* away what its assertion asks for.
AssertionsHold ==
  /\ thread = "woken" => readyTasks # <<>>
  /\ thread = "timeout" /\ runningTask \in Task => runningTask \in activeTasks
  /\ releaseMethod = "runnable" => /\ \E t \in Task : due[t] = 0
                                  /\ \A t \in pending : due[t] # Late

\* Where an active task is on its way to the end of its DII.
stations(t) ==
  {s \in {"queued", "waiting", "ready", "running"} :
     \/ s = "queued"  /\ due[t] # Absent
     \/ s = "waiting" /\ missing[t] > 0
     \/ s = "ready"   /\ t \in Range(readyTasks)
     \/ s = "running" /\ t = runningTask}

\* A task is in activeTasks exactly while it is in one, and only one, of the
\* stations between notifyActivation and the end of its DII; it is ready at
\* most once.  An activation is therefore never lost and never doubled.
ActiveTasksAccounted ==
  \A t \in Task :
    /\ t \in activeTasks => \E s \in stations(t) : stations(t) = {s}
    /\ t \notin activeTasks => stations(t) = {}
    /\ \A i, k \in DOMAIN readyTasks :
         readyTasks[i] = t /\ readyTasks[k] = t => i = k

\* No activation is lost: between two steps of the processes an actor that
\* can fire is active, though notifyActivation ignores the active ones
\* (comment at NonPreemptiveComponent.cpp:125-129).
NoActivationLost ==
  \A t \in Task : enabled(t, tokens, used) => t \in activeTasks

\* An actor released by the queue can fire: nobody took its token or its
\* place in the output channel between the activation and the release.
ReleasedTasksCanFire ==
  \A t \in Task : due[t] # Absent => enabled(t, tokens, used)

\* The event triggers when the release is due, or earlier.
inTime(event, d) ==
  \/ event = DeltaNotify
  \/ d = Late /\ event = 0
  \/ d >= 0 /\ event \in 0..d

\* No release is forgotten, though an activation may come at any point of a
\* delta cycle, with a release that is due now, later or has passed, before or
\* after those that are queued: while the method of ttReleaseQueue is not on its
\* way its event is pending, and for no later time than any entry's.  So time
\* does not pass an entry; one that is late was late when it was added.
ReleasedInTime ==
  releaseMethod = "idle" => \A t \in pending : inTime(releaseEvent, due[t])

\* No wakeup is lost: with a task ready and none running, the thread is
\* about to look at the ready list.
NoLostWakeup ==
  readyTasks # <<>> /\ runningTask = NoTask =>
    \/ thread \in {"runnable", "woken", "loop"}
    \/ thread = "sleep" /\ scheduleEvent = DeltaNotify

\* The firings of an actor and the outputs of it that are still to come.
fired(t) == t \in activeTasks /\ due[t] = Absent

outputs(t) ==
  LET late == {e \in latencyQueue : e.job \in {t, Hop[t]}}
      hop  == {i \in DOMAIN readyTasks : readyTasks[i] = Hop[t]}
  IN  Cardinality(late) + Cardinality(hop)
      + (IF fired(t) THEN 1 ELSE 0)
      + (IF runningTask # NoTask /\ runningTask = Hop[t] THEN 1 ELSE 0)

\* Tokens are conserved: every place taken in a channel holds a token, or
\* one being read by a firing, or is reserved for one that is still in the
\* latency or the hop of its writer.  None is lost, doubled or freed early.
TokensConserved ==
  \A t \in Task \ Periodic :
    used[t] = tokens[t] + (IF fired(t) THEN 1 ELSE 0)
              + (IF writer(t) = NoTask THEN 0 ELSE outputs(writer(t)))

\* Every activation leads to the firing being assigned.
ActivationServed ==
  \A t \in Task : t \in activeTasks ~> t = runningTask

\* The component implements the untimed dataflow graph of its actors: it
\* delays firings and outputs, but takes, reserves, frees and delivers what
\* a firing should, and every actor that can fire does.
AbstractDataflow ==
  INSTANCE Dataflow WITH
    Fed    <- Sources \cap Task,
    firing <- {t \in Task : fired(t)},
    output <- [t \in Task |-> outputs(t)]

ImplementsDataflow == AbstractDataflow!FairSpec

=============================================================================
