------------------------- MODULE RoundRobinComponent -------------------------
(***************************************************************************)
(* RoundRobinComponent (RRNOPRE): a thread that polls its actors in turn,  *)
(* computes the messages in between, and sleeps only when no actor can     *)
(* fire.  While it polls, the actors' activation callbacks are off; before *)
(* it sleeps they are switched on, and the first actor that can fire       *)
(* switches them off again.  The module composes it with the execution     *)
(* model, which gives each firing its timing in the current power mode,    *)
(* and with the observers, which are told of every operation.              *)
(*                                                                         *)
(* readyEvent is notified immediately, so nothing is left to a later delta *)
(* cycle, and a notification is lost unless the thread waits for it.       *)
(*                                                                         *)
(* The assertions of the code are not assumed: the model goes on like a    *)
(* build without them.  The actors' inputs all come without delay, what    *)
(* their guards say is up to the application, and times are kept relative  *)
(* to the current one.                                                     *)
(***************************************************************************)
EXTENDS LookupPowerTimeModel, FiniteSets

CONSTANTS Msg,            \* the message hops routed over the component
          NoJob,          \* the null pointer
          TaskOrder,      \* taskList
          Succ,           \* the actor that reads an actor's output, or NoJob
          Hop,            \* the hop here that the output takes first, or NoJob
          Sources,        \* the actors fed, and the hops used, from outside
          Capacity,       \* the size of every actor's input channel
          MessageTiming,  \* the DII and latency of each hop
          StartPowerMode, \* startupPowermode
          Creations,      \* orders in which the tasks may be created
          DeadlineInfos   \* the configuration of the deadline monitor

Job == Task \cup Msg

ASSUME RoundRobinAssumption ==
  /\ Task \cap Msg = {} /\ NoJob \notin Job
  /\ TaskOrder \in Seq(Task) /\ Range(TaskOrder) = Task /\ IsInjective(TaskOrder)
  /\ Succ \in [Task -> Task \cup {NoJob}] /\ Hop \in [Task -> Msg \cup {NoJob}]
  /\ Sources \subseteq Job /\ Capacity \in Nat \ {0}
  /\ MessageTiming \in [Msg -> [dii : Nat, latency : Nat]]
  /\ \A j \in Msg : MessageTiming[j].latency >= MessageTiming[j].dii
  /\ StartPowerMode \in PowerModes
  /\ \A writer \in {Succ, Hop} : \A t \in Task : writer[t] # NoJob =>
       writer[t] \notin Sources /\ \A u \in Task : writer[u] = writer[t] => u = t
  /\ \A order \in Creations : order \in Seq(Job) /\ Range(order) = Job /\ IsInjective(order)
  /\ DeadlineInfos \in Seq([start : Job, ends : Seq([end : Job, deadline : Nat])])

VARIABLES
  (* the actors and their channels (SysteMoC) *)
  tokens,                 \* tokens an actor may read
  used,                   \* places taken in its input channel
  holds,                  \* what its guard says of its next firing
  (* the component *)
  fireActorInLoop,        \* its attribute
  useActivationCallback,
  readyMsgTasks,
  latencyQueue,           \* [job, time] for the latencies that are not over
  running,                \* assignedTaskInstance
  actualTask,             \* the firing that compute was called with
  (* its thread *)
  thread,                 \* "runnable" or "running", or what it waits for
  at,                     \* the place in the code it goes on from
  next,                   \* the position in taskList
  progress,
  wake,                   \* time to the end of wait(delay)
  overtaken,              \* (history) messages that came while a guard was evaluated
  (* the power of the component and its observers *)
  powerMode,
  powerConsumption,
  observers

channels == <<tokens, used, holds>>
place    == <<at, next, progress>>
power    == <<powerMode, powerConsumption>>
vars == <<channels, fireActorInLoop, useActivationCallback, readyMsgTasks, latencyQueue,
          running, actualTask, thread, place, wake, overtaken, power, observers>>

Component == INSTANCE ObservableComponent

Instance == [job : Job, type : {"ACTION", "GUARD", "MESSAGE"},
             delay : Nat, latency : Nat, power : Nat]

None == [job |-> NoJob, type |-> "ACTION", delay |-> 0, latency |-> 0, power |-> 0]

Dest(j) ==
  IF j \in Task THEN Succ[j]
  ELSE IF \E t \in Task : Hop[t] = j
       THEN Succ[CHOOSE t \in Task : Hop[t] = j]
       ELSE NoJob

\* canFire() of an actor evaluates its guard, and says so to the component.
guarded(t) == GuardNames[t] # <<>> \/ GuardComplexity[t] > 0

\* What the guards may say; an actor without one can always fire.
GuardValues == {h \in [Task -> BOOLEAN] : \A t \in Task : guarded(t) \/ h[t]}

TypeOK ==
  /\ tokens \in [Task -> 0..Capacity]
  /\ used \in [Task -> 0..Capacity]
  /\ holds \in GuardValues
  /\ fireActorInLoop \in BOOLEAN /\ useActivationCallback \in BOOLEAN
  /\ readyMsgTasks \in Seq(Msg)
  /\ latencyQueue \in Seq([job : Job, time : Nat])
  /\ running \in Instance \cup {None}
  /\ actualTask \in Instance \cup {None}
  /\ thread \in {"runnable", "running", "delay", "event"}
  /\ at \in {"top", "poll", "guarded", "compute", "fired", "asleep"}
  /\ next \in 1..(Len(TaskOrder) + 1)
  /\ progress \in BOOLEAN
  /\ wake \in Nat
  /\ overtaken \subseteq Msg
  /\ powerMode \in PowerModes /\ powerConsumption \in Nat
  /\ observers \in Component!Observers(Nat)

Init ==
  /\ tokens = [t \in Task |-> 0]
  /\ used = [t \in Task |-> 0]
  /\ holds \in GuardValues
  /\ fireActorInLoop \in BOOLEAN
  /\ useActivationCallback = FALSE
  /\ readyMsgTasks = <<>>
  /\ latencyQueue = <<>>
  /\ running = None /\ actualTask = None
  /\ thread = "runnable" /\ at = "top" /\ next = 1 /\ progress = FALSE
  /\ wake = 0 /\ overtaken = {}
  /\ powerMode = StartPowerMode /\ powerConsumption = powerIdle(StartPowerMode)
  /\ \E order \in Creations : observers = Component!created(order)

\* A process runs to its next wait: while the thread runs no other does.
Evaluating == thread # "running"

\* The thread runs, at this place.
Runs(where) == thread \in {"runnable", "running"} /\ at = where

-----------------------------------------------------------------------------
(* SysteMoC, as src/ uses it. *)

\* The actor has a token to read and a place to write to.
enabled(t, tk, us) == tk[t] > 0 /\ (Succ[t] # NoJob => us[Succ[t]] < Capacity)

\* The actor can fire.
fireable(t, tk, us, h) == enabled(t, tk, us) /\ h[t]

\* After a token has come to actor t its guard may hold, if it did not before;
\* after a firing it may say anything.
afterToken(t) ==
  IF t \in Task /\ guarded(t) THEN {holds, [holds EXCEPT ![t] = TRUE]} ELSE {holds}
afterFiring(t) ==
  IF guarded(t) THEN {[holds EXCEPT ![t] = v] : v \in BOOLEAN} ELSE {holds}

-----------------------------------------------------------------------------
(* Notification *)

\* readyEvent.notify()
notified(th) == IF th = "event" THEN "runnable" ELSE th

\* A token comes to actor t, which is announced if it can fire and if the
\* callbacks are on.
announced(t, tk, us, h) == t # NoJob /\ useActivationCallback /\ fireable(t, tk, us, h)

\* Mutated announce: readyEvent is not notified.
announceSilently(t, tk, us, h) ==
  /\ useActivationCallback' = (useActivationCallback /\ ~announced(t, tk, us, h))
  /\ UNCHANGED thread

\* notifyActivation(t, true): the callbacks are switched off.
announce(t, tk, us, h) ==
  /\ useActivationCallback' = (useActivationCallback /\ ~announced(t, tk, us, h))
  /\ thread' = IF announced(t, tk, us, h) THEN notified(thread) ELSE thread

\* setActivationCallback(true): whether the callbacks are still on after it.
\* Guards are evaluated in no time then, as check() returns at once.
armed == \A t \in Task : ~fireable(t, tokens, used, holds)

\* The history of the messages: these, if any, come while a guard is evaluated.
during(where, msgs) == IF where = "guarded" THEN overtaken \cup msgs ELSE overtaken

-----------------------------------------------------------------------------
(* Operations that the observers are told of. *)

told(o, op, j, pw) == Component!taskInstanceOperation(o, op, j, pw)

\* createTaskInstance
allocated(j) == told(observers, "ALLOCATE", j, powerConsumption)

-----------------------------------------------------------------------------
(* Actions of the surroundings. *)

\* A token comes in from another component.
Arrival(t) ==
  /\ Evaluating
  /\ t \in Sources \cap Task /\ used[t] < Capacity
  /\ tokens' = [tokens EXCEPT ![t] = @ + 1]
  /\ used' = [used EXCEPT ![t] = @ + 1]
  /\ holds' \in afterToken(t)
  /\ announce(t, tokens', used', holds')
  /\ UNCHANGED <<fireActorInLoop, readyMsgTasks, latencyQueue, running, actualTask,
                 place, wake, overtaken, power, observers>>

\* A route of another component starts a hop here: executeHop, compute.
\* Bound: one message per hop at a time.
MessageArrival(m) ==
  /\ Evaluating
  /\ m \in Sources \cap Msg
  /\ m # running.job /\ m \notin Range(readyMsgTasks)
  /\ readyMsgTasks' = Append(readyMsgTasks, m)
  /\ thread' = notified(thread)
  /\ overtaken' = during(at, {m})
  /\ observers' = allocated(m)
  /\ UNCHANGED <<channels, fireActorInLoop, useActivationCallback, latencyQueue, running,
                 actualTask, place, wake, power>>

\* changePowerMode: the consumption stays what it was.
ChangePowerMode(mode) ==
  /\ Evaluating
  /\ mode # powerMode
  /\ powerMode' = mode
  /\ observers' = Component!componentOperation(observers, powerConsumption)
  /\ UNCHANGED <<channels, fireActorInLoop, useActivationCallback, readyMsgTasks,
                 latencyQueue, running, actualTask, thread, place, wake, overtaken,
                 powerConsumption>>

-----------------------------------------------------------------------------
(* The life of a task instance (AbstractComponent). *)

\* releaseTaskInstance, assignTaskInstance, wait(getDelay())
Execute(inst) ==
  /\ running' = inst
  /\ powerConsumption' = inst.power
  /\ observers' = told(told(observers, "RELEASE", inst.job, powerConsumption),
                       "ASSIGN", inst.job, inst.power)
  /\ wake' = inst.delay
  /\ thread' = "delay"

instance(t, type) ==
  LET ti == initTaskInstance(registerAction(t), powerMode, type = "GUARD")
  IN  [job |-> t, type |-> type, delay |-> ti.delay, latency |-> ti.latency, power |-> ti.power]

checkFiringRule(t) == instance(t, "GUARD")

\* The inputs are over no routes, so none is waited for.
executeFiringRule(t) == instance(t, "ACTION")

\* A message has no power, and its timing does not depend on the power mode.
message(m) ==
  [job |-> m, type |-> "MESSAGE", delay |-> MessageTiming[m].dii,
   latency |-> MessageTiming[m].latency, power |-> 0]

\* The output of an actor takes its hop over this component, or is there.
hops(j) == j \in Task /\ Hop[j] # NoJob
delivered(j) == IF hops(j) THEN NoJob ELSE Dest(j)

arrived(tk, j) == [t \in Task |-> IF t = delivered(j) THEN tk[t] + 1 ELSE tk[t]]
forwarded(j) == IF hops(j) THEN Append(readyMsgTasks, Hop[j]) ELSE readyMsgTasks

\* Mutated freed: a guard gives the inputs back as well.
freedByGuard(us, inst) ==
  IF inst.type # "MESSAGE" THEN [us EXCEPT ![inst.job] = @ - 1] ELSE us

\* commFinish of the inputs of a firing.
freed(us, inst) ==
  IF inst.type = "ACTION" THEN [us EXCEPT ![inst.job] = @ - 1] ELSE us

\* finishDiiTaskInstance.  The observers are told before the power is set to
\* idle; if the latency is over as well, they are told of that after it.  (What
\* they do for the instance of a hop that starts, they do at FINISHLAT, too.)
finishDii(inst) ==
  LET dii == told(observers, "FINISHDII", inst.job, powerConsumption)
  IN  /\ used' = freed(used, inst)
      /\ running' = None
      /\ powerConsumption' = powerIdle(powerMode)
      /\ IF inst.latency = inst.delay
         THEN /\ tokens' = IF inst.type = "GUARD" THEN tokens ELSE arrived(tokens, inst.job)
              /\ holds' \in IF inst.type = "GUARD" THEN {holds}
                            ELSE afterToken(delivered(inst.job))
              /\ readyMsgTasks' = IF inst.type = "GUARD" THEN readyMsgTasks
                                  ELSE forwarded(inst.job)
              /\ observers' = told(dii, "FINISHLAT", inst.job, powerConsumption')
              /\ UNCHANGED latencyQueue
         ELSE /\ latencyQueue' =
                   Append(latencyQueue, [job |-> inst.job, time |-> inst.latency - inst.delay])
              /\ observers' = dii
              /\ UNCHANGED <<tokens, holds, readyMsgTasks>>

\* finishLatencyTaskInstance, from the callback of latencyQueue; entries of
\* one time are served in the order in which they were added.
LatencyExpires ==
  /\ Evaluating
  /\ \E i \in DOMAIN latencyQueue :
       /\ latencyQueue[i].time = 0
       /\ \A k \in 1..(i - 1) : latencyQueue[k].time > 0
       /\ LET j == latencyQueue[i].job
          IN  /\ latencyQueue' = RemoveAt(latencyQueue, i)
              /\ tokens' = arrived(tokens, j)
              /\ readyMsgTasks' = forwarded(j)
              /\ holds' \in afterToken(delivered(j))
              /\ observers' = told(observers, "FINISHLAT", j, powerConsumption)
              /\ IF hops(j)
                 THEN /\ thread' = notified(thread) /\ overtaken' = during(at, {Hop[j]})
                      /\ UNCHANGED useActivationCallback
                 ELSE announce(delivered(j), tokens', used, holds') /\ UNCHANGED overtaken
  /\ UNCHANGED <<used, fireActorInLoop, running, actualTask, place, wake, power>>

-----------------------------------------------------------------------------
(* scheduleThread *)

\* scheduleMessageTasks, at the four places it is called: the next message.
StartMessage ==
  /\ \E where \in {"top", "compute", "fired", "asleep"} : Runs(where)
  /\ readyMsgTasks # <<>>
  /\ Execute(message(Head(readyMsgTasks)))
  /\ readyMsgTasks' = Tail(readyMsgTasks)
  /\ overtaken' = overtaken \ {Head(readyMsgTasks)}
  /\ progress' = (progress \/ at = "top")
  /\ UNCHANGED <<channels, fireActorInLoop, useActivationCallback, latencyQueue,
                 actualTask, at, next, powerMode>>

\* The round begins when there is no message left.
BeginRound ==
  /\ Runs("top") /\ readyMsgTasks = <<>>
  /\ thread' = "running" /\ at' = "poll" /\ next' = 1
  /\ UNCHANGED <<channels, fireActorInLoop, useActivationCallback, readyMsgTasks,
                 latencyQueue, running, actualTask, progress, wake, overtaken, power,
                 observers>>

\* canFire() of the next actor is false: it lacks a token or a place, or its
\* guard does not hold when the time of the evaluation is over.
Skip ==
  /\ \/ /\ Runs("poll") /\ next \in DOMAIN TaskOrder
        /\ ~enabled(TaskOrder[next], tokens, used)
     \/ Runs("guarded") /\ ~holds[TaskOrder[next]]
  /\ thread' = "running" /\ at' = "poll" /\ next' = next + 1
  /\ UNCHANGED <<channels, fireActorInLoop, useActivationCallback, readyMsgTasks,
                 latencyQueue, running, actualTask, progress, wake, overtaken, power,
                 observers>>

\* canFire() evaluates the guard, which takes time: checkFiringRule, check.
CheckGuard ==
  /\ Runs("poll") /\ next \in DOMAIN TaskOrder
  /\ guarded(TaskOrder[next]) /\ enabled(TaskOrder[next], tokens, used)
  /\ Execute(checkFiringRule(TaskOrder[next]))
  /\ at' = "guarded"
  /\ UNCHANGED <<channels, fireActorInLoop, useActivationCallback, readyMsgTasks,
                 latencyQueue, actualTask, next, progress, overtaken, powerMode>>

\* schedule(): executeFiringRule takes the inputs, reserves the outputs and
\* calls compute at once.
Fire ==
  /\ \/ Runs("guarded") /\ holds[TaskOrder[next]]
     \/ /\ Runs("poll") /\ next \in DOMAIN TaskOrder
        /\ ~guarded(TaskOrder[next]) /\ enabled(TaskOrder[next], tokens, used)
  /\ LET t == TaskOrder[next]
     IN  /\ tokens' = [tokens EXCEPT ![t] = @ - 1]
         /\ used' = IF Succ[t] = NoJob THEN used ELSE [used EXCEPT ![Succ[t]] = @ + 1]
         /\ holds' \in afterFiring(t)
         /\ actualTask' = executeFiringRule(t)
  /\ thread' = "running" /\ at' = "compute" /\ progress' = TRUE
  /\ observers' = allocated(TaskOrder[next])
  /\ UNCHANGED <<fireActorInLoop, useActivationCallback, readyMsgTasks, latencyQueue,
                 running, next, wake, overtaken, power>>

\* compute, when its scheduleMessageTasks is through.
Compute ==
  /\ Runs("compute") /\ readyMsgTasks = <<>>
  /\ Execute(actualTask)
  /\ actualTask' = None
  /\ at' = "fired"
  /\ UNCHANGED <<channels, fireActorInLoop, useActivationCallback, readyMsgTasks,
                 latencyQueue, next, progress, overtaken, powerMode>>

\* The end of wait(getDelay()).  An output may be announced, but the thread
\* does not wait for readyEvent now.
Timeout ==
  /\ thread = "delay" /\ wake = 0
  /\ finishDii(running)
  /\ useActivationCallback' =
       (useActivationCallback /\ \/ tokens' = tokens
                                 \/ ~announced(delivered(running.job), tokens', used', holds'))
  /\ thread' = "running"
  /\ UNCHANGED <<fireActorInLoop, actualTask, place, wake, overtaken, powerMode>>

\* Mutated again: fireActorInLoop is not asked.
againAlways(t) == enabled(t, tokens, used)

\* fireActorInLoop && canFire(), which evaluates the guard in the next step.
again(t) == fireActorInLoop /\ enabled(t, tokens, used)

\* After a firing: the same actor again, or the next one.
AfterFiring ==
  /\ Runs("fired") /\ readyMsgTasks = <<>>
  /\ thread' = "running" /\ at' = "poll"
  /\ next' = IF again(TaskOrder[next]) THEN next ELSE next + 1
  /\ UNCHANGED <<channels, fireActorInLoop, useActivationCallback, readyMsgTasks,
                 latencyQueue, running, actualTask, progress, wake, overtaken, power,
                 observers>>

\* The end of the round: the thread sleeps if nothing was done and if no actor
\* can fire when the callbacks are switched on.
EndRound ==
  /\ Runs("poll") /\ next \notin DOMAIN TaskOrder
  /\ \/ /\ (progress \/ ~armed)
        /\ thread' = "running" /\ at' = "top" /\ progress' = FALSE
        /\ UNCHANGED useActivationCallback
     \/ /\ ~progress /\ armed
        /\ useActivationCallback' = TRUE
        /\ thread' = "event" /\ at' = "asleep" /\ UNCHANGED progress
  /\ UNCHANGED <<channels, fireActorInLoop, readyMsgTasks, latencyQueue, running,
                 actualTask, next, wake, overtaken, power, observers>>

\* Awake: back to sleep unless notifyActivation has switched the callbacks off.
Awake ==
  /\ Runs("asleep") /\ readyMsgTasks = <<>>
  /\ IF useActivationCallback
     THEN thread' = "event" /\ UNCHANGED <<at, progress>>
     ELSE thread' = "running" /\ at' = "top" /\ progress' = FALSE
  /\ UNCHANGED <<channels, fireActorInLoop, useActivationCallback, readyMsgTasks,
                 latencyQueue, running, actualTask, next, wake, overtaken, power, observers>>

-----------------------------------------------------------------------------
(* The kernel. *)

\* Nothing is left to do at this time.
Quiet ==
  /\ \/ thread = "event"
     \/ thread = "delay" /\ wake > 0
  /\ \A i \in DOMAIN latencyQueue : latencyQueue[i].time > 0

AdvanceTime ==
  /\ Quiet
  /\ wake' = IF thread = "delay" THEN wake - 1 ELSE wake
  /\ latencyQueue' = [i \in DOMAIN latencyQueue |-> [latencyQueue[i] EXCEPT !.time = @ - 1]]
  /\ observers' = Component!elapsed(observers)
  /\ UNCHANGED <<channels, fireActorInLoop, useActivationCallback, readyMsgTasks, running,
                 actualTask, thread, place, overtaken, power>>

Thread ==
  \/ StartMessage \/ BeginRound \/ Skip \/ CheckGuard \/ Fire \/ Compute
  \/ Timeout \/ AfterFiring \/ EndRound \/ Awake

Next ==
  \/ \E t \in Task : Arrival(t)
  \/ \E m \in Msg : MessageArrival(m)
  \/ \E mode \in PowerModes : ChangePowerMode(mode)
  \/ Thread
  \/ LatencyExpires
  \/ AdvanceTime

Spec == Init /\ [][Next]_vars

\* The kernel runs every runnable process and lets time go on.
FairSpec == Spec /\ WF_vars(Thread) /\ WF_vars(LatencyExpires) /\ WF_vars(AdvanceTime)

-----------------------------------------------------------------------------
(* Properties *)

\* No wakeup is lost, though readyEvent is notified immediately: whenever the
\* thread waits for it, no actor can fire, the callbacks are on, so that the
\* next message or activation wakes it, and no message is left, with one
\* exception.  While check() lets the time of a guard pass, a message is only put
\* into the list; if no actor can fire then, it stays there until the next wakeup.
NoLostWakeup ==
  thread = "event" =>
    /\ useActivationCallback
    /\ Range(readyMsgTasks) \subseteq overtaken
    /\ \A t \in Task : ~fireable(t, tokens, used, holds)

\* The polling is fair: unless an actor may fire in a loop, every one that can
\* fire is computed, whatever the messages, the guards and the other actors do.
ActorsServed ==
  \A t \in Task : fireable(t, tokens, used, holds) ~>
                    (running.job = t /\ running.type = "ACTION") \/ fireActorInLoop

\* No task was ever released.
unused == \A j \in Job : observers.signal[j].lastValue = Component!Tracers!plain("0")

\* When time goes on the observer charges it at the power the component has,
\* which the gauge of the trace will show.
\* There are two exceptions, at which an idle component is charged nothing or
\* as running: until the first operation, and from the end of a DII to the next
\* operation if the latency is longer.
EnergyCharged ==
  Quiet => \/ {observers.energy.powerValue, observers.paje.powerValue} = {powerConsumption}
           \/ running = None /\ (unused \/ latencyQueue # <<>>)

\* When the trace is sampled, before time goes on, the signal of a task says
\* whether it runs; and if it was assigned at this time, the signal differs
\* from what was sampled before, so a firing that follows another one at once
\* is seen in the trace.  The activity that PAJE will trace is open since then.
TraceFaithful ==
  Quiet =>
    /\ \A j \in Job :
         LET s == observers.signal[j]
         IN  /\ s.currentValue.letter = IF running.job = j THEN "R" ELSE " "
             /\ running.job = j /\ wake = running.delay /\ s.changedNow
                  => s.currentValue # s.sampled
    /\ observers.paje.startTime =
         IF running = None THEN Component!Tracers!NoTime ELSE running.delay - wake

\* The jobs on the way from a start actor to an end actor.
way(d, e) == IF d = e THEN {d} ELSE {d, Hop[d], e} \ {NoJob}

\* The firings of start actor d whose effect has not got to the end of the
\* latency of a firing of e.
inFlight(d, e) ==
  LET after == way(d, e) \ {d}
      late  == {i \in DOMAIN latencyQueue : latencyQueue[i].job \in way(d, e)}
      hop   == {i \in DOMAIN readyMsgTasks : readyMsgTasks[i] \in after}
  IN  Cardinality(late) + Cardinality(hop)
      + (IF e \in after \cap Task THEN tokens[e] ELSE 0)
      + (IF actualTask.job \in after THEN 1 ELSE 0)
      + (IF running.job \in way(d, e) THEN 1 ELSE 0)

\* Every configured deadline is supervised: from the release of its start
\* actor to the end of the latency of the firing of its end actor that reads
\* the result there is one active deadline ("If this is an end actor this will
\* store all active (absolute) deadlines", DeadlineMonitor.cpp:164), and a group
\* to report its violation to, unless the actor is start and end at once.
DeadlinesSupervised ==
  \A i \in DOMAIN DeadlineInfos : \A k \in DOMAIN DeadlineInfos[i].ends :
    LET d == DeadlineInfos[i].start
        e == DeadlineInfos[i].ends[k].end
    IN  /\ Len(observers.monitor.activeDeadlines[e]) = inFlight(d, e)
        /\ d # e /\ inFlight(d, e) > 0 => observers.monitor.reportGroupReport[e] # NoJob

\* The configurations of the monitor that it can supervise: a single attribute
\* has end actors, each once, for the list is cleared before the names are
\* compared; start and end actor have no guards, for the monitor takes those for
\* firings; the end actor reads what the start actor writes; and the start actor
\* is created first.
Supervisable ==
  \A i \in DOMAIN DeadlineInfos : \A k \in DOMAIN DeadlineInfos[i].ends :
    LET d == DeadlineInfos[i].start
        e == DeadlineInfos[i].ends[k].end
    IN  /\ i = Len(DeadlineInfos)
        /\ \A l \in DOMAIN DeadlineInfos[i].ends : DeadlineInfos[i].ends[l].end = e => l = k
        /\ d # e =>
             /\ {d, e} \subseteq Task /\ ~guarded(d) /\ ~guarded(e) /\ Succ[d] = e
             /\ \A order \in Creations : \E p, q \in DOMAIN order :
                  p < q /\ order[p] = d /\ order[q] = e

=============================================================================
