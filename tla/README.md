# A verification development for SystemC-VPC

SystemC-VPC adds *Virtual Processing Components* to SystemC models: the actors of
a SysteMoC application are mapped to components with a scheduler, an execution
model and a power state, and the application is simulated with the timing they
imply. The library (`src/src/systemcvpc/`) runs on the SystemC kernel and is
called by SysteMoC; neither of these is part of the repository. `src/opendse-vpc/`
is the tool that explores implementations of an application: it writes a
configuration for each, runs the simulation and reads the objectives. This
directory holds TLA+ models of both, the TLC runs that check them, and theorems
about them checked by TLAPS.

Paths below are relative to `src/src/systemcvpc/cpp/detail/`, and those of Java
files to `src/opendse-vpc/src/main/java/de/fau/scd/VPC/`, unless they say otherwise.

## 1. Inventory

| Component | State | Operations | What makes it correct |
|---|---|---|---|
| `TimeQueue` | priority queue of (time, object), one `sc_event` | `add`, `queueMethod` with its callback | every object is handed back once, exactly at its time; the assertions at `TimeQueue.cpp:40,42` |
| `AbstractComponent` | `canExecuteTasks`, `requestExecuteTasks`, component state, power mode, `assignedTaskInstance`, `latencyQueue` | `executeFiringRule`, `executeHop`, release/assign/resign/finish of an instance, `setCanExec`, `requestCanExecute` | each firing passes through its stages once and in order; input places are freed at the DII, outputs appear at the latency |
| `NonPreemptiveComponent` and its FCFS, Priority and DynamicPriority subclasses | `activeTasks`, `ttReleaseQueue`, ready list, `runningTask`, `scheduleEvent`, priorities, `yieldTask` | `notifyActivation`, `compute`, `scheduleThread`, `setDynamicPriority`, `scheduleAfterTransition` | no activation, wakeup or token is lost; work conservation; service |
| `RoundRobinComponent` (RRNOPRE) | list of ready messages, `readyEvent`, whether the activation callbacks are on | `notifyActivation`, `scheduleThread`, `checkFiringRule`, `executeFiringRule`, `executeHop` | no wakeup is lost; every actor gets its turn |
| `PreemptiveComponent` | `activeTasks`, two release queues, `readyTasks`, `runningTasks`, `scheduleEvent` | `notifyActivation`, `ttReleaseQueueMethod`, `scheduleThread`, `reactivateExecution` | each job is served for its delay, whatever preempts it; releases are held back and made up for around power down |
| Schedulers of it: Priority, RateMonotonic, RoundRobin, TDMA, FlexRay, TTCC, AVB, stream shaper, MOST | their own queues of instance numbers, slots, slices, credits | `setAttribute`, `addedNewTask`, `removedTask`, `schedulingDecision`, `getSchedulerTimeSlice` | agreement with the component's ready list; the policy itself; nobody is left asleep |
| Static routes (`Routing/StaticImpl`) | tree of hops; per message `currHops`, `nextFreeCurrHop` | `start`, `startHop`, `finishHop` | every destination gets every message once; a message is deleted when it is over and not before |
| Execution model (`ExecModelling/LookupPowerTimeModelImpl`) | timing tables and power per power mode | `add`, `registerAction`, `setPowerMode`, `initTaskInstance` | an instance gets the timing of the mode it starts in |
| `ObservableComponent` | observers, their per task storage | `addObserver`, one call per operation | each observer learns of each operation once, in order |
| Observers: `PowerSumming`, `DeadlineMonitor` | power charged since the last operation; active deadlines | a callback per operation | energy is the integral of power; every deadline of a start actor is supervised |
| Tracers: VCD, PAJE, data base | the last value of each signal; the running activity and the last power | a callback per operation | what was running can be read off the trace |
| Governors | window of loads | - | never called |
| `Configuration`, `Director`, `SystemCVPCSimulator` | components, routes, observers, mapped tasks, timings by name | registration in elaboration, `finalize` | every actor and every message finds its component, timing and route, or set-up fails |
| `VPCBuilder`, `Component`, `ConfigCheck` | distributions, attributes; what was configured | the sections of the configuration file | what the file says is what is simulated |
| `SplitParallelIndividualCompleter` (Java) | two pools of threads, their jobs | `complete` | the call returns, with every individual evaluated |
| `VPCEvaluator`, `TempDirectoryHandler` (Java) | a directory per evaluation, the configuration written to it | `evaluate` | the objectives are those of this implementation |
| `SNGImporter`, `VPCConfigImporter` (Java) | the specification: application, architecture, mappings | the translation of a network graph and of a template | data flows where it did; all and only the mappings of the template |

Without a model: ignore routes (a message is delivered in the call that starts it),
the governors, the loading of plugins, the handles of the public interface, the
readers, dialogs and the decoder of the Java tool, tutorial, test cases and retired
code. `PROJECT.json` lists every part with what is left out of it.

### Interactions

SysteMoC calls `notifyActivation(actor, true)` when an actor can fire. The
component decides when to call `actor.schedule()`, whose firing calls back into
`executeFiringRule`; this waits for inputs that take time to read and then calls
`compute`. `scheduleThread` assigns instances and, when the DII is over, frees
the inputs, which may announce the actor that writes to them, in this component or
another. When the latency is over the outputs go over a `Route`: its hops are
message instances, computed by the components on the way. Every operation on an
instance is passed on to the observers and tracers of its component, and its
timing comes from the component's execution model. All of this happens in
processes of the SystemC kernel: they are never interrupted between two waits, but
their order within a delta cycle is not defined, a delta notification overrides a
timed one, of two timed ones only the earlier survives, and an immediate one is
lost on whoever is not waiting.

Before the simulation, `VPCBuilder` translates the configuration file section by
section into calls of `Configuration`, which brings it together with the actors and
ports of the application in `finalize`. The file comes from a person or from
`VPCEvaluator`, which cuts a template down to one implementation and adds its
mappings and routings; the template has been read by `VPCConfigImporter`, and the
application by `SNGImporter`. Many evaluations run at once, each with a process and
a directory of its own.

### Hard behaviours

* *Order within a delta cycle.* An event has triggered and its method has not run
  yet, while another process changes the state the method is about to see.
* *Re-entrance.* `canFire()` and the freeing of inputs call `notifyActivation`
  from within the scheduling loop.
* *Notifications that override each other*, with delays of zero; *immediate*
  notifications that nobody waits for.
* *Power down* between an activation and its release, or between the trigger and
  the run of the release method; releases that have passed by then, with a
  difference of unsigned times.
* *Coincidence* of the end of a time slice or slot, the end of a DII and an arrival;
  slots and credits that go on, or stand still, while the component is idle.
* *Pipelining*: firings of one actor overlap between DII and latency.
* *Slots of a message* are shared by the branches of its route.
* *Observers see the component at the time of an operation* and account for the
  time before it.
* *Threads, interrupts and failures* of the Java tool: a job fails while others are
  queued, a configuration or a file cannot be written, the simulator fails.
* *Direction*: a read message is routed from the memory, and simulated from the reader.

`PROJECT.json` lists them under "hazards", each at its line.

## 2. Plan

| Step | Modules |
|---|---|
| 1 | `TimeQueue`, abstract `Timers`, `TimeQueueProofs` |
| 2 | `NonPreemptiveComponent` (composes the release queue, the latency queue by its specification, and the channels), abstract `Dataflow`, `NonPreemptiveProofs` |
| 3 | `StaticRoute`, `StaticRouteProofs` |
| 4 | `PreemptiveComponent` with `Schedulers`, abstract `Processor`; all nine schedulers; `QueueProofs`, `SchedulerProofs`, `SlotProofs`, `PreemptiveProofs` |
| 5 | `RoundRobinComponent`, composed with `LookupPowerTimeModel` and `ObservableComponent` (the sum of the energy, `DeadlineMonitor`, `ComponentTracers`), `RoundRobinProofs` |
| 6 | `SplitParallelIndividualCompleter`, composed with what makes an evaluation faithful: `SNGImporter`, `VPCConfigImporter`, `VPCConfiguration`, `VPCBuilder`, `Configuration`, `Attributes` |

These are done. What would come next: FlexRay with both
channels, once the component can run two tasks at once; inputs of RRNOPRE that come
over a foreign route, once `compute` no longer waits in the process that delivers.

The abstract specifications are `Timers` (exact timers), `Dataflow` (the untimed
dataflow graph) and `Processor` (a processor that serves its jobs one at a time).
`EvaluatedFaithfully` plays that part for the Java tool: it compares the whole
chain of translations with what an implementation means.

## 3. The modules

**`SimKernel`** says what an `sc_event` keeps: nothing, a delta notification, or
the time of a timed one. `Notify` is `sc_event::notify(delay)`. The kernel is
external; its steps, `DeltaCycle` and `AdvanceTime`, are actions of each module,
enabled as in the kernel when no process is runnable.

**`TimeQueue`** models `TimeQueueImpl` in full. `Add` is a call by any other
process, possible also between the trigger of `queueEvent` and the run of
`queueMethod` (`method = "runnable"`); `CallbackAdd` is a call by the callback;
the loop of `queueMethod` is `RunMethod`, `NextEntry`, `LeaveForNext`,
`LeaveEmpty`. A failing assertion is no action: `AssertionsHold` states it of the
state the method is about to run in.

**`NonPreemptiveComponent`** models a component with its actors and channels.

| Code | Action |
|---|---|
| `notifyActivation` (48-67), called by a channel | `notifyActivation`, `announce`, within `Arrival` and others |
| `ttReleaseQueue` and `schedule()` | `ReleaseTask`, `ReleaseDone` |
| `executeFiringRule` and `InputsAvailableListener` | `executeFiringRule`, `InputArrived` |
| `scheduleThread`: select and assign | `ThreadRuns`, `Dispatch`, `Sleep` |
| `scheduleThread`: after the wait, `finishDiiTaskInstance`, re-activation | `Timeout` |
| `finishLatencyTaskInstance` | `LatencyExpires` |
| `setDynamicPriority`, `scheduleAfterTransition` | `SetDynamicPriority`, `ScheduleAfterTransition` |

The class of the component, one of `Policies`, is chosen in the initial state. The
`latencyQueue` is only called with positive delays (`AbstractComponent.cpp:391-395`)
and is therefore used by its specification, which the theorem
`TimeQueueImplementsTimers` justifies; `ttReleaseQueue` gets zero delays as well and
is modelled in full. Times are relative to now, so no bound on time is needed.
With positive DIIs, what produces tokens happens in the first delta cycle of its
time; foreign arrivals are restricted accordingly (`firstDelta`).

A periodic actor that is announced after its release, because it was blocked then, is
added with a release that has passed (`Late`). `sc_time` is unsigned, so
`getNextReleaseTime() - sc_time_stamp()` (line 59) wraps around and is greater than zero, and
the notification the kernel makes of it is for the passed time: it triggers when no process is
runnable, without a step in time (`notifyAt`, `LateNotification`). The entry comes out on top
of the queue with a time that is not the current one, which the assertion at
`TimeQueue.cpp:42` excludes; the model stops there.

**`StaticRoute`** models the messages on one route: `Start` is the constructor of
`MessageInstance` with its first hops, `FinishHop(h)` is `finishHop` on the
component of hop `h`, which serves the messages of one hop in order.

**`PreemptiveComponent`** models the component and **`Schedulers`** dispatches to its
scheduler, one module of operators on a state record each (`SchedulingDecision` is
the interface): `PriorityScheduler` (rate monotonic has the same code),
`RoundRobinScheduler`, `TDMAScheduler`, `TimeTriggeredCCScheduler` and
`FlexRayScheduler` (with `SlotTable` and `StaticSegment`, which they share),
`StreamShaperScheduler`, `AVBScheduler`, `MostScheduler`. `Schedulers` also translates
the attributes of a scheduler to its table of slots, and `MCPreemptive` checks, as an
assumption, that attribute lists exist for the tables of the runs.

| Code | Action |
|---|---|
| `notifyActivation` (70-109) | `notifyActivation` in `Arrival` |
| `executeHop` and `compute` | `MessageArrival`, `addTask` |
| `ttReleaseQueueRelease` (111-131) and its two methods | `RequestCanExecute`, `ReleaseTask`, `ReleaseDone` |
| `setCanExec`, `reactivateExecution` | `PowerUp`, `PowerDown` |
| `scheduleThread`: remaining delays, finished task, `canFire()` | `RanTask`, `FinishTask` |
| `scheduleThread`: decision, resign, time slice, assign, wait | `Decide` |

For a release that has passed while the component was powered down,
`top().time - now` wraps around as above (`notifyAt`, `LateNotification`): one late entry
each time.
`StaticSegment` keeps the map `ProcessParams` (multiplexing and cycle offset) by its keys, since
the ids of processes and those of instances both count from 0: the entries under process ids
(`params`) and the one under the id of a task's last instance (`own`). An early instance may
overwrite the parameters of another process, which are then passed on to the instances of that
process (`TimeTriggeredCCScheduler.cpp:209`, `FlexRayScheduler.cpp:351`; `registered`,
`SharedIds`).
`front()` of an empty slot queue (`TDMAScheduler.cpp:234`) and the use of an erased
iterator are choices among what the build can read.

**`RoundRobinComponent`** models the thread that polls its actors (`BeginRound`,
`Skip`, `CheckGuard`, `Fire`, `Compute`, `Timeout`, `AfterFiring`, `EndRound`, `Awake`), the
messages it computes in between (`StartMessage`), and `notifyActivation` (`announce`). What a guard says
is up to the application: `holds` is any value at the start and after a firing of the actor, and
may become true when a token comes. The evaluation of a guard takes time (`CheckGuard`), after which
the actor fires or, if the guard does not hold, is passed over (`Skip`). `overtaken` is a history variable: the
messages that came while a guard was evaluated. It is composed with
`LookupPowerTimeModel`, which gives each firing its timing in the current power mode,
and, through `ObservableComponent`, with the observers and tracers (`DeadlineMonitor`,
`ComponentTracers`), which are operators on a state of their own. The module's actions call them where the code
does, so the order of an operation and the change of the component's power is that
of the code.

**`SplitParallelIndividualCompleter`** models one call of `complete`: the decoding
and evaluation jobs in their pools, the loop over the futures with interrupts and
failures, and each evaluation with its directory, its files, the process it starts
and the results it reads. What an evaluation writes and what the simulator makes of
it are computed by the modules it extends:

| Module | Code |
|---|---|
| `SNGImporter` | network graph to tasks and messages, under the options of the translation, with the errors that refuse a graph |
| `VPCConfigImporter` | template to resources, links and mappings, attributes of the tool included |
| `VPCConfiguration` | `VPCEvaluator`: the template cut down, with mappings, timings, routings and links of the implementation |
| `VPCBuilder`, `Texts` | the sections of the file, distributions with their parameters among them, and what its texts are read as |
| `Attributes` | the attributes of components: tracers, observers, execution model, scheduler |
| `Configuration` | what is created under a name, and `finalize` |

`Timers`, `Dataflow` and `Processor` are the abstract specifications; the `MC`
modules give the constants of the runs their values.

## 4. The runs

| Run | Instance | Shows |
|---|---|---|
| `TimeQueue` | 3 objects, delays 0..2, time up to 4, a callback that adds with delays 1..2 | nothing is overdue, every entry is served unless an assertion stops the program, refinement of `Timers` |
| `NonPreemptive` | two actors in a pipeline, the hop between them on the same component, a foreign hop, channels of 2, each of the three classes, priorities set and actors yielding at any time | no activation, wakeup or token is lost; assertions hold; every activation is served; refinement of `Dataflow` with fairness |
| `NonPreemptivePeriodic` | two periodic actors with periods 4 and 6, one of which sends to a third actor over a channel of 1, and foreign hops, by static priority | with releases added that are due now, later, or have passed, the event of the release queue is always pending in time |
| `NonPreemptiveRelease` | a periodic actor and one driven from outside | *violation*: `assert(!queue.empty())` |
| `StaticRoute` | 3 messages on a route with two first hops, one of which branches and goes on | slots exclusive and in bounds, deletion not early, delivery to every destination once and in order |
| `StaticRouteAutoDelete` | two hops in a row | *violation*: "This will auto delete." |
| `Preemptive` | two actors and a hop with DIIs 4, 3 and 1, each of the eight schedulers; slices, slots and gaps shorter than the DIIs; the first instance has the id of a process | bookkeeping, agreement of scheduler and component, order, slices, slots and cycles kept whenever time passes, no stall, every ready task served, refinement of `Processor` with fairness |
| `PreemptivePower` | a periodic actor, a periodic PSM actor, one driven by events; power down and up | releases held back, power requested, nothing computed without power, every activation released |
| `PreemptiveSlice` | two actors, slice 2 | *violation*: the assertion at `RoundRobinScheduler.cpp:96` |
| `RoundRobin` | three actors, one of them with a guard that may say anything and takes time, a hop of their own and a foreign one, two power modes changed at any time, `fireActorInLoop` both ways, a deadline from one actor to another | no wakeup is lost, every actor served, energy charged at the component's power, traces faithful, deadlines supervised |
| `DeadlineMonitor` | the same with two `startActor` attributes | *violation*: the end actors of the first are lost |
| `Evaluator` | three individuals, one decoding and two evaluating threads, one interrupt, a stop, any failure of files and simulators; five implementations, of which two cannot be set up | every value recorded comes from a simulation of the individual's own implementation; the call ends |

*Bounds.* The bounds are the number of objects, actors, hops, messages and
individuals, `Capacity` (firings waiting at an actor), one message at a time per hop,
`MaxTime` in `TimeQueue`, `CreditBound` (credits of AVB are capped there),
`SharedIds` (how many instances, from the first, may have ids that processes have, and which: one
in the runs, any sequence in the proofs) and `MaxInterrupts`. Two actors and a hop are the least
set with a running task, a more and a less urgent ready one; the delays are chosen
so that arrivals, ends of DIIs and ends of slices or slots coincide as well as miss
each other; the periods so that the component is idle at times. The component
models have no bound on time. Two evaluating threads are the least number that
can get into each other's way, and the third individual is the one that is queued
while another fails.

Since one message per hop is under way at a time, messages of other routes cannot keep
the thread of RRNOPRE, or a component with priorities, from its actors for ever; a
flood of them could.

Deadlock is not checked where the simulation or the call ends (`MaxTime`, messages
sent once, `complete` returned) and where the program may stop at an assertion that
fails; `NonPreemptive` and `RoundRobin` check it.

Assumptions of the modules that TLC evaluates in these runs say more than the types of
the constants: that attribute lists set up the slot tables (`MCPreemptive`), and that
data flows between exactly the connected actors under every option of the translation of
a network graph, and wrong graphs are refused (`MCEvaluator`).

*What the violations mean.* (1) `NonPreemptiveRelease`: an activation due at once, between trigger and run
of the release method, makes it run again with an empty queue. With `NDEBUG`
it would read the top of an empty queue. The same happens to the release queue of
`PreemptiveComponent` at power up (`PreemptiveComponent.cpp:113`), which `ActivationReleased`
excepts. A release that has passed makes the other assertion fail (`TimeQueue.cpp:42`). (2) `StaticRouteAutoDelete`: of the slots of a message one is
skipped and never written, so that whether the message is deleted depends on what
the memory held before. (3) `PreemptiveSlice`: a task that has outlived its
slice alone makes the scheduler's assertion fail when a second task arrives.
(4) `DeadlineMonitor`: the list of end actors is cleared before the names are compared, for
each `startActor` in turn, so only the last one that an actor is compared with counts.

*Exceptions in properties.* `ReadyServed` leaves out priorities, where a more urgent task may
starve another in the code as in the model, and MOST, whose streams may starve the rest;
it and `ActivationReleased` hold unless an assertion that can fail has failed (`SliceAssertion`,
`CreditAssertion` for `AVBScheduler.cpp:94`, `ReleaseAssertion`). `CompleteReturns` leaves out a
simulator that waits for its output to be read. `NoLostWakeup` of RRNOPRE has one:
a message that comes while `check()` waits (`RoundRobinComponent.cpp:128`) is only put into the list,
and if no actor can fire afterwards the thread goes to sleep with the message left (`:214`), which is
then computed after the next wakeup, of whatever cause. `EnergyCharged` has two:
the sum charges nothing until the first operation, though it is said to
integrate the power over all time (`PowerSumming.cpp:193-197`), and with a latency longer
than the DII it charges the idle time after the DII as running up to the next
operation (`AbstractComponent.cpp:387`).

*Fairness.* The kernel runs each runnable process and lets time go on when none
is: weak fairness of the steps of each process, `DeltaCycle` and `AdvanceTime`.
Inputs that are being read arrive in the end and requested power is switched on
in the end (strong fairness, since a process that is on its way disables them for
a moment): an assumption on the rest of the simulation, without which nothing can
be promised. Nothing is assumed about arrivals, stops and interrupts. In the Java tool each
thread, and a simulator once started, goes on while it can; a simulator that waits for its
output to be read does not, and `CompleteReturns` says so.

## 5. The proofs

All are checked by TLAPS, for every value of the constants that satisfies the
assumptions stated in the modules. In each, one lemma per kind of step shows that the
inductive invariant is kept.

**`TimeQueueProofs`**, for all sets of objects and delays and any bound on time:

* `TypeCorrect`: `Spec => []TypeOK`.
* `NoneOverdueTheorem` and `TimeQueueImplementsTimers`: whatever the delays, zero
  included, time never passes an entry, and every behaviour is one of exact timers.
* `AssertionsHoldTheorem`, for `0 \notin Delays`. With a delay of zero it does not hold
  (`NonPreemptiveRelease`), so the assumption, which is what the code guarantees for
  `latencyQueue`, is needed.

`NoneOverdue` is not inductive: time passes an entry unless the event is pending for it.
The invariant `Exact` adds that while the method waits a delta notification is pending or
a timed one no later than any entry (`WakeupSoon`), and that a pending timed notification
is still to come (`EventToCome`), without which leaving the loop could find a
notification that is earlier than the next entry and never triggers. `AssertionsHold`
speaks of a method that is already runnable; its invariant `IInv` adds `WakeupPending`
and, the other way round, that the event is never pending without an entry that is due
then (`EventIsForAnEntry`): without this a stale notification could make the method run
for nothing, which is what happens with delays of zero.

**`NonPreemptiveProofs`**, for any number of actors and hops in which an actor has at most
one channel to read and one to write and a hop belongs to one route, any capacity, timing and
priorities, and each of the three classes:

* `ActiveTasksAccountedTheorem`: an active task is at exactly one of the stations queued,
  waiting for inputs, ready and running, any other at none.
* `NoActivationLostTheorem`, `ReleasedTasksCanFireTheorem`: an actor that can fire is active,
  and a queued one can fire.
* `NoLostWakeupTheorem`, `ThreadAssertionsTheorem`: the thread does not sleep over a ready
  task, and its two assertions hold.
* `ImplementsDataflowSafely`: every behaviour is one of `Dataflow`, fairness aside.
* `TokensConservedTheorem` and `TypeCorrect`: the places taken of a channel are the tokens
  in it, the one being read and those reserved for outputs still to come, so no channel
  overflows and no counter is negative.
* `ReleasedInTimeTheorem`: while the method of the release queue is not on its way its event is
  pending, for no later time than any entry's, with releases added that are due, to come or past.
* `AssertionsHoldTheorem`, for `Periodic = {}`. With periodic actors the assertion of the
  release queue can fail (`NonPreemptiveRelease`), so the hypothesis is needed.

None of them is inductive alone. That a task is selected only while none runs needs the place
of the thread (`Awake`), which ties `runningTask` to it and excludes a stale
notification; that the task erased from `activeTasks` at the end of a DII is at no other
station needs `Accounted`; that the writer of a freed place is announced needs that it
is the only writer. The end of a DII is the hard step: up to three
announcements, one before the task is erased, one after, with the tokens of the outputs
in between (`TimeoutStep`). A second writer of a channel would break
`ReleasedTasksCanFire`, so `ConstantsAssumption` excludes it, as SysteMoC does.

The refinement counts an actor's outputs in four places: `latencyQueue`, the ready list (as
hops), the firing, and the hop that runs. `latencyQueue` is a set, so an output could be lost in
it if an equal one were there; `Spaced` says that this does not happen, because the DIIs of one
job follow each other: an entry of the running job is as old as the DII is. Each step then has a
lemma of its own, named for what the application sees of it (`ReleaseFires`,
`LatencyDelivers`, `TimeoutEnds`, `DispatchUnnoticed`, ...). That tokens are conserved is proved
of the steps of `Dataflow` (`ConservedStep`), and so of every component that implements it with
these counts. For the release queue, `Queued` is `ReleasedInTime` with the types; without periodic
actors it adds that while the method runs it is not the first delta cycle of its time, when alone
tasks are announced (`Prompt`).

**`RoundRobinProofs`**, for any application in which a channel and a hop have one writer, and any
timings, power modes and orders of creation:

* `NoLostWakeupTheorem`, whatever the guards say: the thread waits for `readyEvent` only when no
  actor can fire, with the callbacks on, and with no message left but one that came while the time of
  a guard passed. The thread waits in one place only, but passes through others on the way there;
  the invariant adds that while it polls no other message is left (`Polling`), and that when it is about
  to sleep with the callbacks on, no actor can fire (`Sleeping`), which every other process keeps because an
  activation switches the callbacks off.
* `EnergyChargedTheorem` and `TraceFaithfulTheorem`, for every order of firings, messages and
  changes of the power mode. Both speak of the moments at which time goes on; `ObserverInv` says
  what holds between any two steps: an instance runs exactly while the thread waits for its end
  (`Assigned`), the energy and the gauge have the same power, the component's or an excused one
  (`Charged`), and what `getLastValue` returns is what the file shows already (`Traced`), which is
  why a letter written twice at one time still differs from it.
* `TypeCorrectness`: no channel overflows or is read empty, and the lists and times of
  the observers keep their types. The invariant `Flow` says where the tokens are: a
  place that is taken holds a token to be read, one that a firing reads now, or one that is on
  its way in the latency queue, the ready messages, the firing to be computed or the instance that
  runs (`Channels`); and an actor whose guard is evaluated still has its token and its
  place when that is over (`Guarding`), though messages arrive and latencies end in between.
* `DeadlinesSupervisedTheorem`, for configurations with `Supervisable`: one attribute has end actors,
  each once, start and end actor have no guards, the end actor reads the start actor's output, and the start
  actor is created first. Each condition is there because the code needs it: without the first the run `DeadlineMonitor`
  fails, the monitor takes the evaluation of a guard for a firing, and an end actor created first has no group to
  report to. `MCRoundRobin` has TLC evaluate that the configuration of the run `RoundRobin`
  satisfies it and that of `DeadlineMonitor` does not. The invariant `Deadlines` counts the active
  deadlines of an end actor as the places taken in its channel and its latencies that are not over,
  less the place that the start actor has reserved for a firing that is not released yet.
  With `Flow` these are the firings in flight, and FINISHLAT never finds the list empty.

The deadlines that RELEASE begins, the tasks created and the times of several functions are folds
over lists. What such a fold returns is proved by hand, with the least counterexample (`LeastNat`,
`Reached`) and the existence of its recursion (`Recursion`): `RegisteredTimes`, `StartedFold`,
`AllocatedFold`.

**`PreemptiveProofs`**, for any tasks, messages, periods and delays, any moments of power
down and up, and each of the eight schedulers with any parameters:

* `EveryTaskAccounted`: `activeTasks` holds a task exactly while it is in a release queue,
  ready or running, and it is at one of these only.
* `SchedulersConsistent`: each instance the scheduler is responsible for is in its queues at
  one place, no other one is: the waiting ones, and for schedulers that leave the running
  one in its queue that one too.
* `NeverStalled`, `EveryTaskInTime`: the thread does not wait for ever while a task is ready,
  nor past the end of the delay of the running one.
* `NoInversion`, `SlicesRespected`, `SlotsRespected`: the promises of static priority, of round
  robin, and of the schedulers with slots, which let no time pass with a task outside its slot, or in
  a static slot in a cycle that the parameters found for its instance do not allow.
* `EveryReleaseRequested`, `PoweredWhenComputed` (a step property of tasks; messages are not
  held back, `AbstractComponent.cpp:305`).
* `ProcessorImplemented`: every step is a step of the abstract `Processor` or leaves the work
  of all jobs alone.
* `TypeCorrectness`, which excludes FlexRay. The bounds in its state rest on the times it is
  called at, which the component decides; what the other proofs need of FlexRay
  (`FlexRayHeld`) does without them, and so the exclusion is in this theorem only.

The invariant `IInv` (`Invariance`) has four parts. `ComponentTypes` and `Accounted` say where
a task is. `Announced` says of each entry of a release queue that the method is about to
look at it, its event comes in time, or power has been requested: `PowerRequested` speaks of
entries that are due, and time passes for those that are not. `Working` is about scheduler
and thread, and the hard part: what a run checks between two rounds (`NoPriorityInversion`,
`NoStall`, `SliceRespected`) follows from the decision made in the round before, through
`Undisturbed`: the thread waits, and no event has asked it to look again. `Served` bounds
its timeout by the delay that is left. For `SlotRespected` a second invariant, `InSlots`, ties the
timeout to the slot: while the thread waits undisturbed it wakes up before the slot of the running
task is over (`restOf`), for TDMA by the clock, for the others by the time counted since the last
decision. A task that arrives in between does not move the slot; TDMA may find that the clock
has moved on when it is asked, and is right to, since it reads no count of its own (`FitsDecides`).

The schedulers enter through one relation, `Held(s, R, r)`: state `s` holds the waiting
instances `R` and the running one `r`, each of them once, in the queue of its slot or level.
For each scheduler one lemma (`...Holds`) shows that adding, removing and the passing of time
keep it, and another (`...Decides`) that every decision is sound (only the running instance is
resigned, only a waiting one assigned, when none runs) and timed (a task that
waits while none runs leaves the thread with a timeout), and keeps it. `SchedulerProofs` has those of the
schedulers without slots and `SlotProofs` those with slots; there `HeldDecides` joins them, and
`PreemptiveProofs` speaks of no scheduler in particular. Decisions that read what they should not
(the front of an empty queue, an erased iterator) are covered: every outcome is sound. The
assertions that can fail (`RoundRobinScheduler.cpp:96`, `AVBScheduler.cpp:94`) end the program, as in
the model. `QueueProofs` has what the queues list, and the arithmetic of slots, where
induction is done by hand with the least counterexample (`LeastNat`, `Counting`), since the
library's induction theorems take an operator.

**`StaticRouteProofs`**, for every tree of hops and any number of messages:

* `DeliveredInOrderTheorem`, `ReleasedWhenDoneTheorem`, `TypeCorrect`.
* `SlotsExclusiveTheorem`, for routes with `SlotsSuffice`: only one first hop forks, and the other
  first hops do not go on. The hypothesis is needed for the bound of the array only (section 6).

The code keeps no count of what a hop has finished, but the argument rests on it: the invariant says
that there are such numbers `F`, that a hop has been entered as often as its parent has finished
(`Flow`), that destinations have got exactly that much (`Delivered`), and that a message has handed out
one slot for each hop it has entered (`Taken`), which bounds the counter. What holds of the first hops
and is passed on to children holds of all hops: this induction over the tree, which addHop builds
child by child, is the assumption `Tree`, with what else `addHop` and `addDest` guarantee.

Model-checked only: liveness under fairness, which is outside what the prover does, and
with it the fair parts of the refinements; of `PreemptiveComponent`
FlexRay's bounds; and the properties of the Java tool, whose translations are recursive
operators, which no module with a theorem can use.

## 6. What is not modelled

*Outside the repository:* SystemC and SysteMoC, which are modelled from how the library
uses them: `canFire()`, `schedule()`, `getNextReleaseTime()`, channels with places and tokens;
a periodic actor whose release is still to come announces itself in `canFire()`. So are
Opt4J and OpenDSE, of which the models use the order of attributes and how a routing is laid out.

*Of modelled components:* the reset of components, `requestShutdown`, which only writes
out; blocked tasks and the scheduling overhead of `PreemptiveComponent` (lines 307-470 are
commented code, and every overhead is nil); FlexRay on two channels (`FlexRayScheduler.cpp:713-892`
and what leads there); `closeStream` of MOST; regular expressions of the deadline monitor; guards
that become false, or true, without a token or a firing of their actor; random numbers, which
nothing asks for; quantities of tokens larger than one.

*Components:* ignore routes have no state. Governors are created and never called. The
data base tracer needs a server and only writes. Plugins, handles of the public
interface, readers, dialogs and the decoder of the Java tool pass on. Tutorial, test cases and retired
code are examples.

*Left out because the program would not get that far*, read in the code and not
checked by a run:

* `executeHop` does not look at `canExecuteTasks`: a message that reaches a powered down
  component makes the assertion at `PreemptiveComponent.cpp:179` fail. `PreemptivePower` has no hop.
* Every hop with children advances the counter of slots by the number of them, though the
  first child takes over a slot. A fork that comes after another hop with children therefore
  numbers past the array, which has one element per destination: two hops in a row, the second with
  two children, use slot 2 of 2. The routes of the runs stay inside; `SlotsSuffice` says which do.
* With inputs over a foreign route, `compute` of RRNOPRE runs in the process that ends the hop,
  where the assertion at `AbstractComponent.cpp:330` can fail and a wait is illegal. A guard with a
  delay that holds lets a message arrive before the assertion at `RoundRobinComponent.cpp:192`, which then
  fails; the model goes on like a build without assertions, which computes the message with the firing.
* An end actor that is created before its start actor keeps a null report group
  (`DeadlineMonitor.cpp:353-358`); one never created is a null pointer at the release; two start actors
  that wait for the same end actor fail an assertion. The runs create start actors first.
* An execution model shared by two components gets start mode and idle power only for the
  first to register.
* `LookupPowerTimeModelImpl.cpp`: `setPowerMode` before the first `registerAction` uses an index of -1.
* `PreemptiveComponent.cpp:225-227` and `DynamicPriorityComponent.cpp:89-91` use an element after erasing it. A
  copy of `Attributes` holds iterators into the list of the original.
* A task that becomes ready before `initialize()` of the TDMA scheduler has run gets a slot of its own.
* In the PAJE trace the last interval of power and an activity that runs at the end are missing.

*Facts about set-up* that the model has, and that a user may not expect: a distribution
attribute on a component always ends in "Unhandled attribute distribution"
(`Component.cpp:203`); a mapping with `<attribute type="actor-delay">` loses its timings; timings
are entered by function, whichever actor calls it; slots whose length is not in ns are ignored
by TDMA, and a binding to an unknown slot goes to the last; `parseScheduler` cannot name
DynamicPriorityUserYield; a component whose specification is "ignored" because of a bad time
leaves the tree walker among its attributes, so set-up fails later on. Timing modifiers are configured and
never used. Without a configuration file VPC is off.
Of the Java tool: every mapping of the template is removed because `SourceTarget` has no `equals`
(`VPCEvaluator.java:514`); messages of registers and of dropped channels represent no channel, so
evaluating an implementation that routes one fails; timings are written without a power
mode, so a template with modes other than DEFAULT cannot be simulated; the importer reads
the name of a timing from "name", not "fname", so two timings in one mapping are a duplicate and
named ones come only from the attribute `vpc-actor-delay`; `shutdownNow` interrupts
running evaluations, whose individuals are recorded infeasible.
