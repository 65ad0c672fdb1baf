------------------------- MODULE ObservableComponent -------------------------
(***************************************************************************)
(* A component tells its observers of each operation: of the observers and *)
(* tracers of the library, the sum of the energy, the monitor of deadlines *)
(* and the VCD and PAJE tracers.                                           *)
(***************************************************************************)
EXTENDS Integers, Sequences

CONSTANTS Job,           \* the tasks of the component, message hops included
          NoJob,         \* the null pointer
          DeadlineInfos  \* the configuration of the deadline monitor

Tracers == INSTANCE ComponentTracers
Monitor == INSTANCE DeadlineMonitor WITH Actor <- Job, NoActor <- NoJob

-----------------------------------------------------------------------------
(* PowerSumming sums up the energy of a component.  energySum grows by     *)
(* powerValue times the time since powerTime whenever it is told of an     *)
(* operation, so what it adds for an interval of time is decided by the    *)
(* power it saw last: that value is all the state the sum depends on.      *)

PSComponent(Power) == [powerValue : Power]

newPSComponent == [powerValue |-> 0]

\* Mutated calculateNewEnergySum: the power is read when time has passed only.
calculateLate(s, power) == s

\* Every operation on a task instance and every change of the power mode: the
\* time up to now is charged at powerValue, the time from now on at the power
\* that the component has at this moment.
calculateNewEnergySum(s, power) == [powerValue |-> power]

-----------------------------------------------------------------------------
(* The observers of the component. *)

Observers(Power) ==
  [energy : PSComponent(Power), signal : [Job -> Tracers!VcdTask],
   paje : Tracers!PajeComponent(Power), monitor : Monitor!State]

\* The observers when all tasks have been created, in this order.  When the
\* component is finalized it is allocated, and nothing is charged yet.
created(order) ==
  [energy  |-> newPSComponent,
   signal  |-> [j \in Job |-> Tracers!newVcdTask],
   paje    |-> Tracers!newPajeComponent,
   monitor |-> Monitor!allocated(order)]

\* PWRCHANGE
componentOperation(o, power) ==
  [o EXCEPT !.energy = calculateNewEnergySum(@, power),
            !.paje   = Tracers!pajeComponentOperation(@, power)]

\* An operation on an instance of task j of a component with this power.
taskInstanceOperation(o, op, j, power) ==
  [o EXCEPT !.energy    = calculateNewEnergySum(@, power),
            !.signal[j] = Tracers!vcdTaskInstanceOperation(@, op),
            !.paje      = Tracers!pajeTaskInstanceOperation(@, op, power),
            !.monitor   = Monitor!taskInstanceOperation(@, op, j)]

elapsed(o) ==
  [o EXCEPT !.signal  = [j \in Job |-> Tracers!vcdElapsed(o.signal[j])],
            !.paje    = Tracers!pajeElapsed(@),
            !.monitor = Monitor!elapsed(@)]

=============================================================================
