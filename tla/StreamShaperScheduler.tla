------------------------- MODULE StreamShaperScheduler -------------------------
(***************************************************************************)
(* StreamShaperScheduler: tasks in order of arrival, assigned at least     *)
(* shapeCycle apart.                                                       *)
(***************************************************************************)
EXTENDS SchedulingDecision

CONSTANT ShapeCycle   \* the attribute "shapePeriod"

ShapeCycleAssumption == ShapeCycle \in Nat

\* stream_fifo, firstrun, and the time to lastassign + shapeCycle, or 0.
State == [class : {"SHAPER"}, fifo : Seq(Job), firstrun : BOOLEAN, closed : 0..ShapeCycle]

initial == [class |-> "SHAPER", fifo |-> <<>>, firstrun |-> TRUE, closed |-> ShapeCycle]

addedNewTask(s, j) == [s EXCEPT !.fifo = Append(@, j)]

removedTask(s, j) == [s EXCEPT !.fifo = without(@, j)]

\* The first decision counts, also when there is no task.
schedulingDecision(s, running) ==
  LET open == [s EXCEPT !.firstrun = FALSE]
  IN  IF ~s.firstrun /\ s.closed > 0 THEN {noChange(s)}
      ELSE IF running # NoTask \/ s.fifo = <<>> THEN {noChange(open)}
      ELSE {onlyAssign(Head(s.fifo), [open EXCEPT !.fifo = Tail(@), !.closed = ShapeCycle])}

\* Mutated getSchedulerTimeSlice: the end of the gap is not waited for.
sliceNever(s, ready, running) == NoSlice

getSchedulerTimeSlice(s, ready, running) ==
  IF s.firstrun \/ s.closed = 0 THEN NoSlice ELSE s.closed

elapsed(s) == [s EXCEPT !.closed = until(@ - 1)]

=============================================================================
