--------------------------- MODULE ComponentTracers ---------------------------
(***************************************************************************)
(* The tracers that write what the tasks of a component do to a file.      *)
(***************************************************************************)
EXTENDS Integers

-----------------------------------------------------------------------------
(* ComponentVCDTracer: the state of each task as a signal of a VCD file.   *)
(* The kernel samples the signals when time goes on, so the changes made   *)
(* in the delta cycles of one time are not seen; a letter that would be    *)
(* the same as before is therefore written in the other case.              *)

\* A letter of the signal, in its own case or in the other one; "0" is none.
Letter == {"0", " ", "w", "R", "b"}
Value  == [letter : Letter, flipped : BOOLEAN]

plain(l) == [letter |-> l, flipped |-> FALSE]

\* lastChange is represented by whether it is the current time; sampled is what
\* the trace file shows up to now.
VcdTask == [lastValue : Value, currentValue : Value, changedNow : BOOLEAN, sampled : Value]

newVcdTask == [lastValue |-> plain("0"), currentValue |-> plain(" "), changedNow |-> TRUE,
               sampled |-> plain("0")]

\* Mutated getLastValue: the changes made at this time count as well.
lastValueOfDelta(s) == s.currentValue

\* The value when time last went on.
getLastValue(s) == IF s.changedNow THEN s.lastValue ELSE s.currentValue

writeValue(s, v) ==
  [s EXCEPT !.lastValue = getLastValue(s), !.currentValue = v, !.changedNow = TRUE]

setValueWithCaseCorrection(s, l) ==
  writeValue(s, IF getLastValue(s) = plain(l)
                THEN [letter |-> l, flipped |-> TRUE] ELSE plain(l))

traceReady(s)    == setValueWithCaseCorrection(s, "w")
traceRunning(s)  == setValueWithCaseCorrection(s, "R")
traceBlocking(s) == setValueWithCaseCorrection(s, "b")
traceSleeping(s) == writeValue(s, plain(" "))

vcdTaskInstanceOperation(s, op) ==
  CASE op \in {"RELEASE", "RESIGN"} -> traceReady(s)
    [] op = "ASSIGN"    -> traceRunning(s)
    [] op = "BLOCK"     -> traceBlocking(s)
    [] op = "FINISHDII" -> traceSleeping(s)
    [] OTHER            -> s

\* sc_trace samples the signal, and time goes on.
vcdElapsed(s) == [s EXCEPT !.changedNow = FALSE, !.sampled = s.currentValue]

-----------------------------------------------------------------------------
(* ComponentPajeTracer: the activities of the tasks of a component, each   *)
(* traced when it ends, and its power as a gauge.  Like the sum of the     *)
(* energy, a value of the gauge is traced late: with the operation after   *)
(* the one at which it was read, if time has passed in between.  Releases  *)
(* and latencies leave an event in the file only.                          *)

NoTime == -1

\* startTime as the time since it, while an activity is open; powerTime as
\* whether it is past; and the value of the gauge traced last.
PajeComponent(Power) ==
  [startTime : Nat \cup {NoTime}, powerTimePast : BOOLEAN, powerValue : Power,
   powerValueOld : Power \cup {-1}]

newPajeComponent ==
  [startTime |-> NoTime, powerTimePast |-> FALSE, powerValue |-> 0, powerValueOld |-> -1]

\* PWRCHANGE, and what every operation on a task instance begins with.
pajeComponentOperation(s, power) ==
  [s EXCEPT !.powerValueOld = IF s.powerTimePast THEN s.powerValue ELSE @,
            !.powerTimePast = FALSE, !.powerValue = power]

\* An activity that ends is traced from startTime on.
pajeTaskInstanceOperation(s, op, power) ==
  LET t == pajeComponentOperation(s, power)
  IN  CASE op = "ASSIGN"                          -> [t EXCEPT !.startTime = 0]
        [] op \in {"RESIGN", "BLOCK", "FINISHDII"} -> [t EXCEPT !.startTime = NoTime]
        [] OTHER                                  -> t

pajeElapsed(s) ==
  [s EXCEPT !.powerTimePast = TRUE, !.startTime = IF @ = NoTime THEN NoTime ELSE @ + 1]

=============================================================================
