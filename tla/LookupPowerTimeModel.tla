------------------------ MODULE LookupPowerTimeModel ------------------------
(***************************************************************************)
(* The execution model: in each power mode the timings of functions and of *)
(* actors by name, and the power of the component.                         *)
(***************************************************************************)
EXTENDS Integers, SequencesExt

CONSTANTS Task,                   \* the actors, whose names may have timings
          PowerModes,             \* the power modes that are defined
          Timings,                \* by mode and name: [dii, latency]
          ActionNames,            \* the functions of an actor's firing rule, in order
          GuardNames,             \* the functions of its guard
          GuardComplexity,        \* the number of operators in its guard
          GuardComplexityFactor,  \* by mode: the delay of each of them
          PwrIdle, PwrRunning     \* by mode: the power of the component

\* timings.find(name), else timings.find(actor).
known(mode, name, t) == {name, t} \cap DOMAIN Timings[mode] # {}

timing(mode, name, t) ==
  Timings[mode][IF name \in DOMAIN Timings[mode] THEN name ELSE t]

\* The sum of a field of the timings of some functions of t.
total(mode, names, t, field) ==
  FoldLeft(LAMBDA sum, name : sum + timing(mode, name, t)[field], 0, names)

\* No ConfigException is thrown and no assertion fails in registerAction.
ASSUME TimingsAssumption ==
  \A mode \in PowerModes, t \in Task :
    /\ \A name \in Range(ActionNames[t]) \cup Range(GuardNames[t]) : known(mode, name, t)
    /\ total(mode, ActionNames[t], t, "latency") >= total(mode, ActionNames[t], t, "dii")
    /\ \A name \in Range(GuardNames[t]) :
         timing(mode, name, t).latency = timing(mode, name, t).dii

\* The array of timings of an actor's firing rule, by power mode.
registerAction(t) ==
  [mode \in PowerModes |->
     [guardDelay |-> total(mode, GuardNames[t], t, "dii")
                       + GuardComplexity[t] * GuardComplexityFactor[mode],
      dii        |-> total(mode, ActionNames[t], t, "dii"),
      latency    |-> total(mode, ActionNames[t], t, "latency"),
      pwrRunning |-> PwrRunning[mode]]]

\* Times and powers are unsigned, and a sum of them does not overflow.
ASSUME DurationsAssumption ==
  /\ \A mode \in PowerModes : \A name \in DOMAIN Timings[mode] :
       Timings[mode][name] \in [dii : Nat, latency : Nat]
  /\ \A t \in Task : \A names \in {ActionNames[t], GuardNames[t]} : names \in Seq(Range(names))
  /\ GuardComplexity \in [Task -> Nat] /\ GuardComplexityFactor \in [PowerModes -> Nat]
  /\ PwrIdle \in [PowerModes -> Nat] /\ PwrRunning \in [PowerModes -> Nat]

\* What a task instance gets in a power mode.
initTaskInstance(info, mode, forGuard) ==
  IF forGuard
  THEN [delay |-> info[mode].guardDelay, latency |-> info[mode].guardDelay,
        power |-> info[mode].pwrRunning]
  ELSE [delay |-> info[mode].dii, latency |-> info[mode].latency,
        power |-> info[mode].pwrRunning]

\* setPowerMode sets the idle power of the component, and no other.
powerIdle(mode) == PwrIdle[mode]

=============================================================================
