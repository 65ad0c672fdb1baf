------------------------------- MODULE Attributes -------------------------------
(***************************************************************************)
(* What the attributes of a component set up: the tracers and observers    *)
(* that watch it, its execution model and its scheduler.  An attribute has *)
(* a type, a value and a sequence of attributes.                           *)
(*                                                                         *)
(* Transfer timings are not kept; the delay of a "transaction" would be    *)
(* read through an iterator into a list that is gone, so no configuration  *)
(* here gives one.  The tracer "DB" needs a server and is left out.  The   *)
(* files of tracers and observers can be opened.  No component names one   *)
(* of them twice, and deadline monitors give different names to reports.   *)
(***************************************************************************)
EXTENDS Configuration

typed(attrs, type) == SelectSeq(attrs, LAMBDA a : a.type = type)

only(attrs, types) == \A a \in ToSet(attrs) : a.type \in types

-----------------------------------------------------------------------------
(* The attributes tracers and observers are created with. *)

timeUnits == {"fs", "ps", "ns", "us", "ms", "s", "sec"}

ComponentVCDTracerTakes(attrs) ==
  \A a \in ToSet(attrs) : \/ a.type = "traceFileName" /\ a.value \in VcdFile
                          \/ a.type = "traceTimeUnit" /\ a.value \in timeUnits

ComponentPajeTracerTakes(attrs) == only(attrs, {"traceFileName"}) /\ Len(attrs) <= 1

PowerSummingTakes(attrs) == only(attrs, {"resultFileName"}) /\ Len(attrs) = 1

endActorTakes(attrs) ==
  Len(attrs) = 1 /\ only(attrs, {"deadline"}) /\ attrs[1].value \in Time

startActorTakes(attrs) ==
  /\ only(attrs, {"endActor", "reportName"})
  /\ \A a \in ToSet(typed(attrs, "endActor")) : endActorTakes(a.attributes)

DeadlineMonitorTakes(attrs) ==
  /\ only(attrs, {"resultFileName", "startActor", "startActorRegex"})
  /\ Len(typed(attrs, "resultFileName")) = 1
  /\ \A a \in ToSet(attrs) : a.type # "resultFileName" => startActorTakes(a.attributes)

-----------------------------------------------------------------------------
(* Tracers and observers: created by their type, and found by their name. *)

createComponentTracer(conf, type, attrs) ==
  IF \/ type = "VCD" /\ ComponentVCDTracerTakes(attrs)
     \/ type = "PAJE" /\ ComponentPajeTracerTakes(attrs)
  THEN conf ELSE fail(conf)

createComponentObserver(conf, type, attrs) ==
  IF \/ type = "PowerSumming" /\ PowerSummingTakes(attrs)
     \/ type = "DeadlineMonitor" /\ DeadlineMonitorTakes(attrs)
  THEN conf ELSE fail(conf)

\* A tracer or an observer of its own, which components may name.
parseResourceTracer(element, conf) ==
  create(createComponentTracer(conf, element.type, element.attributes),
         "tracers", element.name, element.type)

parseResourceObserve(element, conf) ==
  create(createComponentObserver(conf, element.type, element.attributes),
         "observers", element.name, element.type)

addObserverImpl(conf, component, name) ==
  [conf EXCEPT !.observedBy[component] = Append(@, name)]

\* What is named has its attributes already.
getNamed(conf, map, name, attrs) ==
  IF name \in DOMAIN conf[map] /\ attrs = <<>> THEN conf ELSE fail(conf)

addTracer(conf, component, name, attrs) ==
  addObserverImpl(IF name \in {"VCD", "PAJE"} THEN createComponentTracer(conf, name, attrs)
                  ELSE getNamed(conf, "tracers", name, attrs),
                  component, name)

addObserver(conf, component, name, attrs) ==
  addObserverImpl(IF name \in {"PowerSumming", "DeadlineMonitor"}
                  THEN createComponentObserver(conf, name, attrs)
                  ELSE getNamed(conf, "observers", name, attrs),
                  component, name)

-----------------------------------------------------------------------------
(* The execution model and the scheduler. *)

powermodeTakes(attrs) ==
  \A a \in ToSet(attrs) :
    \/ a.type \in {"powerIdle", "powerRunning", "powerStalled"} /\ a.value \in Watt
    \/ a.type = "guardComplexityFactor" /\ a.value \in Time

execModelTakes(attrs) ==
  /\ only(attrs, {"startupPowermode", "powermode"})
  /\ \A a \in ToSet(typed(attrs, "powermode")) : powermodeTakes(a.attributes)

\* The last startup power mode counts.
execModel(attrs) ==
  LET startups == typed(attrs, "startupPowermode")
  IN  [startup |-> IF startups = <<>> THEN newExecModel.startup ELSE Last(startups).value,
       modes   |-> {a.value : a \in ToSet(typed(attrs, "powermode"))}]

setExecModel(conf, component, model) ==
  [conf EXCEPT !.execModels = [c \in DOMAIN @ \cup {component} |->
                                 IF c = component THEN model ELSE @[c]]]

slotsTake(attrs, default) == \A a \in ToSet(attrs) : a.value \in Time \cup default

\* A dynamic slot has a length without one being given.
FlexRayParamsTake(attrs) ==
  /\ \A a \in ToSet(typed(attrs, "static")) : slotsTake(a.attributes, {})
  /\ \A a \in ToSet(typed(attrs, "dynamic")) : a.value \in Time /\ slotsTake(a.attributes, {""})

\* setAttribute: a scheduler passes over what it does not know.
schedulerTakes(scheduler, a) ==
  CASE scheduler = "RoundRobin" /\ a.type = "timeslice" -> a.value \in Time
    [] scheduler = "StreamShaper" /\ a.type = "shapePeriod" -> a.value \in Time
    [] scheduler = "FlexRay" /\ a.type = "FlexRayParams" -> FlexRayParamsTake(a.attributes)
    [] scheduler = "TTCC" /\ a.type = "FlexRayParams" ->
         FlexRayParamsTake(typed(a.attributes, "static"))
    [] OTHER -> TRUE

Preemptive == {"TDMA", "FlexRay", "TTCC", "RoundRobin", "StaticPriority", "RateMonotonic",
               "AVB", "MOST", "StreamShaper"}

\* An attribute "scheduler" is for the components that have something to set.
schedulerAttributesTake(scheduler, attrs) ==
  \/ scheduler = "RoundRobinNoPreempt" /\ only(attrs, {"fireActorInLoop"})
  \/ scheduler \in Preemptive /\ \A a \in ToSet(attrs) : schedulerTakes(scheduler, a)

\* An attribute that is not known is an error.
addAttribute(conf, component, a) ==
  LET when(accepted, next) == IF accepted THEN next ELSE fail(conf)
  IN  CASE a.type \in {"transaction_delay", "transfer_delay"} -> when(a.value \in Time, conf)
        [] a.type = "transaction" -> conf
        [] a.type \in {"tracing", "tracer"} -> addTracer(conf, component, a.value, a.attributes)
        [] a.type = "observer" -> addObserver(conf, component, a.value, a.attributes)
        [] a.type = "execModel" ->
             when(a.value = "LookupPowerTimeModel" /\ execModelTakes(a.attributes),
                  setExecModel(conf, component, execModel(a.attributes)))
        [] a.type = "scheduler" ->
             when(schedulerAttributesTake(conf.components[component], a.attributes), conf)
        [] OTHER -> fail(conf)

=============================================================================
