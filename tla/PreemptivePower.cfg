SPECIFICATION FairSpec
CONSTANTS
  a = a
  b = b
  p = p
  n = n
  NoTask = NoTask
  Task = {a, b, p}
  Msg = {}
  Job <- Jobs
  PSM = {p}
  Periodic = {a, p}
  Period <- TaskPeriod
  Offset <- TaskOffset
  Delay <- UnitDelay
  Capacity = 1
  Managed = TRUE
  Policies = {"PRIORITY"}
  Priority <- JobPriority
  TimeSlice = 2
  TdmaTable <- TwoSlots
  CcTable <- CycledSlots
  FrameTable <- Frames
  CycleRound = 2
  Longest = 3
  SharedIds <- FirstIds
  Microtick = 1
  ShapeCycle = 3
  Share <- HalfTheLine
  LevelOf <- JobLevel
  CreditBound = 6
  Stream = {b}
  MostCycle = 8
INVARIANTS PowerRequested
PROPERTIES ComputedWithPower ActivationReleased
\* The method of a release queue may stop at its assertion (PreemptiveComponent.cpp:113).
CHECK_DEADLOCK FALSE
