SPECIFICATION Spec
CONSTANTS
  a = a
  b = b
  p = p
  n = n
  NoTask = NoTask
  Task = {a, b}
  Msg = {}
  Job <- Jobs
  PSM = {}
  Periodic = {}
  Period <- TaskPeriod
  Offset <- TaskOffset
  Delay <- LongDelay
  Capacity = 1
  Managed = FALSE
  Policies = {"ROUNDROBIN"}
  Priority <- JobPriority
  TimeSlice = 2
  TdmaTable <- TwoSlots
  CcTable <- CycledSlots
  FrameTable <- Frames
  CycleRound = 2
  Longest = 3
  SharedIds <- FirstIds
  Microtick = 1
  ShapeCycle = 3
  Share <- HalfTheLine
  LevelOf <- JobLevel
  CreditBound = 6
  Stream = {b}
  MostCycle = 8
INVARIANTS SliceAssertion
