SPECIFICATION FairSpec
CONSTANTS
  a = a
  b = b
  p = p
  n = n
  NoTask = NoTask
  Task = {a, b}
  Msg = {n}
  Job <- Jobs
  PSM = {}
  Periodic = {}
  Period <- TaskPeriod
  Offset <- TaskOffset
  Delay <- LongDelay
  Capacity = 1
  Managed = FALSE
  Policies = {"PRIORITY", "ROUNDROBIN", "TDMA", "TTCC", "FLEXRAY", "SHAPER", "AVB", "MOST"}
  Priority <- JobPriority
  TimeSlice = 2
  TdmaTable <- TwoSlots
  CcTable <- CycledSlots
  FrameTable <- Frames
  CycleRound = 2
  Longest = 3
  SharedIds <- FirstIds
  Microtick = 1
  ShapeCycle = 3
  Share <- HalfTheLine
  LevelOf <- JobLevel
  CreditBound = 6
  Stream = {b}
  MostCycle = 8
INVARIANTS TypeOK ActiveTasksAccounted SchedulerConsistent NoPriorityInversion SliceRespected SlotRespected NoStall FinishedInTime
PROPERTIES ReadyServed ImplementsProcessor
\* RoundRobinScheduler may stop at its assertion, as PreemptiveSlice shows, and
\* AVBScheduler at that of AVBScheduler.cpp:94.
CHECK_DEADLOCK FALSE
