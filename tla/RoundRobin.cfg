SPECIFICATION FairSpec
CONSTANTS
  a = a
  b = b
  c = c
  m = m
  n = n
  NoJob = NoJob
  Task = {a, b, c}
  Msg = {m, n}
  PowerModes <- LineModes
  Timings <- LineTimings
  ActionNames <- LineActions
  GuardNames <- LineGuards
  GuardComplexity <- NoGuards
  GuardComplexityFactor <- NoFactor
  PwrIdle <- LineIdle
  PwrRunning <- LineRunning
  TaskOrder <- LineOrder
  Succ <- LineSucc
  Hop <- LineHop
  Sources = {a, c, n}
  Capacity = 1
  MessageTiming <- LineMessage
  StartPowerMode = "SLOW"
  Creations <- StartFirst
  DeadlineInfos <- OneInfo
INVARIANTS TypeOK NoLostWakeup EnergyCharged TraceFaithful DeadlinesSupervised
PROPERTIES ActorsServed
