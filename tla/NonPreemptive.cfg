SPECIFICATION FairSpec
CONSTANTS
  a = a
  b = b
  c = c
  m = m
  n = n
  NoTask = NoTask
  Task = {a, b}
  Msg = {m, n}
  Periodic = {}
  Period <- AlonePeriod
  Delay <- PipeDelay
  Latency <- PipeLatency
  Priority <- PipePriority
  Remote <- PipeRemote
  Succ <- PipeSucc
  Hop <- PipeHop
  Sources = {a, n}
  Capacity = 2
  Policies = {"FCFS", "DYNAMIC", "PRIORITY"}
INVARIANTS TypeOK AssertionsHold ActiveTasksAccounted NoActivationLost ReleasedTasksCanFire NoLostWakeup TokensConserved
PROPERTIES ActivationServed ImplementsDataflow
