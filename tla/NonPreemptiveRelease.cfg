SPECIFICATION Spec
CONSTANTS
  a = a
  b = b
  c = c
  m = m
  n = n
  NoTask = NoTask
  Task = {a, b}
  Msg = {}
  Periodic = {a}
  Period <- AlonePeriod
  Delay <- PipeDelay
  Latency <- AloneLatency
  Priority <- PipePriority
  Remote <- PipeRemote
  Succ <- AloneSucc
  Hop <- AloneSucc
  Sources = {b}
  Capacity = 2
  Policies = {"FCFS"}
INVARIANTS AssertionsHold
