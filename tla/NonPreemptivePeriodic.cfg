SPECIFICATION Spec
CONSTANTS
  a = a
  b = b
  c = c
  m = m
  n = n
  NoTask = NoTask
  Task = {a, b, c}
  Msg = {n}
  Periodic = {a, c}
  Period <- ForkPeriod
  Delay <- PipeDelay
  Latency <- AloneLatency
  Priority <- PipePriority
  Remote <- PipeRemote
  Succ <- ForkSucc
  Hop <- ForkNoHop
  Sources = {n}
  Capacity = 1
  Policies = {"PRIORITY"}
INVARIANTS ReleasedInTime
\* The method of ttReleaseQueue may stop at its assertion (NonPreemptiveRelease).
CHECK_DEADLOCK FALSE
