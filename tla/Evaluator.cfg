SPECIFICATION Spec
CONSTANTS
  i1 = i1
  i2 = i2
  i3 = i3
  cpu1 = cpu1
  cpu2 = cpu2
  bus = bus
  mem = mem
  src = src
  snk = snk
  mon = mon
  out = out
  in = in
  chan1 = chan1
  chan2 = chan2
  produce = produce
  consume = consume
  slow = slow
  fast = fast
  distributed = distributed
  local = local
  shared = shared
  modified = modified
  annotated = annotated
  watt = watt
  trace = trace
  Time = {slow, fast}
  Watt = {watt}
  VcdFile = {trace}
  One = 2
  ActorTypes <- MCActorTypes
  ActorInstances <- MCActorInstances
  Fifos <- MCFifos
  Registers = {}
  ChanTranslation = "MEMORY_TASKS"
  FifoMerging = "SAME_CONTENT"
  GenerateMulticast = FALSE
  Functions <- MCFunctions
  Template <- MCTemplate
  VpcIgnoreRouting = FALSE
  Individuals <- Generation
  InitialStates <- MCInitialStates
  Phenotype = {distributed, local, shared, modified, annotated}
  Implementation <- MCImplementation
  Generations <- MCGenerations
  MaxDecodeThreads = 1
  MaxEvaluateThreads = 2
  MaxInterrupts = 1
INVARIANTS EvaluatedFaithfully
PROPERTIES CompleteReturns
CHECK_DEADLOCK FALSE
