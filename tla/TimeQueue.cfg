SPECIFICATION FairSpec
CONSTANTS
  Obj = {o1, o2, o3}
  \* ttReleaseQueue adds an activation that is due at once with delay 0;
  \* latencyQueue only adds with latency - delay > 0.
  Delays = {0, 1, 2}
  \* Callbacks do not add anything that is due at once.
  CallbackDelays = {1, 2}
  MaxTime = 4
INVARIANTS TypeOK NoneOverdue
PROPERTIES EveryEntryServed ImplementsTimers
\* The simulation ends at MaxTime, or at an assertion (AssertionsHold).
CHECK_DEADLOCK FALSE
