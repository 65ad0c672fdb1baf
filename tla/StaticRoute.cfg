SPECIFICATION FairSpec
CONSTANTS
  h1 = h1
  h2 = h2
  h3 = h3
  h4 = h4
  h5 = h5
  d1 = d1
  d2 = d2
  d3 = d3
  Null = Null
  Uninit = Uninit
  Hop = {h1, h2, h3, h4, h5}
  FirstHops <- ForkFirst
  ChildHops <- ForkChildren
  DestOf <- ForkDest
  Message = {m1, m2, m3}
INVARIANTS TypeOK SlotsExclusive ReleasedWhenDone DeliveredInOrder
PROPERTIES EveryDestinationReached
\* The messages are sent once.
CHECK_DEADLOCK FALSE
