SPECIFICATION Spec
CONSTANTS
  h1 = h1
  h2 = h2
  h3 = h3
  h4 = h4
  h5 = h5
  d1 = d1
  d2 = d2
  d3 = d3
  Null = Null
  Uninit = Uninit
  Hop = {h1, h2}
  FirstHops <- ChainFirst
  ChildHops <- ChainChildren
  DestOf <- ChainDest
  Message = {m1}
INVARIANTS AutoDeleted
\* The messages are sent once.
CHECK_DEADLOCK FALSE
