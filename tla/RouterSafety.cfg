\* Three subscribe calls on one symbol: every interleaving of their handles'
\* lives with the actor, the publishers, upstream losses and shutdown.
SPECIFICATION Spec
CONSTANTS
  Calls = {c1, c2, c3}
  Symbols = {s1}
  AutoExit = 1
  None = None
SYMMETRY CallSymmetry
INVARIANTS
  PublisherOwned
  RefcountsExact
  NothingLeaks
  HandleKeepsHub
CHECK_DEADLOCK FALSE
