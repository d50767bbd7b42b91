\* What else holds, beside the run.
SPECIFICATION GatewaySpec
CONSTANTS
  LastId = 3
  Plans <- Brackets
  Quotes <- Spreads
  Requests <- StocksAndOption
  PartialThreshold = 2
  None = None
  Sessions = {s1, s2}
  Reqs = {q1, q2}
  Symbols = {y1}
  Orders = {o1}
  MaxLines = 1
  MaxTbt = 1
  Limit = 4
  Window = 4
  Burst = 2
  BurstWindow = 2
  Cooldown = 1
  MaxTime = 7
SYMMETRY Symmetry
INVARIANTS
  FeedIsSubscribed
  Types
  FillsOnce
  LinesAreUsed
  KeepsWhatCounts
PROPERTIES
  CancelledStays
CHECK_DEADLOCK FALSE
