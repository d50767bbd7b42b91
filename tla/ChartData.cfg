\* One chart with two symbols and timeframes, and bars of three slots over a ring
\* that a slow history can overwrite.
SPECIFICATION ChartDataSpec
CONSTANTS
  c1 = c1
  aapl = aapl
  msft = msft
  m1 = m1
  d1 = d1
  None = None
  Charts = {c1}
  Symbols = {aapl, msft}
  Timeframes = {m1, d1}
  Watched <- InWatchlist
  Lags = TRUE
  MaxAsk = 1
  InboxSize = 1
  Width = 3
  Capacity = 2
  MaxSlot = 7
INVARIANTS
  DataIsOfSymbol
  LiveHasNoHole
  OnlySeamIsMissing
PROPERTIES
  SwitchEvicts
  BoundChartsGoLive
  InOrder
CHECK_DEADLOCK FALSE
