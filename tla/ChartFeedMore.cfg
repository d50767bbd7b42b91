\* What else holds, beside the run, with two charts.
SPECIFICATION ChartDataSpec
CONSTANTS
  c1 = c1
  aapl = aapl
  msft = msft
  m1 = m1
  d1 = d1
  None = None
  Charts = {c1}
  Symbols = {aapl, msft}
  Timeframes = {m1, d1}
  Watched <- NoneWatched
  Lags = FALSE
  MaxAsk = 2
  InboxSize = 1
  Width = 3
  Capacity = 2
  MaxSlot = 7
SYMMETRY Alike
INVARIANTS TypeOK DataIsOfSymbol LoadingHasLoad
PROPERTY SwitchEvicts
CHECK_DEADLOCK FALSE
