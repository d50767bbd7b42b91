SPECIFICATION DesktopSpec
CONSTANTS
  Clicks = {k1, k2, k3}
  Symbols = {s1, s2}
  Unused = Unused
  NoIds = NoIds
  Kinds <- PanelKinds
  MaxName = 2
  MaxPanel = 3
  MaxOpen = 2
  Renames = FALSE
  Stalls = TRUE
  Prices = {1}
  RingSize = 1
  BufferSize = 2
  MaxWindow = 3
  MaxTicks = 4
INVARIANTS
  IdsTranslate
  PanelIdsAreOwn
  PanelsAreLinked
  TargetPresent
  CompletedHasAll
CHECK_DEADLOCK FALSE
