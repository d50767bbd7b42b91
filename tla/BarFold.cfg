\* Three windows of two 5 s bars, an upstream channel that retains two.
SPECIFICATION FoldAlone
CONSTANTS
  PerWindow = 2
  LastBar = 5
  RingCap = 2
  AutoExit = 2
  None = None
  Calls = {c1}
  Keys = {k1}
  NoCall = NoCall
INVARIANTS
  OutInOrder
  CompletedIsWhole
PROPERTIES
  FoldedIsEmitted
CHECK_DEADLOCK FALSE
