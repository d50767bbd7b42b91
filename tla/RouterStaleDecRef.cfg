\* A DecRef that reaches the hub opened after its own was torn down.
SPECIFICATION Spec
CONSTANTS
  Calls = {c1, c2, c3}
  Symbols = {s1}
  AutoExit = 2
  None = None
SYMMETRY CallSymmetry
INVARIANTS
  ClosedHasReason
CHECK_DEADLOCK FALSE
