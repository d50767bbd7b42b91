\* Two brackets share the book: every pair of the menu under every
\* configuration of the client.
SPECIFICATION Spec
CONSTANTS
  Brackets = {b1, b2}
  Menu <- MCMenu
  Configs <- MCConfigs
  Prices = {1, 2, 3, 4}
  MaxModifies = 1
SYMMETRY BracketSymmetry
INVARIANTS
  OneCancelsOther
  FailedSubmitIsDead
  CancelledIsDead
PROPERTIES
  ImplementsBracketLife
CHECK_DEADLOCK FALSE
