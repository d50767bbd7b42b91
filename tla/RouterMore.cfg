\* What else holds, beside the run.
SPECIFICATION Spec
CONSTANTS
  Calls = {c1, c2, c3}
  Symbols = {s1}
  AutoExit = 1
  None = None
SYMMETRY CallSymmetry
INVARIANTS
  TypeOK
PROPERTIES
  GrantHasPublisher
CHECK_DEADLOCK FALSE
