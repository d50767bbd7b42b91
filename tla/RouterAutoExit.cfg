\* A subscriber granted a publisher that has already decided to exit.
SPECIFICATION Spec
CONSTANTS
  Calls = {c1, c2}
  Symbols = {s1}
  AutoExit = 2
  None = None
SYMMETRY CallSymmetry
INVARIANTS
  ConsumerHasPublisher
CHECK_DEADLOCK FALSE
