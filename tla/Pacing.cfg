SPECIFICATION Spec
CONSTANTS
  Callers = {a, b}
  Keys = {k, l}
  Never = Never
  Cap = 2
  Period = 4
  Burst = 1
  BurstPeriod = 2
  Cooldown = 3
  MaxWait = 2
  MaxClock = 5
SYMMETRY Symmetry
INVARIANTS
  WindowBound
CHECK_DEADLOCK FALSE
