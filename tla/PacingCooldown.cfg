\* Two callers that have passed the test of the cooldown together; with RollingWindow
\* or WaitWithinMax in its place, what else does not hold.
SPECIFICATION Spec
CONSTANTS
  Callers = {a, b}
  Keys = {k, l, m}
  Never = Never
  Cap = 2
  Period = 4
  Burst = 2
  BurstPeriod = 2
  Cooldown = 2
  MaxWait = 2
  MaxClock = 6
SYMMETRY Symmetry
INVARIANTS
  IdenticalApart
CHECK_DEADLOCK FALSE
