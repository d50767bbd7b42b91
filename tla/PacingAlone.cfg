\* One caller, which never finds a stale answer.
SPECIFICATION Spec
CONSTANTS
  Callers = {a}
  Keys = {k, l}
  Never = Never
  Cap = 2
  Period = 4
  Burst = 2
  BurstPeriod = 2
  Cooldown = 3
  MaxWait = 2
  MaxClock = 9
SYMMETRY Symmetry
INVARIANTS
  IdenticalApart
  TokensAreSpent
CHECK_DEADLOCK FALSE
