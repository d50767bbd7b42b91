\* Two callers and two symbols, old rows to migrate, a failing transaction and
\* a restart.
SPECIFICATION FairSpec
CONSTANTS
  Symbols = {s1, s2}
  Callers = {c1, c2}
  MaxUpserts = 3
  MaxFailures = 1
  MaxStops = 1
INVARIANTS
  UnsavedIsPending
  ClosedIsSaved
PROPERTIES
  NeverGoesBack
  EventuallySaved
CHECK_DEADLOCK FALSE
