\* One symbol with a row in both tables, and a start that cannot read the newer.
SPECIFICATION FairSpec
CONSTANTS
  Symbols = {s1}
  Callers = {c1}
  MaxUpserts = 2
  MaxFailures = 0
  MaxStops = 1
PROPERTIES
  NewTableWins
CHECK_DEADLOCK FALSE
