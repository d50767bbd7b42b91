\* Three subscribe calls on two keys: two can meet on one key while the third
\* holds the Mutex for the other.
SPECIFICATION RegistryAlone
CONSTANTS
  PerWindow = 2
  LastBar = 5
  RingCap = 2
  AutoExit = 2
  None = None
  Calls = {c1, c2, c3}
  Keys = {k1, k2}
  NoCall = NoCall
INVARIANTS
  RefcountsExact
  NothingLeaks
PROPERTIES
  SubscribeAnswered
  IdleKeyGoesQuiet
  ShutdownCloses
CHECK_DEADLOCK FALSE
