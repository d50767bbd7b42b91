\* A second subscriber after the first one's upstream has closed.
SPECIFICATION RegistryAlone
CONSTANTS
  PerWindow = 2
  LastBar = 5
  RingCap = 2
  AutoExit = 2
  None = None
  Calls = {c1, c2}
  Keys = {k1}
  NoCall = NoCall
PROPERTIES
  JoinsLiveAggregator
CHECK_DEADLOCK FALSE
