\* Two subscribe calls on two symbols under the fairness of the runtime.
\* (Every behaviour may end with the router dropped and its tasks over.)
SPECIFICATION FairSpec
CONSTANTS
  Calls = {c1, c2}
  Symbols = {s1, s2}
  AutoExit = 2
  None = None
PROPERTIES
  SubscribeAnswered
  IdleSymbolGoesQuiet
  LostHubCloses
CHECK_DEADLOCK FALSE
