CONSTANTS
  Threads = {t1, t2, t3}
  Ways = {"bridge", "direct"}
  Debug = TRUE
  MaxCalls = 2
SPECIFICATION FairSpec
INVARIANTS
  LookupsAreExclusive
  BridgesAreExclusive
PROPERTIES
  DirectCallsReturn
CHECK_DEADLOCK FALSE
