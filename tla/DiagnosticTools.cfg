\* One call of any diagnostic tool, with small caps.
CONSTANTS
  None = None
  Calls <- SomeCalls
  Inventory <- SomeInventory
  MaxSources = 3
  MaxFlows = 3
  MaxBurst = 3
SPECIFICATION FairSpec
INVARIANTS TypeOK AnswerIsTrue NothingStillAwaited WithinCaps CommandsSuitHost
PROPERTY EveryToolEnds
\* One call is made.
CHECK_DEADLOCK FALSE
