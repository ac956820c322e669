\* As DiagnosticTools.cfg.
CONSTANTS
  None = None
  Calls <- SomeCalls
  Inventory <- SomeInventory
  MaxSources = 3
  MaxFlows = 3
  MaxBurst = 3
SPECIFICATION Spec
INVARIANT RaisesOnlyIfRaised
CHECK_DEADLOCK FALSE
