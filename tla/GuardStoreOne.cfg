\* One server process, two guards, two faults, a clock that only advances.
CONSTANTS
  Procs = {p1}
  Guards <- TwoGuards
  Operators = {alice}
  Intents = {i1}
  Ttls <- SomeTtls
  LastDate = 5
  MaxTime = 3
  ClockMayStepBack = FALSE
  MaxFaults = 2
  NoFile = NoFile
  Unreadable = Unreadable
  None = None
SPECIFICATION FairSpec
INVARIANTS TypeOK AckedDecisionStands RefusalMeansClosed ListingExact RaisesOnlyAfterFault
PROPERTIES TerminalIsFinal ImplementsLifecycle OverdueIsMarked
