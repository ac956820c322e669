\* One server process, two guards, a clock that only advances, one fault.
CONSTANTS
  Procs = {p1}
  Guards <- TwoGuards
  Operators = {alice}
  Intents = {i1}
  Ttls <- SomeTtls
  LastDate = 5
  MaxTime = 2
  ClockMayStepBack = FALSE
  MaxFaults = 1
  NoFile = NoFile
  Unreadable = Unreadable
  None = None
SPECIFICATION FairSpec
PROPERTY EveryOverdueIsMarked
