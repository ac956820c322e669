\* Two server processes share the directory; nothing fails.
CONSTANTS
  Procs = {p1, p2}
  Guards <- OneGuard
  Operators = {alice}
  Intents = {i1}
  Ttls <- SomeTtls
  LastDate = 5
  MaxTime = 1
  ClockMayStepBack = FALSE
  MaxFaults = 0
  NoFile = NoFile
  Unreadable = Unreadable
  None = None
SPECIFICATION Spec
INVARIANT OneDecisionPerGuard
