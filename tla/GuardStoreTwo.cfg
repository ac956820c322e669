\* Two server processes, one guard, a clock that may be set back, two faults.
CONSTANTS
  Procs = {p1, p2}
  Guards <- OneGuard
  Operators = {alice}
  Intents = {i1}
  Ttls <- SomeTtls
  LastDate = 5
  MaxTime = 2
  ClockMayStepBack = TRUE
  MaxFaults = 2
  NoFile = NoFile
  Unreadable = Unreadable
  None = None
SPECIFICATION Spec
INVARIANTS AuditExplainsStatus DecisionWithinTtl
