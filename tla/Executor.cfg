\* Three remote calls queue for one slot; two threads, so a session may outlive
\* its call; and a local call.
CONSTANTS
  r1 = r1
  r2 = r2
  r3 = r3
  l1 = l1
  Calls <- ThreeRemoteOneLocal
  Local <- OneLocal
  MaxConcurrency = 1
  PoolSize = 2
SPECIFICATION FairSpec
INVARIANTS TypeOK SlotsConserved AnswersAreTrue
PROPERTIES NoJobBegunLate EveryCallEnds
\* Every call may have ended.
CHECK_DEADLOCK FALSE
