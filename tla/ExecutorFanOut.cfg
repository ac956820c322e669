\* Fewer slots than threads, as with the defaults on any host with more than four processors.
CONSTANTS
  r1 = r1
  r2 = r2
  r3 = r3
  l1 = l1
  Calls <- ThreeRemote
  Local <- NoLocal
  MaxConcurrency = 1
  PoolSize = 2
SPECIFICATION Spec
INVARIANT FanOutCapped
CHECK_DEADLOCK FALSE
