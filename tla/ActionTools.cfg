\* One call of any tool, at any moment of two seconds.
CONSTANTS
  TicksPerSecond = 2
  MaxTime = 4
  Garbled = Garbled
  Infinite = Infinite
  Unsafe = Unsafe
  None = None
  Settings <- SomeSettings
  Hosts <- SomeHosts
  Services <- SomeServices
  SafeName <- Stripped
  Payloads <- SomePayloads
  Ttls <- SomeTtls
  Inventory <- SomeInventory
SPECIFICATION Spec
INVARIANTS TypeOK EffectIsSigned EffectWithinLists EffectAsAsked ExpiryWithinASecond
\* One call is made.
CHECK_DEADLOCK FALSE
