CONSTANTS
  c1 = c1
  c2 = c2
  Callers = {c1, c2}
  XdbThreshold = 1
  CacheThreshold = 2
  HalfOpenMax = 1
  WordMax = 1
  Settings <- SomeSettings
SPECIFICATION FairSpec
INVARIANTS
  TypeOK
  XdbOpensOnXdbFailures
  ZeroTtlForgiven
PROPERTIES
  NestedRecovery
  DownXdbStaysOpen
  EventuallyFresh
