CONSTANTS
  t1 = t1
  t2 = t2
  t3 = t3
  Threads = {t1, t2, t3}
  FailureThreshold = 2
  HalfOpenMax = 1
  WordMax = 3
  Panics = {FALSE, TRUE}
SPECIFICATION FairSpec
INVARIANTS
  TypeOK
  HalfOpenResolves
  ThresholdHonoured
PROPERTIES
  LockoutIsPermanent
  OpenResolves
  FailuresTrip
