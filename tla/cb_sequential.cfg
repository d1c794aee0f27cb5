CONSTANTS
  t1 = t1
  Threads = {t1}
  FailureThreshold = 3
  HalfOpenMax = 1
  WordMax = 3
  Panics = {FALSE}
SPECIFICATION FairSpec
PROPERTIES
  MeetsContract
  RecoversWhenHealthy
