CONSTANTS
  t1 = t1
  t2 = t2
  Threads = {t1, t2}
  FailureThreshold = 2
  HalfOpenMax = 1
  WordMax = 3
  Panics = {FALSE}
SPECIFICATION Spec
INVARIANTS
  OpenIsStamped
