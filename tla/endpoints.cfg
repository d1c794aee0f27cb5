CONSTANTS
  r1 = r1
  r2 = r2
  Requests = {r1, r2}
  Asks <- SomeAsks
  Settings <- SomeSettings
  FailureThreshold = 2
  HalfOpenMax = 1
  WordMax = 2
SPECIFICATION FairSpec
INVARIANTS
  TypeOK
  AnswerTellsOutcome
PROPERTIES
  EveryRequestAnswered
  HungXdbTrips
