CONSTANTS
  r1 = r1
  r2 = r2
  Requests = {r1, r2}
  Program <- Programs
  Whitelist = {"report.abc", "loop.abc", "../up.abc"}
  Endless = {"loop.abc"}
  Malformed = {"../up.abc"}
  Asks <- SomeAsks
  Settings <- SomeSettings
SPECIFICATION FairSpec
INVARIANTS
  TypeOK
  SurfaceComplete
PROPERTIES
  ImplementsRuns
  EveryRequestAnswered
