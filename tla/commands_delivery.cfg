CONSTANTS
  p1 = p1
  p2 = p2
  m1 = m1
  m2 = m2
  Processes = {p1, p2}
  Commands = {m1, m2}
  None = None
  Setups <- AllSetups
  BatchMax = 2
  Many = 2
SPECIFICATION FairSpec
INVARIANTS
  TypeOK
  OneConsumerEach
PROPERTIES
  ImplementsDelivery
  EventuallyHandled
