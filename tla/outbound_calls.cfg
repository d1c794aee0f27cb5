CONSTANTS
  c1 = c1
  c2 = c2
  Callers = {c1, c2}
  MaxEvents = 2
  MaxLog = 3
  Adapters <- AllAdapters
SPECIFICATION Spec
INVARIANTS
  TypeOK
PROPERTIES
  ImplementsContract
CHECK_DEADLOCK FALSE
