SPECIFICATION Spec
CONSTANTS
  Length = 3
  n1 = n1
  n2 = n2
  NodeIds = {n1, n2}
  MaxRV = 2
  MaxEvents = 6
INVARIANTS
  TypeOK
  WindowBounded
  WindowHoldsTheLatest
  LookupStaysValid
PROPERTIES
  ImplementsLog
CHECK_DEADLOCK FALSE
