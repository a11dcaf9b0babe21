SPECIFICATION Spec
CONSTANTS
  Clients = {a, b}
  Requests = {r1, r2, r3, r4}
  Policies <- Fixed
  HasProvider = FALSE
  Cost = 2
  IdleTimeout = 4
  None = None
  MaxTime = 11
PROPERTIES
  ImplementsBuckets
CHECK_DEADLOCK FALSE
