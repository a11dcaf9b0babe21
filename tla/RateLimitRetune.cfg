SPECIFICATION Spec
CONSTANTS
  Clients = {a}
  Requests = {r1, r2, r3, r4, r5}
  Policies <- Changing
  HasProvider = TRUE
  Cost = 2
  IdleTimeout = 4
  None = None
  MaxTime = 8
SYMMETRY Symmetry
INVARIANTS
  BoundedAdmission
CHECK_DEADLOCK FALSE
