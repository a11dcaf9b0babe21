SPECIFICATION FairSpec
CONSTANTS
  Slots = {s1, s2}
  Workers = {w1, w2, w3}
  NoSlot = NoSlot
  Starters = {a}
  Stoppers = {x, y}
INVARIANTS
  TypeOK
  LinesMatchWork
PROPERTIES
  LaunchedStopReturns
  WorkersGetSlots
CHECK_DEADLOCK FALSE
