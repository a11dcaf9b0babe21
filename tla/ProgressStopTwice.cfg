SPECIFICATION Spec
CONSTANTS
  Slots = {s1}
  Workers = {w1}
  NoSlot = NoSlot
  Starters = {a}
  Stoppers = {x, y}
INVARIANTS
  StopNeverPanics
