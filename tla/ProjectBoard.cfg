SPECIFICATION Spec
CONSTANTS
  Foreign = {f1}
  Card <- MCCard
  MaxDrops = 2
  MaxVisits = 3
  MaxFaults = 1
INVARIANTS
  NothingForgotten
PROPERTIES
  Converges
  NewestDragKept
CHECK_DEADLOCK FALSE
