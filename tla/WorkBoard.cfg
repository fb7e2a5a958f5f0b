SPECIFICATION Spec
CONSTANTS
  Item <- MCItem
  Seeded <- MCItem
  Status <- MCStatus
  Definitions <- MCDefinitions
  Category = {"todo", "done"}
  Type = {t1, t2}
  Worker = {w1, w2}
  NoOne = NoOne
  MaxRequests = 3
INVARIANTS StatusesSound CirclesNeedMove LastTypeNeedsRace
PROPERTIES BoardOrderKept PersonalOrderKept MovesLand
CHECK_DEADLOCK FALSE
SYMMETRY Requests
