SPECIFICATION Search
CONSTANTS
  Rules <- MCRules
  Sooner <- MCSooner
  Moves <- MCMoves
  Touched = 2
  LastDay = 3500
INVARIANTS ExpansionExact NextExact
PROPERTIES SearchEnds
CHECK_DEADLOCK FALSE
