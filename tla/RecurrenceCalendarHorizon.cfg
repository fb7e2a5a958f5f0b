SPECIFICATION Search
CONSTANTS
  Rules <- SevenMonths
  Sooner <- MCSooner
  Moves <- MCMoves
  Touched = 1
  LastDay = 3500
INVARIANTS HorizonCovers
CHECK_DEADLOCK FALSE
