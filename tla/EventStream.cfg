SPECIFICATION Spec
CONSTANTS
  c1 = c1
  c2 = c2
  Change <- MCChange
  MaxLogin = 2
  MaxFaults = 2
INVARIANTS
  OneReconnection
PROPERTIES
  LosesOnlyItsSession
  RevocationReachesPage
  ImplementsChannel
CHECK_DEADLOCK FALSE
