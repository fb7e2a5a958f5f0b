SPECIFICATION Spec
CONSTANTS
  User = {u1, u2}
  Project = {1, 2}
  Item = {i1}
  Nobody = Nobody
  None = None
INVARIANTS
  GroupHasAdmin
  MembersInGroup
  ActiveOwned
  AssigneesCanWork
  DecisionsHold
PROPERTY
  ArchivedReadOnly
SYMMETRY AccessSymmetry
