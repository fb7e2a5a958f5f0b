SPECIFICATION Spec
CONSTANTS
  Worker = {w1, w2}
  Operations = {"add", "schedule", "cancel", "delete_meeting", "delete_item", "link", "start", "cancel_meeting"}
  Meeting = {1, 2}
  Item = {1, 2, 3}
  Section = {1}
  Title = {"a"}
  Notes = {"none"}
  NoNotes = "none"
  Markdown = {}
  None = None
  Nobody = Nobody
INVARIANTS
  ActiveFollowUpBacked
  NoDeadlock
PROPERTIES
  TouchedItemsSurvive
  StartedTargetsKeepTraces
SYMMETRY WorkerSymmetry
CHECK_DEADLOCK FALSE
