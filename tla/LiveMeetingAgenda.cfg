SPECIFICATION Spec
CONSTANTS
  Worker = {w1}
  Operations = {"add", "schedule", "edit", "note", "unnote", "focus", "done", "follow_up", "reopen_item", "start", "end", "reopen"}
  Meeting = {1, 2}
  Item = {1, 2, 3}
  Section = {1}
  Title = {"a"}
  Notes = {"none"}
  NoNotes = "none"
  Markdown = {}
  None = None
  Nobody = Nobody
INVARIANTS
  PointerOnLiveAgenda
PROPERTIES
  AdvanceRule
  OutcomesSettled
CHECK_DEADLOCK FALSE
