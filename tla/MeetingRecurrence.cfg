SPECIFICATION Spec
CONSTANTS
  Worker = {w1, w2}
  Operations = {"materialize", "reschedule", "edit", "exclude", "cancel", "terminate", "delete_template"}
  Time = {1, 2}
  Occurrence = {1, 2}
  MaxAttempts = 3
  NoTime = NoTime
  Nobody = Nobody
INVARIANTS
  TerminatedFutureEmpty
  CancelledIffExcluded
  NoDeadlock
PROPERTIES
  ImplementsContract
SYMMETRY WorkerSymmetry
