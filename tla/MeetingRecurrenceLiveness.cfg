SPECIFICATION Spec
CONSTANTS
  Worker = {w1, w2}
  Operations = {"materialize", "cancel", "terminate"}
  Time = {1, 2}
  Occurrence = {1, 2}
  MaxAttempts = 2
  NoTime = NoTime
  Nobody = Nobody
PROPERTY
  RequestsReturn
