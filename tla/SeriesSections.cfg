SPECIFICATION Spec
CONSTANTS
  Section = {s1, s2, s3, s4}
  Worker = {w1, w2}
  NoOne = NoOne
SYMMETRY Alike
INVARIANTS TypeOK
PROPERTIES ReorderExact UndisturbedReorderSucceeds
CHECK_DEADLOCK FALSE
