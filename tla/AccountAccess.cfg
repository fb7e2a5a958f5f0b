SPECIFICATION Spec
CONSTANTS
  Token = {t1, t2, t3}
  Worker = {w1, w2}
  Browser = {b1, b2}
  Session = {s1, s2}
  NoOne = NoOne
SYMMETRY Alike
INVARIANTS OneAccountPerAddress TokenNeedsRace
PROPERTIES RevocationsReach
CHECK_DEADLOCK FALSE
