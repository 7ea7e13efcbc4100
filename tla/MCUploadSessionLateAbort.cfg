\* Two PUTs, one call, one worker; PUTs that may be interrupted late.
SPECIFICATION Spec
CONSTANTS
  Puts = {u1, u2}
  Calls = {c1}
  Workers = {w1}
  None = None
  LateAbort = TRUE
  Budget = 0
SYMMETRY Symmetry
CHECK_DEADLOCK FALSE
INVARIANTS
  AmbiguityIsFenced
