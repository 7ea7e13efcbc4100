\* One pass reaches its time limit.
SPECIFICATION Spec
CONSTANTS
  Workers = {w1, w2}
  MaxAttempts = 3
  Budget = 0
  Errors = 0
  Aborts = 1
  Pauses = 0
CHECK_DEADLOCK FALSE
INVARIANTS
  NoStrandedRetry
