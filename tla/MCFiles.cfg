\* Upload: two PUTs, two calls, two cleanup workers, one disturbance.  Import: two
\* requests staging one file of two rows, two overlapping passes, one retry.  Fair.
SPECIFICATION MCSpec
CONSTANTS
  Puts = {u1, u2}
  Calls = {c1, c2}
  Workers = {w1, w2}
  None = None
  LateAbort = FALSE
  Budget = 1
  Stagers = {s1, s2}
  N = 2
  Limit = 2
  MaxAttempts = 2
  MaxJobs = 1
  ImportBudget = 2
CHECK_DEADLOCK FALSE
INVARIANTS
  TypesOK
  AvailableFileIsStored
  NoOrphanedObject
  AmbiguityIsFenced
PROPERTIES
  NoResurrection
  FilesSettle
