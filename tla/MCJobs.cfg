\* Queue: one job fought over by two passes, two disturbances, or two jobs in one batch,
\* one disturbance; AI: two passes, two
\* turns, one tool call, one disturbance; extraction: two passes, a request and a retry,
\* two disturbances.  Fair.
SPECIFICATION MCSpec
CONSTANTS
  Jobs = {cleanup, analysis}
  CleanupJobs = {cleanup}
  CancelJobs = {analysis}
  Passes = {p1, p2}
  None = None
  Gone = Gone
  Limit = 2
  MaxAttempts = 2
  Budget = 2
  Workers = {w1, w2}
  MaxTurns = 2
  MaxTools = 1
  AiBudget = 1
  MaxLives = 2
  TextBudget = 2
CHECK_DEADLOCK FALSE
INVARIANTS
  TypesOK
  SnapshotIsCurrent
  LeasesAreTended
PROPERTIES
  FencedSettlement
  ImplementsDurableTask
  OutcomesAreFinal
  HeldThreadIsKept
  JobsSettle
