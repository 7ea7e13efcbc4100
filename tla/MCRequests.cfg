\* Write: three calls, two bodies, two expiries; bucket: three policies, 8 ms, two
\* steps back or deployments; export: two commits, one approval, one change of the data;
\* search: two clients, clock to 5; merge: three people, two merges, two rows;
\* import: two requests, two passes, two rows, one retry, two disturbances.
SPECIFICATION MCSpec
CONSTANTS
  Calls = {c1, c2, c3}
  Bodies = {a, b}
  MaxLife = 2
  MaxTries = 3
  None = None
  Policies <- MCPolicies
  Costs <- MCCosts
  Scale = 4
  Absent = Absent
  MaxTime = 8
  BucketBudget = 2
  MaxStep = 3
  Commits = {k1, k2}
  Approvals = {a1}
  MaxVersion = 1
  MaxLapses = 1
  Clients = {w1, w2}
  Operations = {"create", "createUnlocked", "revise", "define", "reindex"}
  MaxClock = 5
  People = {p1, p2, p3}
  Facts = {f1}
  Names = {n1}
  Edges = {e1, e2}
  SelfEdges = {e2}
  Pairs = {{p1, p2}}
  MaxMerges = 2
  MaxRows = 2
  Limit = 2
  MaxAttempts = 2
  Stagers = {w1, w2}
  Workers = {w1, w2}
  N = 2
  MaxJobs = 2
  ImportBudget = 2
SYMMETRY MCSymmetry
CHECK_DEADLOCK FALSE
INVARIANTS
  TypesOK
  WrittenOnce
  AnswersFit
  GrantsAtItsRate
  RetryAfterSuffices
  ReadyIsWhole
  DownloadIsApproved
  RecordsFollow
  CandidatesComeBack
  IndexFollows
  RowsAppliedOnce
  StagedRowsAreExact
  ImportEndsWithJob
PROPERTIES
  ExpiryIsHarmless
