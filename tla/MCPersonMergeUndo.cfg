\* Three people, two merges, one record, undone in any order.
SPECIFICATION Spec
CONSTANTS
  People = {p1, p2, p3}
  Facts = {f1}
  Names = {}
  Edges = {}
  SelfEdges = {}
  Pairs = {}
  None = None
  MaxMerges = 2
  MaxRows = 1
CHECK_DEADLOCK FALSE
INVARIANTS
  RecordsAreRestored
