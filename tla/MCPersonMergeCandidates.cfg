\* Three people, two merges, one candidate, undone in any order.
SPECIFICATION Spec
CONSTANTS
  People = {p1, p2, p3}
  Facts = {}
  Names = {}
  Edges = {}
  SelfEdges = {}
  Pairs = {{p1, p2}}
  None = None
  MaxMerges = 2
  MaxRows = 1
CHECK_DEADLOCK FALSE
INVARIANTS
  CandidatesAreRestored
