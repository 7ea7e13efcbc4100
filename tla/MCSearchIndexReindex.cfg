\* Two clients: a creation, a revision and a reindexing of the workspace, clock to 6.
SPECIFICATION Spec
CONSTANTS
  Clients = {w1, w2}
  Operations = {"create", "revise", "reindex"}
  MaxClock = 6
  None = None
CHECK_DEADLOCK FALSE
INVARIANTS
  AlwaysFound
