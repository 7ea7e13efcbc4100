\* Two commits of one key; the data and the coverage stay.
SPECIFICATION Spec
CONSTANTS
  Commits = {k1, k2}
  Approvals = {a1}
  MaxVersion = 0
  MaxLapses = 0
  None = None
CHECK_DEADLOCK FALSE
PROPERTIES
  ExpiredIsNotRevived
