\* One invitation, no disturbance.
SPECIFICATION Spec
CONSTANTS
  Intents = {i1}
  Verifications = {}
  Drains = {d1, d2}
  None = None
  Gone = Gone
  MaxAttempts = 2
  Budget = 0
CHECK_DEADLOCK FALSE
INVARIANTS
  CanceledMailIsTerminal
