\* A suggestion is accepted while its thread is purged.
SPECIFICATION Spec
CONSTANTS
  Workers = {w1}
  MaxTurns = 1
  MaxTools = 0
  MaxAttempts = 1
  Budget = 0
  None = None
CHECK_DEADLOCK FALSE
PROPERTIES
  AcceptedSuggestionIsKept
