\* Two passes.  Deletion: one scope, one processor, one disturbance; webhook: two
\* disturbances, a failed statement, two aborts; process: three
\* disturbances; mail: a verification and an invitation, two drains, one
\* disturbance.  Fair.
SPECIFICATION MCSpec
CONSTANTS
  Requests = {r1}
  Workers = {w1, w2}
  Processors = {search}
  MaxDrift = 1
  MaxHolds = 1
  Budget = 1
  None = None
  WebhookAttempts = 3
  WebhookBudget = 2
  Errors = 1
  Aborts = 2
  Pauses = 0
  ProcessBudget = 3
  Intents = {i1, v1}
  Verifications = {v1}
  Drains = {d1, d2}
  Gone = Gone
  MailAttempts = 2
  MailBudget = 1
CHECK_DEADLOCK FALSE
INVARIANTS
  TypesOK
  LedgersAgree
  DeliveriesAreExact
PROPERTIES
  DeletedAsApproved
  WorkSettles
  ExitsAreEarned
  WorkerGoesOn
  SettledByHolder
  CancelWaitsForDelivery
