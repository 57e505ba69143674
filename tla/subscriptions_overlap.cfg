SPECIFICATION Spec
CONSTANTS
  Plans = {starter}
  Length <- OneDay
  Pages = {1, 2}
  Renewals = {3}
  MaxTries = 1
  MaxRefusals = 1
  Handlers = {h1, h2}
  GraceDays = 1
  MaxAttempts = 1
  LastDay = 2
  Overlap = TRUE
  None = None
SYMMETRY Interchangeable
INVARIANTS
  PaidMeansCharged
PROPERTY OnlyStaleWritersUnpay
\* ids and days run out, and everything may be decided by then
CHECK_DEADLOCK FALSE
