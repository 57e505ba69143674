SPECIFICATION Spec
CONSTANTS
  Plans = {starter, business}
  Length <- OneDay
  Pages = {1, 2}
  Renewals = {3}
  MaxTries = 3
  MaxRefusals = 1
  Handlers = {h1}
  GraceDays = 1
  MaxAttempts = 3
  LastDay = 2
  Overlap = FALSE
  None = None
INVARIANT PlanIsPaidFor
CHECK_DEADLOCK FALSE
