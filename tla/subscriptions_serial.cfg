SPECIFICATION FairSpec
CONSTANTS
  Plans = {starter}
  Length <- OneDay
  Pages = {1, 2}
  Renewals = {3, 4, 5}
  MaxTries = 6
  MaxRefusals = 0
  Handlers = {h1}
  GraceDays = 0
  MaxAttempts = 3
  LastDay = 2
  Overlap = FALSE
  None = None
INVARIANTS
  LockFollowsLapse
  PeriodsFollowOn
PROPERTIES
  OldMoneyMovesNothing
  DueIsDecided
\* ids and days run out, and everything may be decided by then
CHECK_DEADLOCK FALSE
