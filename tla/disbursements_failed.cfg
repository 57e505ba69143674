SPECIFICATION FairSpec
CONSTANTS
  Disbursements = {1, 2, 3}
  Conversations = {1, 2}
  Handlers = {h1}
  Ways = {"daily"}
  LastDay = 3
  MonthLength = 3
  Minimum = 1
  Takings = {1}
  Overlap = FALSE
  None = None
PROPERTY FailedPeriodIsRetried
\* the days under study end, and everything may be decided by then
CHECK_DEADLOCK FALSE
