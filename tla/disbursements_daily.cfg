SPECIFICATION FairSpec
CONSTANTS
  Disbursements = {1, 2}
  Conversations = {1, 2}
  Handlers = {h1}
  Ways = {"daily"}
  LastDay = 2
  MonthLength = 3
  Minimum = 2
  Takings = {1, 2}
  Overlap = FALSE
  None = None
INVARIANTS
  PaidOnceUnlessLost
  EveryDaySettledOnce
  OnTimeRentIsSent
PROPERTY EarningsAreSettled
\* the days under study end, and everything may be decided by then
CHECK_DEADLOCK FALSE
