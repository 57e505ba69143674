SPECIFICATION Spec
CONSTANTS
  Disbursements = {1}
  Conversations = {1, 2}
  Handlers = {h1, h2, h3}
  Ways = {"user", "monthly", "daily"}
  LastDay = 1
  MonthLength = 1
  Minimum = 1
  Takings = {1}
  Overlap = TRUE
  None = None
SYMMETRY Interchangeable
INVARIANTS
  MoneyLeavesAfterReview
  CompletedMeansMoneyMoved
PROPERTY OnlyStaleWritersReopen
\* the days under study end, and everything may be decided by then
CHECK_DEADLOCK FALSE
