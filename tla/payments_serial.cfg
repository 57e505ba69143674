SPECIFICATION FairSpec
CONSTANTS
  Payments = {p1, p2}
  Handlers = {h1}
  Staff = {ann, bob}
  Approvers = {bob}
  Methods = {"CASH", "MPESA"}
  Amounts = {2}
  CashThreshold = 1
  Total <- TwoBills
  PastDue = {1}
  QueryLags = TRUE
  Overlap = FALSE
  None = None
INVARIANT OldestDebtFirst
PROPERTIES
  KeepsPromise
  PendingEnds
\* every payment id can be used up and everything decided: then nothing is left to do
CHECK_DEADLOCK FALSE
