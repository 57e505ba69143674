SPECIFICATION OfficeSpec
CONSTANTS
    \* RentLedger
    t1 = t1
    c1 = c1
    c2 = c2
    Tenancies = {t1}
    Clerks = {c1, c2}
    Months = 2
    Rent = 10
    MeterCharge = 2
    MonthlyPool = 4
    ReservePercent = 50
    FeeRule <- MCFeeRule
    Amounts = {15}
    MaxRequests = 3
    \* Applications
    p1 = p1
    p2 = p2
    b1 = b1
    r1 = r1
    r2 = r2
    Applicants = {p1, p2}
    Backers = {b1}
    Readers = {r1, r2}
    OwnScore = 50
    MaxPosts = 3
    \* Agreements
    Contracts = {"a1"}
    Links <- MCLinks
    Staff = {"w1", "w2"}
    LastDay = 2
    LinkDays = 1
    TermDays = 1
    NoticeDays = 1
    MaxDealings = 3
    \* Logins
    Seats = {"s1", "s2"}
    Others = {"s2"}
    Windows = {"w1", "w2"}
    PageCallers <- MCPageCallers
    Cap = 1
    MaxCalls = 3
    \* Maintenance
    Tickets = {"m1"}
    Vendors = {"v1"}
    Crew = {"c1", "c2"}
    LastMonth = 2
    MaxErrands = 4
    \* Deliveries
    Receipts = {"r1"}
    Posts = {"p1"}
    Couriers = {"c1", "c2"}
    MaxAttempts = 2
    MaxTries = 2
    MaxRounds = 3
    \* Bookings
    Assets = {"v1"}
    Hires = {1, 2}
    Bays = {"b1"}
    Stays = {1, 2}
    Rooms = {"hall"}
    Evenings = {1, 2}
    Counters = {"c1", "c2"}
    LastDate = 2
    MaxBookings = 4
    \* Evidence
    Members = {"u1", "u2"}
    Records = {"r1", "r2", "r3"}
    KindOf <- MCKindOf
    HoldIds = {"h1"}
    Archivists = {"c1", "c2"}
    BatchSize = 2
    MaxFilings = 4
INVARIANTS
    OfficeTypeOK
    CreditIsBacked
    OneCarefulPageStaysSignedIn
    FinishedJobsCountOnce
    ToldTwiceOnlyByLossOrInsistence
PROPERTIES
    OnlyStaleWritersUnbalance
    OnlyOverlapMisscores
    OnlyOverlapOrLostCopyStrands
    OnlyOverlapLendsTwice
    OnlyLateOrTwofoldWorkBreaksTheChain
    OnlyAnEarlierLookErasesTooMuch
CHECK_DEADLOCK FALSE
