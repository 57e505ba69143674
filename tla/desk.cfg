SPECIFICATION DeskSpec
CONSTANTS
    \* Tenancies
    Units = {"u1"}
    Leases = {"l1", "l2"}
    Standing = {"l1"}
    Offers = {"o1", "o2"}
    Desks = {"d1", "d2"}
    Horizon = 3
    Ends = {0, 2}
    Term = 2
    SetByHand = {"VACANT"}
    MaxLettings = 3
    \* OfflineQueue
    t1 = t1
    t2 = t2
    Jobs = {"j1"}
    Tabs = {t1, t2}
    MaxFaults = 2
    \* Bulk
    Lets = {"b1", "b2"}
    Operations = {"op1"}
    Officers = {"c1", "c2"}
    FirstRent = 1
    HighestRent = 3
    LastPeriod = 4
    MaxRuns = 3
    \* Breaches
    Breaches = {"br1"}
    Patterns = {"key"}
    Watches = {"w1", "w2"}
    LastDay = 3
    MaxSteps = 3
    \* Team
    People = {"p1", "p2", "p3"}
    Founders = {"p1", "p2"}
    Invitations = {"i1"}
    Panels = {"k1", "k2"}
    LinkHours = 1
    GraceHours = 1
    LastHour = 3
    MaxLinks = 2
    MaxActs = 3
INVARIANT DeskTypeOK
PROPERTIES
    LetTwiceOnlyByOverlapOrRevival
    OnlyOverlapReopensAnOffer
    StatusFollowsDates
    OnlyMissedAnswerOrTwoTabsRepeat
    QueuedJobsSettle
    TenantsHearOnceWhatIsDone
    DeadlineIsChased
    OnlyOverlapOrOwnWishLocksOut
CHECK_DEADLOCK FALSE
