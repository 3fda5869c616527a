SPECIFICATION Spec
CONSTANTS
    Days <- FourDays
    Sessions <- ThreeSessions
    AvailableAt <- SessionCloses
    RecentOverlap = 1
    RecentTTL = 0
    HistoricalTTL = 1
    CoverageNum = 1
    CoverageDen = 3
    MaxGap = 1
    MaxAttempts = 2
    DailyBudget = 2
    Requests <- MixedRequests
    AlphaFroms <- CompactFrom
    Replies <- SmallReplies
    MaxTime = 2
    None = None
INVARIANTS
    FreshHitIsFresh
    FailureIsExplained
    ServedMeetsPolicy
