SPECIFICATION FairSpec
CONSTANTS
    Jobs = {j1, j2}
    s1 = s1
    s2 = s2
    Seeds = {s1, s2}
    Metric <- TwoMetrics
    ActualMetric = 2
    MaxTerminal = 1
    TTL = 2
    MaxTime = 3
    None = None
INVARIANTS
    ActiveJobsAreKept
    ResultsKeptUntilOldOrCrowded
    ResultIsExact
PROPERTIES
    ServesJobs
    JobsSettle
CHECK_DEADLOCK FALSE
