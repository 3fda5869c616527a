SPECIFICATION FairSpec
CONSTANTS
    Acquirers = {a1, a2, a3}
    Days = {1, 2}
    Ranges <- NestedRanges
    PartialBatches = TRUE
    Unlocked = {}
    Faults = {}
    CleanupAlone = TRUE
    MaxConflicts = 3
    MaxCleanups = 0
    None = None
PROPERTY
    ImplementsCache
CHECK_DEADLOCK FALSE
