SPECIFICATION FairSpec
CONSTANTS
    Acquirers = {a1, a2}
    Days = {1, 2}
    Ranges <- NestedRanges
    PartialBatches = FALSE
    Unlocked = {a2}
    Faults = {"fetch", "write", "sync", "rmtree", "crash"}
    CleanupAlone = FALSE
    MaxConflicts = 2
    MaxCleanups = 1
    None = None
INVARIANT
    BuiltOnPrevious
PROPERTY
    AcquisitionsFinish
CHECK_DEADLOCK FALSE
