SPECIFICATION FairSpec
CONSTANTS
    Acquirers = {a1, a2}
    Days = {1, 2}
    Ranges <- OneDayRange
    PartialBatches = FALSE
    Unlocked = {}
    Faults = {}
    CleanupAlone = FALSE
    MaxConflicts = 3
    MaxCleanups = 1
    None = None
PROPERTY
    CleanupRetains
CHECK_DEADLOCK FALSE
