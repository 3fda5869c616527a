SPECIFICATION Spec
CONSTANTS
    Acquirers = {a1, a2, a3}
    Days = {1, 2}
    Ranges <- DisjointRanges
    PartialBatches = FALSE
    Unlocked = {}
    Faults = {"validate", "write", "archive", "pin", "crash"}
    CleanupAlone = TRUE
    MaxConflicts = 3
    MaxCleanups = 1
    None = None
INVARIANTS
    CurrentIsComplete
    ReportsDiscoverable
    FailedRefreshKeepsData
PROPERTIES
    ImplementsCache
    CleanupRetains
SYMMETRY Symmetry
CHECK_DEADLOCK FALSE
