SPECIFICATION Spec
CONSTANTS
    Runs = {r1, r2}
    Workers = {w1, w2}
    Calls = {c1, c2}
    Times = {1, 2}
    MaxAttempts = 1
    Faults = {"aws", "service", "timeout", "worker", "kill", "acquire"}
    None = None
INVARIANTS
    ExecutedOnce
    SucceededIsServable
    EndStateIsTrue
    NoRunLeftOpen
PROPERTY
    KeepsLedger
SYMMETRY Symmetry
CHECK_DEADLOCK FALSE
