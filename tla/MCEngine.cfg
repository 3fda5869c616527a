SPECIFICATION FairSpec
CONSTANTS
    SlipScale = 10
    Slippage = 1
    CostScale = 10
    Commission = 1
    Symbols = {A, B}
    InitialCapital = 600
    InitialMargin = 15
    MaintenanceMargin = 3
    BorrowRate = 1
    Candles <- FewCandles
    Gaps = {1, 3}
    Signals <- SignalsOfTwoSymbols
    Quantities = {2}
    RequestedSymbol = None
    Unknown = Unknown
    None = None
    MaxBars = 4
INVARIANTS
    MarginBreachIsCalled
    ForcedCoverIsPrompt
    NoLookAhead
    PendingClosesPosition
    OnlyBadSignalsRaise
    MarkedAtClose
    LedgerBalances
    CollateralMatchesShorts
    FillFollowsPricePath
PROPERTIES
    MarginCallResolved
CHECK_DEADLOCK FALSE
