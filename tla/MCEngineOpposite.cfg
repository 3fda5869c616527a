SPECIFICATION FairSpec
CONSTANTS
    SlipScale = 10
    Slippage = 1
    CostScale = 10
    Commission = 1
    Symbols = {A}
    InitialCapital = 600
    InitialMargin = 15
    MaintenanceMargin = 3
    BorrowRate = 1
    Candles <- FewCandles
    Gaps = {1}
    Signals <- OneSymbolSignals
    Quantities = {1, 2}
    RequestedSymbol = A
    Unknown = Unknown
    None = None
    MaxBars = 4
PROPERTY
    OppositeSignalCancels
CHECK_DEADLOCK FALSE
