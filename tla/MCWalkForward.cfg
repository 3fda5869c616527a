SPECIFICATION FairSpec
CONSTANTS
    NoValue = NoValue
    ParameterSpaces <- Spaces
    Candles <- FewCandles
    Length = 11
    InSample = 1
    OutOfSample = 5
    Steps <- Overlapping
    Trials = 2
    Metrics <- ScoreRange
    Curves <- FewCurves
INVARIANTS
    WindowSignalsMatchReference
    WilderSignalsMatchReference
    BestTrialWins
    CombinedCurveChains
PROPERTY
    AnalysisEnds
