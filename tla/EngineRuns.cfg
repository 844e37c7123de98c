CONSTANTS
    Symbols = {"A", "B"}
    Strategies = {"g1", "g2"}
    Watches <- MCWatches
    Nothing = none
    Markets <- MCMarkets
    InitialCash = 14
    Scale = 2
    MaxNotional = 5
    Fee = 1
    BorrowRate = 1
    Lookback = 2
    Last <- MCLast
    MaxRuns = 1
    MayShutDown = TRUE
SPECIFICATION EngineSpec
CHECK_DEADLOCK FALSE
INVARIANTS
    ValueConserved
PROPERTIES
    RunEnds
