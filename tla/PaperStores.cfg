CONSTANTS
    Tickers = {t1, t2}
    None = none
    StartingCash = 2
    PartialMinQuantity = 2
    MaxQuantity = 2
    MaxBought = 2
    MaxFailures = 1
    MaxCrashes = 1
SYMMETRY Symmetry
SPECIFICATION Spec
INVARIANTS
    StoresAgree
    CrashCostsOneTicker
