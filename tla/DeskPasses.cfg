CONSTANTS
    Tickers = {t1}
    None = none
    MaxPrice = 4
    Entries = {3}
    StopRoom = {1, 2}
    MinDistance = 2
    Trails = {1}
    MaxLosses = 2
    MaxFailures = 1
SPECIFICATION Spec
INVARIANTS
    LossesBounded
PROPERTIES
    StopsHold
    HaltStopsTheDesk
    StopHonoured
