CONSTANTS
    Orders = {o1, o2, o3}
    NoOrder = none
    Quantities = {3}
    Levels = {1, 2}
    Volumes = {0, 1, 4}
    Participation = 2
    MaxBars = 2
SYMMETRY Symmetry
SPECIFICATION ExchangeSpec
CHECK_DEADLOCK FALSE
INVARIANTS
    FilledOnce
PROPERTIES
    LeavesBookFilled
