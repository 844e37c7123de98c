CONSTANTS
    Producers = {p1, p2}
    Consumers = {c1, c2}
    Joiner = joiner
    OrderIds = {o1}
    None = none
    MaxSize = 1
    MaxTime = 1
    MaxPuts = 2
    MayPoison = TRUE
SPECIFICATION Spec
INVARIANTS
    OneEventPerOrder
    DroppedBehindLater
PROPERTIES
    BlockedPutGetsIn
