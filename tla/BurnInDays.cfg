SPECIFICATION FairSpec
CONSTANTS
    None = None
    MaxDays = 2
    WeekDays = {2}
    FirstSlot = 6
    MaxStarts = 2
    MaxFaults = 1
CHECK_DEADLOCK FALSE
INVARIANTS
    OnePassAtATime
    FlatOvernight
    TuningApart
PROPERTIES
    EodPassHappens
