CONSTANTS
    Experiments = {e1, e2}
    OperatorBytes = {b1}
    Absent = absent
    None = none
    EarlyTrades = 0
    MinTrades = 1
    TimeoutSessions = 1
    Overlap = FALSE
    MaxFills = 1
    MaxCrashes = 1
    MaxEdits = 1
SPECIFICATION FairSpec
INVARIANTS
    CandidateNeverOrphaned
    RollbackAlwaysPossible
    CandidateLiveIsArmed
PROPERTIES
    KeptOnlyAfterGate
    ArchivedIsFinal
    KeepsPromise
    ProposalsAreDecided
CHECK_DEADLOCK FALSE
