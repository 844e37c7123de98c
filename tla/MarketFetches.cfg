SPECIFICATION Spec
CONSTANTS
    None = None
    Procs = {p1, p2}
    Requests <- MCRequests
    Supports <- MCSupports
    Priority <- MCPriority
    Ready = {"finnhub", "yfinance"}
    Answers <- MCAnswers
    MinBars = 2
    MaxJump = 100
    MaxAge = 5
    ClosedAge = 6
    MaxEntries = 2
    Patience = 50
    PassRequests = 2
    Hours <- MCHours
    Tick = 50
    MaxTime = 200
    MaxClears = 1
    MaxAsks = 3
SYMMETRY Symmetry
CHECK_DEADLOCK FALSE
INVARIANTS
    OwnProviders
    ServedWithinTtl
    ExitsOnRecentBars
