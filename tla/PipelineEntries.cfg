SPECIFICATION Spec
CONSTANTS
    None = None
    Parallel = TRUE
    Tolerance = "medium"
    MinScore = 550
    AllowYellow = TRUE
    CounterThesis = TRUE
    SupportThreshold = 72
    BlockThreshold = 30
    BlockAt = 60
    PolicyMultiplier = 50
    YellowShare = 50
    Price = 200
    RiskShare = 5
    TickerShare = 50
    AtrMultiplier = 4
    MaxShares = 4
    MaxCorrelation = 50
    AtrStop = 3
    MinStop = 3
    MinReward = 100
    MinConfluence = 600
    Window = 2
    MinWinRate = 20
    FullRate = 60
    Tickers <- MCTickers
    SectorOf <- MCSectorOf
    Frames <- MCFrames
    Yesterday = "t1"
    Cash = 1600
    Fee = 100
    Slippage = 1
    SectorShare = 50
    HeatShare = 4
    MaxDailyOrders = 2
    MaxCandidateAge = 1
    MaxTime = 1
    MaxScans = 1
    MaxSymbols = 2
    MaxFaults = 1
INVARIANTS
    OrderWithinBudget
    DecisionStands
    BrokerIsPortfolio
PROPERTIES
    LimitsHeld
CHECK_DEADLOCK FALSE
