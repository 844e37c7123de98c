SPECIFICATION BacktestSpec
CONSTANTS
    Nothing = Nothing
    Frames <- MCFrames
    Plans <- MCPlans
    Stops = {1, 2}
    Targets = {2}
    MinWindow = 1
    Warmup = 1
    HoldDays = 2
    StartCash = 40
    Fee = 1
    Slippage = 1
    RiskShare = 5
    TickerShare = 1
    Multipliers = {50, 80}
    MinReward = 1
CHECK_DEADLOCK FALSE
INVARIANTS
    CurveIsEquity
    TradeRiskBounded
    NoDayTradedTwice

