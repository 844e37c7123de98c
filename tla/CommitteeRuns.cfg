CONSTANTS
    Presets = {"investment_committee", "technical_analysis_panel", "quant_desk", "crypto_desk", "risk_committee", "fundamental_analysis_team", "macro_economics_team"}
    Tickers = {t1}
    Frames <- MCFrames
    NoFrame = noFrame
    Contexts <- MCContexts
    MaxConcurrent = 2
    MaxRetries = 1
    MaxRuns = 2
SPECIFICATION SwarmFairSpec
CHECK_DEADLOCK FALSE
INVARIANTS
    HandoffComplete
    DecisionsReproducible
PROPERTIES
    RunEnds
