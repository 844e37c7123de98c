------------------------------ MODULE MCSwarm ------------------------------
(* Frames of an uptrend, a sell-off and a fresh listing. *)
EXTENDS Swarm

Uptrend ==
    [bars |-> 260, trend |-> 2, drift |-> 8, rsi |-> 62, volume |-> 21, above50 |-> 7,
     aboveLong |-> 6, aboveEma |-> TRUE, corr |-> 10, noise |-> 12, growth |-> 30,
     sigma |-> 20, thin |-> FALSE, draw |-> 6, patterns |-> {"bull_flag", "double_top"},
     enriched |-> TRUE, pctB |-> 90, closedUp |-> TRUE,
     accumulation |-> 60, moneyFlow |-> 55, smartMoney |-> 2]
SellOff ==
    [bars |-> 120, trend |-> -4, drift |-> -15, rsi |-> 25, volume |-> 30, above50 |-> -12,
     aboveLong |-> -14, aboveEma |-> FALSE, corr |-> -40, noise |-> 45, growth |-> -25,
     sigma |-> 60, thin |-> FALSE, draw |-> 22, patterns |-> {"double_top", "descending_triangle"},
     enriched |-> TRUE, pctB |-> -3, closedUp |-> FALSE,
     accumulation |-> -60, moneyFlow |-> 75, smartMoney |-> 0]
Listing ==
    [Uptrend EXCEPT !.bars = 12, !.enriched = FALSE, !.thin = TRUE, !.patterns = {}]

MCFrames == {Uptrend, SellOff, Listing}
MCContexts == {[news |-> 0, vix |-> 0, breadth |-> 0], [news |-> 20, vix |-> 35, breadth |-> -15]}
=============================================================================
