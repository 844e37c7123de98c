---------------------------- MODULE EntryDecision ----------------------------
(***************************************************************************)
(* From what the market shows about one ticker to the number of shares a   *)
(* paper trade buys of it: the strategy selector of V3, the vote of V3 and *)
(* V2.5, the counter-thesis, the supermodel and the risk manager.          *)
(*                                                                         *)
(* These are pure functions of the evidence, a record:                     *)
(*   regime            what detect_market_regime finds in the daily frame  *)
(*   trend, reversion  the setups of the latest bar ("none": no trend)     *)
(*   base, factor      confluence scores; base for each strategy           *)
(*   recent            the V2.5 signal of the last six bars, or None       *)
(*   selected, signal  what V3 selects and which vote is taken, or None    *)
(*   clean             the latest bar closes over its range on its volume  *)
(*   raised            the counter-thesis checks that object               *)
(*   stop, atr         distances under the entry; no ATR is None           *)
(*   correlation       of the portfolio with the ticker in it, or None     *)
(*   confluent         the V2.5 confluence score reaches its minimum       *)
(*   rewarding         the reward covers the risk as often as asked        *)
(*   allocation        the strategy tracker's multiplier for its tag       *)
(*   age               of the bar the signal is of                         *)
(* Scores, confidences, thresholds and multipliers are in hundredths.      *)
(***************************************************************************)
EXTENDS Integers, FiniteSets, FiniteSetsExt

CONSTANTS
    None,
    Parallel,          \* signal_mode: both voters, or V3 alone
    Tolerance,         \* risk_tolerance of the selector
    MinScore,          \* the score min_confidence asks for
    AllowYellow,       \* allow_yellow_mean_reversion
    CounterThesis,     \* counter_thesis.enabled
    SupportThreshold, BlockThreshold, \* supermodel
    BlockAt,           \* aggregate_block_threshold of the counter-thesis
    PolicyMultiplier,  \* range_bound_trend_caution_multiplier
    YellowShare,       \* yellow_allocation_pct
    Price,
    RiskShare,         \* max_risk_per_trade_pct
    TickerShare,       \* max_ticker_allocation_pct
    AtrMultiplier,
    MaxShares,         \* max_shares_per_position
    MaxCorrelation

ASSUME DecisionAssumption ==
    /\ {Parallel, AllowYellow, CounterThesis} \subseteq BOOLEAN
    /\ {SupportThreshold, BlockThreshold, BlockAt, PolicyMultiplier, YellowShare,
        RiskShare, TickerShare, MaxCorrelation} \subseteq 0..100
    /\ {Price, AtrMultiplier, MaxShares} \subseteq Nat \ {0}
    /\ MaxCorrelation \in 1..99
    /\ None \notin Int

Regimes == {"strong_uptrend", "weak_uptrend", "range_bound",
            "weak_downtrend", "strong_downtrend", "high_volatility"}

-----------------------------------------------------------------------------
(* V3: the strategy selector                                               *)

Recommended(regime) ==
    CASE regime \in {"strong_uptrend", "weak_uptrend"} -> "trend_following"
      [] regime \in {"range_bound", "weak_downtrend"} -> "mean_reversion"
      [] OTHER -> "none"

ShouldTrade(regime) ==
    CASE Tolerance = "low" -> regime \in {"strong_uptrend", "range_bound"}
      [] Tolerance = "medium" -> regime \notin {"strong_downtrend", "high_volatility"}
      [] OTHER -> TRUE

\* _score_regime_alignment
Alignment(ev, strategy) ==
    LET wanted == Recommended(ev.regime) IN
    CASE strategy = "trend_following" /\ ev.trend = "momentum" -> 100
      [] strategy = wanted -> 200
      [] wanted = "none" -> 0
      [] OTHER -> IF strategy = "trend_following" THEN 50 ELSE 70

SetUp(ev) == (IF ev.trend # "none" THEN {"trend_following"} ELSE {})
             \cup (IF ev.reversion THEN {"mean_reversion"} ELSE {})

\* A setup against the regime is scored only when there is none with it: its
\* alignment is cut and its alpha factor is not added again.
Penalty(ev, strategy) ==
    IF Recommended(ev.regime) = "none" /\ strategy = "trend_following" THEN 30 ELSE 50

TotalScore(ev, strategy) ==
    IF strategy = Recommended(ev.regime)
    THEN ev.base[strategy] + Alignment(ev, strategy) + ev.factor
    ELSE ev.base[strategy] + (Alignment(ev, strategy) * Penalty(ev, strategy)) \div 100

Candidates(ev) ==
    IF Recommended(ev.regime) \in SetUp(ev) THEN {Recommended(ev.regime)} ELSE SetUp(ev)

\* max() keeps the first of equal scores, and trend following is tried first.
Best(ev) ==
    CHOOSE s \in Candidates(ev) : \A o \in Candidates(ev) :
        \/ TotalScore(ev, s) > TotalScore(ev, o)
        \/ TotalScore(ev, s) = TotalScore(ev, o) /\ (s = o \/ s = "trend_following")

\* The weight of the confidence label of a score.
Confidence(score) ==
    CASE score >= 850 -> 90
      [] score >= 700 -> 75
      [] score >= 550 -> 55
      [] score >= 400 -> 30
      [] OTHER -> 0

SelectStrategy(ev) ==
    LET best == Best(ev)
        score == TotalScore(ev, best)
    IN IF ShouldTrade(ev.regime) /\ Candidates(ev) # {} /\ score >= MinScore
       THEN [source |-> "v3", strategy |-> best, quality |-> "GREEN", score |-> score,
             confidence |-> Confidence(score)]
       ELSE None

-----------------------------------------------------------------------------
(* The signal and what the details say of it                               *)

Voters(ev) == {ev.selected} \cup (IF Parallel THEN {ev.recent} ELSE {})
Votes(ev) == Voters(ev) \ {None}

\* The best of the BUY votes; V3 votes first.  Neither source ever votes SELL.
Signal(ev) ==
    IF Votes(ev) = {} THEN None
    ELSE CHOOSE v \in Votes(ev) : \A o \in Votes(ev) :
             \/ v.confidence > o.confidence
             \/ v.confidence = o.confidence /\ (v = o \/ v.source = "v3")

\* One voter of two is half size.
HalfSize(ev) == Parallel /\ Cardinality(Votes(ev)) = 1

\* _scan_quality: the details have a quality once V3 selects, else the bar decides.
Quality(ev) ==
    CASE ev.selected # None -> "GREEN"
      [] ev.clean -> "GREEN"
      [] OTHER -> "YELLOW"

\* is_mean_reversion of the details: V3's word where it selects.
MeanReverting(ev) ==
    AllowYellow /\ IF ev.selected # None
                   THEN ev.selected.strategy = "mean_reversion" ELSE ev.reversion

-----------------------------------------------------------------------------
(* The counter-thesis and the supermodel                                   *)

Checks == {"overbought", "volume_non_confirmation", "rsi_divergence", "resistance_proximity",
           "regime_misalignment", "waning_momentum", "volatility_spike",
           "extension", "double_extension"}

\* A check that objects, with the weight of its severity; high and above block.
\* Every V3 tag counts as a trend for the overbought check.
Weight(ev, check) ==
    CASE check \in {"rsi_divergence", "double_extension"} -> 60
      [] check = "overbought" -> IF ev.signal.source = "v3" THEN 60 ELSE 35
      [] check = "regime_misalignment" -> IF ev.regime = "strong_downtrend" THEN 100 ELSE 35
      [] OTHER -> 35

\* _evaluate_counter_thesis_for_signal: switched off, or without data, nobody objects.
Objections(ev) == IF CounterThesis THEN ev.raised ELSE {}

CounterPenalty(ev) == Min({100, MapThenSumSet(LAMBDA check : Weight(ev, check), Objections(ev))})
CounterBlocks(ev) ==
    \/ \E check \in Objections(ev) : Weight(ev, check) >= 60
    \/ CounterThesis /\ CounterPenalty(ev) >= BlockAt
CounterMultiplier(ev) == 100 - CounterPenalty(ev)

\* The scores of the layers that a BUY signal may have.
Layers(ev) ==
    {<<"setup", ev.signal.confidence>>}
    \cup (IF CounterThesis THEN {<<"counter", CounterMultiplier(ev)>>} ELSE {})
    \cup (IF ev.selected # None THEN {<<"v3", (ev.selected.score * 100) \div 1200>>} ELSE {})

\* build_stacked_signal, with the counter-thesis at full weight.
StackDecision(ev) ==
    LET layers == Layers(ev)
        score == MapThenSumSet(LAMBDA l : l[2], layers) \div Cardinality(layers)
    IN CASE CounterBlocks(ev) \/ \E l \in layers : l[2] < BlockThreshold -> "block"
         [] score >= SupportThreshold -> "support"
         [] OTHER -> "caution"

\* compute_entry_policy_multiplier: all four conditions, on the selected source.
PolicyApplies(ev) ==
    /\ ev.signal.source = "v3" /\ ev.signal.strategy = "trend_following"
    /\ ev.regime = "range_bound"
    /\ StackDecision(ev) = "caution"

-----------------------------------------------------------------------------
(* The risk manager: shares for one unit of equity at Price                *)

\* max(1, int(size * multiplier))
Scaled(size, multiplier) == Max({1, (size * multiplier) \div 100})

\* Variant: a size too small for the risk is rounded up to a share as well.
SizeAtLeastOne(equity, distance) ==
    Max({1, Min({(equity * RiskShare) \div (100 * distance), (equity * TickerShare) \div (100 * Price)})})

\* Floors of the risk over the distance to the stop and of the allocation.
SizeAt(equity, distance) ==
    Min({(equity * RiskShare) \div (100 * distance), (equity * TickerShare) \div (100 * Price)})

\* The stop is what the risk is measured by where there is no ATR, or none above zero.
Distance(ev) == IF ev.atr \in {None, 0} THEN ev.stop ELSE ev.atr * AtrMultiplier

TooCorrelated(correlation) ==
    correlation # None /\ correlation >= Min({95, MaxCorrelation + 30})

CorrelationMultiplier(correlation) ==
    IF correlation = None \/ correlation <= MaxCorrelation THEN 100
    ELSE Max({25, 100 - (100 * (correlation - MaxCorrelation)) \div (100 - MaxCorrelation)})

\* evaluate_signal for a ticker that is not open; 0 is a refusal.
RiskSize(equity, hot, ev, correlation) ==
    LET base == SizeAt(equity, Distance(ev)) IN
    IF hot \/ equity <= 0 \/ ~ev.rewarding \/ CounterBlocks(ev) \/ base = 0
       \/ TooCorrelated(correlation)
    THEN 0
    ELSE Min({MaxShares, Scaled(Scaled(base, CorrelationMultiplier(correlation)), CounterMultiplier(ev))})

\* The multipliers run_paper_trade applies to an approved size.
FinalSize(size, ev) ==
    LET full == IF ev.allocation < 100 THEN Scaled(size, ev.allocation) ELSE size
        yellow == IF Quality(ev) # "GREEN" THEN Scaled(full, YellowShare) ELSE full
        half == IF HalfSize(ev) THEN Scaled(yellow, 50) ELSE yellow
    IN IF PolicyApplies(ev) THEN Scaled(half, PolicyMultiplier) ELSE half
=============================================================================
