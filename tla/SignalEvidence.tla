--------------------------- MODULE SignalEvidence ---------------------------
(***************************************************************************)
(* From the frames of one ticker to the evidence of EntryDecision: the     *)
(* regime of the daily bars, the setups of the intraday bars, the V2.5     *)
(* signal of the last six of them, the confluence of the setup V3 scores,  *)
(* what the counter-thesis objects to and where the stop comes to lie.     *)
(*                                                                         *)
(* The frames f of a ticker are a record:                                  *)
(*   daily            the daily bars, the oldest first                     *)
(*   bars             the intraday bars; at least five of them traded      *)
(*   dated            the intraday bars carry their time as one            *)
(*   refetched        the daily bars could be fetched again for sizing     *)
(*   correlation      of EntryDecision                                     *)
(*   exits            which exits of its strategy's tag won, oldest first  *)
(* Prices are in cents, scores and multipliers in hundredths; a share of a *)
(* price is compared by cross-multiplication.  Weights of a factor bench   *)
(* are left out: without its file all factors weigh the same.              *)
(***************************************************************************)
EXTENDS EntryDecision, Sequences, SequencesExt

CONSTANTS
    AtrStop,           \* atr_stop_multiplier
    MinStop,           \* min_stop_distance_pct
    MinReward,         \* min_reward_risk_ratio
    MinConfluence,     \* min_entry_confluence_score
    Window, MinWinRate, FullRate   \* of the strategy tracker

ASSUME EvidenceAssumption ==
    /\ {AtrStop, MinStop, MinReward, MinConfluence} \subseteq Nat
    /\ Window \in Nat \ {0} /\ {MinWinRate, FullRate} \subseteq 0..100
    /\ MinStop \in 1..20 /\ Price >= 100

INSTANCE Indicators

-----------------------------------------------------------------------------
(* The daily frame                                                         *)

\* Fewer than 50 bars tell nothing: every metric is zero.
Known(daily) == Len(daily) >= 50
Close(daily) == 100 * Last(daily).close
Above(daily, percent) ==
    Known(daily) /\ (Close(daily) - Sma(daily, 50)) * 100 > percent * Sma(daily, 50)
Below(daily, percent) ==
    Known(daily) /\ (Sma(daily, 50) - Close(daily)) * 100 > percent * Sma(daily, 50)

\* _calculate_adx, which is the directional index of fourteen days: the true
\* range cancels.
Adx(daily) ==
    LET days == Len(daily) - 13..Len(daily)
        up == [i \in days |-> daily[i].high - daily[i - 1].high]
        down == [i \in days |-> daily[i - 1].low - daily[i].low]
        plus == MapThenSumSet(LAMBDA i : IF up[i] > Max({0, down[i]}) THEN up[i] ELSE 0, days)
        minus == MapThenSumSet(LAMBDA i : IF down[i] > Max({0, up[i]}) THEN down[i] ELSE 0, days)
    IN IF ~Known(daily) \/ plus + minus = 0 THEN 0 ELSE (10000 * Abs(plus - minus)) \div (plus + minus)

\* The share of twenty days whose ATR was no higher than today's.
Volatility(daily) ==
    LET atr == [i \in Len(daily) - 19..Len(daily) |-> Atr(SubSeq(daily, 1, i))]
    IN IF ~Known(daily) THEN 0
       ELSE 5 * Cardinality({i \in DOMAIN atr : atr[i] <= atr[Len(daily)]})

\* Half the range of the momentum metric: ten percent in ten days.
Rises(daily) == LET old == daily[Len(daily) - 9].close IN (Last(daily).close - old) * 10 > old
Falls(daily) == LET old == daily[Len(daily) - 9].close IN (old - Last(daily).close) * 10 > old

\* detect_market_regime
Regime(daily) ==
    CASE ~Known(daily) -> "range_bound"
      [] Volatility(daily) > 80 \/ Adx(daily) > 5000 -> "high_volatility"
      [] Adx(daily) > 2500 /\ Above(daily, 5) ->
            IF Rises(daily) THEN "strong_uptrend" ELSE "weak_uptrend"
      [] Adx(daily) > 2500 /\ Below(daily, 5) ->
            IF Falls(daily) THEN "strong_downtrend" ELSE "weak_downtrend"
      [] OTHER -> "range_bound"

\* is_bullish_daily_regime
Bullish(daily) ==
    Known(daily) /\ Close(daily) > Ema(daily, 20) /\ Ema(daily, 20) > Sma(daily, 50)

-----------------------------------------------------------------------------
(* The setups of the last bar                                              *)

\* Bars without volume at the end are not looked at.
Traded(bars) == SubSeq(bars, 1, SelectLastInSeq(bars, LAMBDA bar : bar.volume > 0))

\* The volume of the last bar is at least (percent)% of the mean of five.
VolumeReaches(bars, percent) ==
    /\ Len(bars) >= 5
    /\ Last(bars).volume * 500 >= percent * Total(Latest(Volumes(bars), 5))
VolumeAbove(bars, percent) ==
    /\ Len(bars) >= 5
    /\ Last(bars).volume * 500 > percent * Total(Latest(Volumes(bars), 5))

RangeHigh(bars) == Max(Highs(Front(Latest(bars, 5))))

Bull(bar) == bar.close > bar.open
ClosesOver(bar, percent) ==
    /\ bar.high > bar.low
    /\ (bar.close - bar.low) * 100 >= percent * (bar.high - bar.low)

Breakout(bars) ==
    Len(bars) > 4 /\ Last(bars).close > RangeHigh(bars) /\ VolumeAbove(bars, 100)
Continuation(bars) ==
    /\ Len(bars) >= 5 /\ ClosesOver(Last(bars), 65)
    /\ Last(bars).close > bars[Len(bars) - 1].close
    /\ Last(bars).close * 5 > Total(Latest(Closes(bars), 5))
    /\ VolumeReaches(bars, 80)

\* identify_intraday_setup
TrendSetup(bars) ==
    CASE Breakout(bars) -> "breakout"
      [] Continuation(bars) -> "momentum"
      [] OTHER -> "none"

\* Oversold: at or under a tenth of the band, with a turn unless under it.
RsiUnder(bars, level) == Rsi(bars) # None /\ Rsi(bars) < 100 * level
Oversold(bars) ==
    /\ Outlying(bars, 16) /\ RsiUnder(bars, 40)
    /\ Bull(Last(bars)) \/ Outlying(bars, 20)
BelowVwap(bars) == UnderVwap(bars) /\ Bull(Last(bars)) /\ ClosesOver(Last(bars), 50)
RangeReversal(bars) ==
    LET bar == Last(bars)
        before == bars[Len(bars) - 1]
        ten == Latest(bars, 10)
        width == Max(Highs(ten)) - Min(Lows(ten))
    IN  /\ Len(bars) >= 11 /\ width > 0
        /\ (bar.close - Min(Lows(ten))) * 5 <= width
        /\ before.close < before.open /\ Bull(bar)
        /\ RsiUnder(bars, 40)

\* identify_mean_reversion_setup
ReversionSetup(bars) ==
    CASE ~VolumeReaches(bars, 80) -> "none"
      [] Oversold(bars) -> "oversold"
      [] BelowVwap(bars) -> "vwap"
      [] RangeReversal(bars) -> "range"
      [] OTHER -> "none"

-----------------------------------------------------------------------------
(* The confluence of a setup: the parts that do not depend on the regime    *)
(* map of EntryDecision.  kind is "breakout", "momentum" or "reversion"; a   *)
(* momentum setup takes the reversion branch wherever there are only two.    *)

\* The standard deviation of the numbers is under 5% of their mean.
Narrow(numbers) == Spread(numbers) * 8000 < 19 * Total(numbers) * Total(numbers)
ClearRange(bars) ==
    LET range == Latest(bars, 20)
    IN  /\ Len(bars) >= 20
        /\ Narrow([i \in 1..20 |-> range[i].high]) /\ Narrow([i \in 1..20 |-> range[i].low])

Technical(daily, bars, kind) ==
    LET bottom == Min(Lows(Latest(daily, 5)))
        width == Max(Highs(Latest(daily, 5))) - bottom
        place == Last(bars).close - bottom
        extreme == Len(daily) >= 5 /\ width > 0 /\
            \/ kind = "breakout" /\ place * 10 > 7 * width
            \/ kind = "reversion" /\ place * 10 < 3 * width
        averages == Known(daily) /\
            \/ kind = "breakout" /\ Ema(daily, 20) > Sma(daily, 50)
            \/ kind = "reversion" /\ Ema(daily, 20) < Sma(daily, 50)
    IN Min({200, 100 + (IF ClearRange(bars) THEN 30 ELSE 0)
                     + (IF extreme THEN 40 ELSE 0) + (IF averages THEN 30 ELSE 0)})

Volume(bars) ==
    CASE Len(bars) < 5 -> 100
      [] VolumeReaches(bars, 200) -> 200
      [] VolumeReaches(bars, 150) -> 170
      [] VolumeReaches(bars, 100) -> 140
      [] VolumeReaches(bars, 80) -> 100
      [] OTHER -> 60

Trend(daily) ==
    LET adx == Adx(daily)
        regime == Regime(daily)
        strength == CASE adx > 4000 -> 50 [] adx > 2500 -> 30 [] adx < 1500 -> -30 [] OTHER -> 0
        suited == CASE regime \in {"strong_uptrend", "weak_uptrend"} -> 30
                    [] regime = "range_bound" -> 10
                    [] regime = "strong_downtrend" -> -50
                    [] OTHER -> 0
        side == CASE Above(daily, 2) -> 20 [] Below(daily, 2) -> -20 [] OTHER -> 0
    IN Clamp(100 + strength + suited + side, 200)

RsiBonus(rsi, kind) ==
    CASE rsi = None -> 0
      [] kind = "breakout" /\ rsi > 7000 -> -30
      [] kind = "breakout" /\ rsi \in 5000..7000 -> 30
      [] kind = "reversion" /\ rsi < 3500 -> 50
      [] kind = "reversion" /\ rsi > 6000 -> -40
      [] OTHER -> 0

\* _score_momentum, over the closes of three bars.
Momentum(bars, kind) ==
    LET old == bars[Len(bars) - 2].close
        gain == Last(bars).close - old
        base == IF kind = "breakout" THEN (IF gain * 100 > old THEN 120 ELSE 80)
                ELSE (IF gain * 200 > -old THEN 110 ELSE 70)
    IN IF Len(bars) < 3 THEN 100 ELSE Clamp(base + RsiBonus(Rsi(bars), kind), 200)

\* _score_alpha_factor: momentum, volume and trend count from zero up, a
\* reversion factor by its size.
AlphaFactor(daily) ==
    LET scores == <<Clamp(2 * MomentumFactor(daily), 200), Clamp(2 * VolumeFactor(daily), 200),
                    Clamp(2 * TrendStrengthFactor(daily), 200),
                    Clamp(5 * MeanReversionFactor(daily), 200)>>
    IN IF Len(daily) < 60 THEN 100 ELSE Clamp((Total(scores) * 110) \div 400, 200)

Confluence(daily, bars, kind) ==
    Technical(daily, bars, kind) + Volume(bars) + Trend(daily) + Momentum(bars, kind)

-----------------------------------------------------------------------------
(* The V2.5 signal and the stops                                           *)

\* How many bars back generate_recent_signal finds a setup: the newest first.
Windows(bars) == {n \in Max({5, Len(bars) - 5})..Len(bars) :
                    TrendSetup(SubSeq(bars, 1, n)) # "none"}
HasRecent(f, bars) == Bullish(f.daily) /\ f.dated /\ Windows(bars) # {}
Recent(f, bars) ==
    LET window == SubSeq(bars, 1, Max(Windows(bars))) IN
    IF ~HasRecent(f, bars) THEN None
    ELSE [source |-> "v2.5", strategy |-> "intraday",
          quality |-> IF VolumeReaches(window, 100) THEN "GREEN" ELSE "YELLOW",
          confidence |-> CASE VolumeAbove(window, 150) -> 90
                           [] TrendSetup(window) = "breakout" -> 80
                           [] OTHER -> 75]

MinDistance == (Price * MinStop) \div 100

\* A stop at least AtrStop ATRs away; one that is not above zero falls back
\* to one percent, and none is nearer than the minimum distance.
Widened(distance, atr) ==
    LET floored == IF atr = None THEN distance ELSE Max({distance, (atr * AtrStop) \div 100})
    IN Max({MinDistance, IF floored >= Price THEN Price \div 100 ELSE floored})

\* _calculate_trade_parameters of V3
SelectedStop(bars, setup) ==
    Widened(CASE setup = "breakout" -> Price - Min(Lows(Latest(bars, 5)))
              [] setup = "momentum" -> Price - bars[Len(bars) - 1].low
              [] OTHER -> Price \div 100,
            Atr(bars))

\* _adaptive_stop_target: ATRs to the stop and the reward for the risk.
Adaptive(regime) ==
    CASE regime = "strong_uptrend" -> <<150, 150>>
      [] regime = "weak_uptrend" -> <<200, 150>>
      [] regime = "high_volatility" -> <<375, 250>>
      [] regime = "range_bound" -> <<300, 130>>
      [] OTHER -> <<300, 200>>

\* adapt_signal_to_volatility_regime, on a distance and a reward.
Adapted(geometry, atr, regime) ==
    LET distance == Max({MinDistance, (atr * Adaptive(regime)[1]) \div 10000})
    IN IF atr = None \/ atr = 0 \/ distance >= Price THEN geometry
       ELSE <<distance, Adaptive(regime)[2]>>

\* selection_to_signal: the stop of the selection, and twice the risk as target.
Selected(bars, strategy) ==
    <<SelectedStop(bars, IF strategy = "mean_reversion" THEN "reversion" ELSE TrendSetup(bars)), 200>>

\* A V3 signal is adapted to the regime V3 found.  The resolver of both votes
\* adapts its choice once more, on a daily frame without the ATR the regime is
\* detected by: that regime is always range_bound.
Geometry(f, bars, signal) ==
    LET window == SubSeq(bars, 1, Max(Windows(bars)))
        plain == IF signal.source = "v3" THEN Selected(bars, signal.strategy)
                 ELSE <<Widened(Price - Min(Lows(Latest(window, 5))), Atr(window)), 200>>
        atr == IF signal.source = "v3" THEN Atr(bars) ELSE Atr(window)
        inner == IF signal.source = "v3" THEN Adapted(plain, atr, Regime(f.daily)) ELSE plain
    IN IF Parallel THEN Adapted(inner, atr, "range_bound") ELSE inner

-----------------------------------------------------------------------------
(* The counter-thesis, on frames it fetches itself                         *)

\* Price up and RSI down over the last five bars that have one.
Diverges(bars) ==
    LET first == Max({15, Len(bars) - 4})
    IN /\ Len(bars) >= first + 2 /\ Last(bars).close > bars[first].close
       /\ Rsi(bars) < Rsi(SubSeq(bars, 1, first))

\* The daily close is over its average by more than five percent, or by ten.
Extension(daily) ==
    LET over == (Close(daily) - Ema(daily, 20)) * 10
    IN CASE Len(daily) < 20 -> {}
         [] over >= Ema(daily, 20) -> {"double_extension"}
         [] 2 * over > Ema(daily, 20) -> {"extension"}
         [] OTHER -> {}

Raised(daily, bars) ==
    (IF Rsi(bars) # None /\ Rsi(bars) >= 7500 THEN {"overbought"} ELSE {})
    \cup (IF Len(bars) >= 5 /\ ~VolumeReaches(bars, 80) THEN {"volume_non_confirmation"} ELSE {})
    \cup (IF Diverges(bars) THEN {"rsi_divergence"} ELSE {})
    \cup (IF Outlying(daily, -20) THEN {"resistance_proximity"} ELSE {})
    \cup (IF Regime(daily) \in {"weak_downtrend", "strong_downtrend", "high_volatility"}
          THEN {"regime_misalignment"} ELSE {})
    \cup (IF Len(bars) >= 3 /\ Last(bars).close < bars[Len(bars) - 2].close
          THEN {"waning_momentum"} ELSE {})
    \cup (IF Volatility(daily) >= 85 THEN {"volatility_spike"} ELSE {})
    \cup Extension(daily)

-----------------------------------------------------------------------------
(* The evidence                                                            *)

\* compute_v25_confluence_score: volume, breakout and daily averages, four each.
\* An average that is missing counts as zero.
Confluent(daily, bars) ==
    LET over == Last(bars).close - RangeHigh(bars)
        volume == Min({400, (1000 * Last(bars).volume) \div Total(Latest(Volumes(bars), 5))})
        breakout == IF over > 0 THEN Min({400, (20000 * over) \div RangeHigh(bars)}) ELSE 0
        averages == CASE Len(daily) < 20 -> 200
                      [] ~Known(daily) -> IF Close(daily) > Ema(daily, 20) THEN 400 ELSE 200
                      [] Bullish(daily) -> 400
                      [] Close(daily) > Ema(daily, 20) \/ Ema(daily, 20) > Sma(daily, 50) -> 200
                      [] Close(daily) > Sma(daily, 50) -> 100
                      [] OTHER -> 0
    IN volume + breakout + averages >= MinConfluence

\* allocation_multiplier: a strategy is judged by its latest exits, and not
\* before it has had enough of them.
Allocation(exits) ==
    LET rate == (100 * Len(SelectSeq(Latest(exits, Window), LAMBDA won : won))) \div Window
    IN CASE Len(exits) < Window \/ rate >= FullRate -> 100
         [] rate >= MinWinRate -> 50
         [] OTHER -> 0

\* What is seen in the frames, before there is a signal.
Sight(f) ==
    LET bars == Traded(f.bars)
        trend == TrendSetup(bars)
    IN [regime |-> Regime(f.daily), trend |-> trend, reversion |-> ReversionSetup(bars) # "none",
        base |-> [trend_following |-> Confluence(f.daily, bars, trend),
                  mean_reversion |-> Confluence(f.daily, bars, "reversion")],
        factor |-> AlphaFactor(f.daily), recent |-> Recent(f, bars),
        selected |-> None, signal |-> None,
        raised |-> Raised(f.daily, f.bars),
        clean |-> Last(bars).close > RangeHigh(bars) /\ VolumeReaches(bars, 100),
        confluent |-> Confluent(f.daily, bars),
        atr |-> IF ~f.refetched \/ Len(f.daily) < 19 THEN None ELSE Atr(f.daily) \div 100,
        correlation |-> f.correlation, allocation |-> Allocation(f.exits),
        stop |-> MinDistance, rewarding |-> FALSE, age |-> 0]

\* The stop, the reward and the age are those of the signal that is chosen.
EvidenceOf(f, sight) ==
    LET bars == Traded(f.bars)
        voted == [sight EXCEPT !.selected = SelectStrategy(sight)]
        signal == Signal(voted)
        geometry == Geometry(f, bars, signal)
    IN IF signal = None THEN voted
       ELSE [voted EXCEPT
            !.signal = signal, !.stop = geometry[1], !.rewarding = geometry[2] >= MinReward,
            !.age = IF signal.source = "v3" THEN 0 ELSE Len(bars) - Max(Windows(bars))]
=============================================================================
