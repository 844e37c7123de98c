----------------------------- MODULE Indicators -----------------------------
(***************************************************************************)
(* data/indicators.py and the alpha factors, over a sequence of bars, the  *)
(* oldest first.  A bar has open, high, low, close and volume, in cents;   *)
(* averages, RSI and factors are in hundredths.  An indicator that has too *)
(* few bars behind it is None.  Where the code divides by a deviation, its *)
(* square is compared instead: Spread is the variance times the square of  *)
(* the number of bars.                                                     *)
(***************************************************************************)
LOCAL INSTANCE Integers
LOCAL INSTANCE Sequences
LOCAL INSTANCE SequencesExt
LOCAL INSTANCE FiniteSetsExt

CONSTANT None

Clamp(score, top) == Max({0, Min({top, score})})
Abs(n) == Max({n, -n})
Total(numbers) == FoldLeft(LAMBDA a, b : a + b, 0, numbers)
Latest(s, n) == SubSeq(s, Max({1, Len(s) - n + 1}), Len(s))
Closes(bars) == [i \in DOMAIN bars |-> bars[i].close]
Volumes(bars) == [i \in DOMAIN bars |-> bars[i].volume]
Highs(bars) == {bars[i].high : i \in DOMAIN bars}
Lows(bars) == {bars[i].low : i \in DOMAIN bars}

Sma(bars, n) == IF Len(bars) < n THEN None ELSE (100 * Total(Latest(Closes(bars), n))) \div n

\* An average of the first n values that each later one moves by 2/(n+1).
Ema(bars, n) ==
    LET first == (100 * Total(SubSeq(Closes(bars), 1, n))) \div n
        Move(average, bar) == average + ((100 * bar.close - average) * 2) \div (n + 1)
    IN IF Len(bars) < n THEN None ELSE FoldLeft(Move, first, SubSeq(bars, n + 1, Len(bars)))

\* The average of Wilder, of RSI and ATR.
Wilder(values, n) ==
    LET Move(average, value) == (average * (n - 1) + 100 * value) \div n
    IN FoldLeft(Move, (100 * Total(SubSeq(values, 1, n))) \div n, SubSeq(values, n + 1, Len(values)))

Changes(bars) == [i \in 1..Len(bars) - 1 |-> bars[i + 1].close - bars[i].close]
Rsi(bars) ==
    LET gain == Wilder([i \in DOMAIN Changes(bars) |-> Max({0, Changes(bars)[i]})], 14)
        loss == Wilder([i \in DOMAIN Changes(bars) |-> Max({0, -Changes(bars)[i]})], 14)
    IN CASE Len(bars) <= 14 -> None
         [] gain + loss = 0 -> 5000
         [] OTHER -> (10000 * gain) \div (gain + loss)

TrueRange(before, bar) ==
    Max({bar.high - bar.low, Abs(bar.high - before.close), Abs(bar.low - before.close)})
Atr(bars) ==
    IF Len(bars) < 15 THEN None
    ELSE Wilder([i \in 1..Len(bars) - 1 |-> TrueRange(bars[i], bars[i + 1])], 14)

Spread(numbers) ==
    Len(numbers) * Total([i \in DOMAIN numbers |-> numbers[i] * numbers[i]]) - Total(numbers) * Total(numbers)

\* The Bollinger Bands are two deviations from the mean of twenty closes; the
\* last close is (tenths / 10) deviations or more under it, over it for a
\* negative number.
Outlying(bars, tenths) ==
    LET closes == Latest(Closes(bars), 20)
        under == Total(closes) - 20 * Last(closes)
    IN  /\ Len(bars) >= 20 /\ Spread(closes) > 0
        /\ (tenths > 0) = (under > 0)
        /\ 100 * under * under >= tenths * tenths * Spread(closes)

\* The close is under the volume weighted price of all bars by more than 0.5%.
UnderVwap(bars) ==
    LET weighted == Total([i \in DOMAIN bars |->
                        (bars[i].high + bars[i].low + bars[i].close) * bars[i].volume])
    IN Last(bars).close * 600 * Total(Volumes(bars)) < 199 * weighted

-----------------------------------------------------------------------------
(* Alpha factors                                                           *)

MomentumFactor(bars) ==
    IF Len(bars) < 252 THEN 0
    ELSE (100 * Last(bars).close) \div bars[Len(bars) - 20].close - 100

VolumeFactor(bars) ==
    LET recent == Latest(Volumes(bars), 20)
    IN IF Len(bars) < 20 \/ Total(recent) = 0 THEN 0
       ELSE (2000 * Last(recent)) \div Total(recent) - 100

\* ewm(adjust=False): an average that starts from the first close.
Ewm(bars, n) ==
    LET Move(average, bar) == average + ((100 * bar.close - average) * 2) \div (n + 1)
    IN FoldLeft(Move, 100 * Head(bars).close, Tail(bars))
TrendStrengthFactor(bars) ==
    IF Len(bars) < 50 THEN 0 ELSE (100 * (Ewm(bars, 20) - Ewm(bars, 50))) \div Sma(bars, 50)

Root(n) == Max({r \in 0..5000 : r * r <= n})

\* The distance from the mean of fifty closes in sample deviations; its size
\* is all that is scored.
MeanReversionFactor(bars) ==
    LET closes == Latest(Closes(bars), 50)
    IN IF Len(bars) < 50 \/ Spread(closes) = 0 THEN 0
       ELSE (99 * Abs(50 * Last(closes) - Total(closes))) \div Root(Spread(closes))
=============================================================================
