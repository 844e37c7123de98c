------------------------- MODULE HistoricalBacktest -------------------------
(***************************************************************************)
(* backtest/runner.py: one symbol's bars are replayed, by intraday bars    *)
(* with an entry at the next open, or by daily bars with an entry at the   *)
(* close and a hold of a few days.  run_walk_forward and evaluate_offline  *)
(* (learning/experiments/replay.py) replay several date windows one after  *)
(* the other, each with a broker of its own.                               *)
(*                                                                         *)
(* The strategies' verdict on a bar is a choice; a signal is its stop, its *)
(* target and whether its thesis is weak.  Prices, cash and slippage are   *)
(* small integers; days count from the start date.                         *)
(***************************************************************************)
EXTENDS Integers, Sequences, FiniteSetsExt

CONSTANTS
    Frames,         \* what the market did: sequences of bars, for each mode
    Plans,          \* what is asked: [kind, mode, total, windows]
    Stops, Targets, \* distances of a signal's stop and target from its price
    MinWindow,      \* 20 days
    Warmup,         \* 5 intraday bars, 50 daily bars
    HoldDays,       \* 5
    StartCash,      \* 10,000
    Fee, Slippage,
    RiskShare,      \* of the equity, at risk in a trade: one part in ...
    TickerShare,    \* of the equity, in one ticker: one part in ...
    Multipliers,    \* percentages a size may be cut to
    MinReward,      \* min_reward_risk_ratio
    Nothing

ASSUME BacktestAssumption ==
    /\ {MinWindow, Warmup, HoldDays, RiskShare, TickerShare} \subseteq Nat \ {0}
    /\ {StartCash, Fee, Slippage, MinReward} \subseteq Nat
    /\ Stops \cup Targets \cup Multipliers \subseteq Nat \ {0}
    /\ Plans \subseteq [kind : {"once", "offline", "walk"}, mode : {"daily", "intraday"},
                        total : Nat, windows : Nat \ {0}]

PriceBar == [day : Nat, open : Nat, low : Nat, high : Nat, close : Nat]

\* A provider's bars come in the order of their times, daily bars one a day, and a bar
\* closes no lower than its low.
ASSUME FramesAssumption ==
    \A mode \in {"daily", "intraday"} : \A bars \in Frames[mode] :
        /\ bars \in Seq(PriceBar)
        /\ \A i \in DOMAIN bars : bars[i].low <= bars[i].close
        /\ \A i, j \in DOMAIN bars : i < j =>
              bars[i].day <= bars[j].day /\ (mode = "daily" => bars[i].day < bars[j].day)

Signal == [entry : Nat, stop : Nat, target : Nat, weak : BOOLEAN, size : Nat \cup {Nothing}]
OpenTrade == [stop : Nat, target : Nat, entry : Nat, shares : Nat, from : Nat, equity : Nat]
ClosedTrade == [from : Nat, to : Nat, shares : Nat, entry : Nat, exit : Int, equity : Nat]

ASSUME NothingAssumption == Nothing \notin Signal \cup OpenTrade

VARIABLES
    pc,
    plan,
    market,    \* the bars of the whole range
    results,   \* of the windows replayed: [from, to, pnl, days]
    frame,     \* the bars of this window
    cursor,    \* the bar looked at
    broker,    \* [cash, shares]
    open,      \* the open trade, or Nothing
    pending,   \* the signal to be filled at the next open, or Nothing
    records,   \* the closed trades
    pnl,
    marks      \* cash and shares at the close of each bar (history variable)

backtestVars == <<pc, plan, market, results, frame, cursor, broker, open, pending, records, pnl, marks>>

Daily == plan.mode = "daily"
Slip == IF Daily THEN 0 ELSE Slippage
Fresh == [cash |-> StartCash, shares |-> 0]

BacktestInit ==
    /\ pc = "window"
    /\ plan \in Plans
    /\ market \in Frames[plan.mode]
    /\ results = <<>>
    /\ frame = <<>> /\ cursor = 0
    /\ broker = Fresh /\ open = Nothing /\ pending = Nothing
    /\ records = <<>> /\ pnl = 0 /\ marks = <<>>

-----------------------------------------------------------------------------
(* Windows                                                                 *)

\* run_walk_forward: fewer windows when they would be shorter than 20 days.
Count ==
    IF plan.total < plan.windows * MinWindow THEN Max({1, plan.total \div MinWindow})
    ELSE plan.windows
Size == Max({1, plan.total \div Count})
WalkForward(w) ==
    [from |-> (w - 1) * Size, to |-> IF w < Count THEN w * Size ELSE plan.total]

\* evaluate_offline: train on 70 % of the days, validate on the rest.
TrainEnd == (plan.total * 7) \div 10
Split(w) == IF w = 1 THEN [from |-> 0, to |-> TrainEnd] ELSE [from |-> TrainEnd, to |-> plan.total]

Windows ==
    IF plan.kind = "once" THEN <<[from |-> 0, to |-> plan.total]>>
    ELSE IF plan.kind = "offline" THEN [w \in 1..2 |-> Split(w)]
    ELSE [w \in 1..(IF plan.total < 1 THEN 0 ELSE Count) |-> WalkForward(w)]

\* _filter_frame_by_date: from the first day to the end of the last, which is one
\* stretch of the bars; a provider may leave out the end date, the store does not.
Between(window, last) ==
    LET kept == {i \in DOMAIN market : window.from <= market[i].day /\ market[i].day <= last}
    IN IF kept = {} THEN <<>> ELSE SubSeq(market, Min(kept), Max(kept))

\* The providers' daily rows have their dates.  Those of the store, which the offline
\* evaluation reads (StoredBarLoader, read_bars), are numbered: 0, 1, 2, ...
Dated == plan.kind # "offline"

First == IF Daily THEN Warmup + 1 ELSE Warmup

\* run_backtest on the next window: bars before the warm-up are passed over.
BeginWindow ==
    /\ pc = "window"
    /\ Len(results) < Len(Windows)
    /\ LET window == Windows[Len(results) + 1]
       IN \E last \in {window.to} \cup (IF Dated THEN {window.to - 1} ELSE {}) :
            frame' = Between(window, last)
    /\ cursor' = First
    /\ broker' = Fresh /\ open' = Nothing /\ pending' = Nothing
    /\ records' = <<>> /\ pnl' = 0
    /\ marks' = [i \in 1..Min({First - 1, Len(frame')}) |-> StartCash]
    /\ pc' = IF First <= Len(frame') THEN "bar" ELSE "report"
    /\ UNCHANGED <<plan, market, results>>

-----------------------------------------------------------------------------
(* Orders                                                                  *)

Value(b, price) == b.cash + b.shares * price

\* evaluate_signal: the stop's distance against the risk share, the price against
\* the ticker's share, halved for a weak thesis; 0 is a refusal.
SizeOf(signal, equity) ==
    LET risk == signal.entry - signal.stop
        size == Min({equity \div (RiskShare * risk), equity \div (TickerShare * signal.entry)})
    IN IF signal.target - signal.entry < MinReward * risk \/ size = 0 THEN 0
       ELSE IF signal.weak THEN Max({1, size \div 2}) ELSE size

\* Variant: the size chosen at the signal is taken as it is.
QuantityAsked(signal, equity) == IF signal.size = Nothing THEN SizeOf(signal, equity) ELSE signal.size

\* submit_signal_as_order: the signal is evaluated again, and the override of the
\* backtest can only make the order smaller.
Quantity(signal, equity) ==
    LET size == SizeOf(signal, equity)
    IN IF signal.size = Nothing THEN size ELSE Min({signal.size, size})

Cost(signal, quantity) == quantity * (signal.entry + Slip) + Fee
Fills(signal, equity, b) ==
    LET quantity == Quantity(signal, equity)
    IN quantity > 0 /\ Cost(signal, quantity) <= b.cash

Bought(b, signal, equity) ==
    LET quantity == Quantity(signal, equity)
    IN [cash |-> b.cash - Cost(signal, quantity), shares |-> b.shares + quantity]
Trade(signal, equity, at) ==
    [stop |-> signal.stop, target |-> signal.target, entry |-> signal.entry + Slip,
     shares |-> Quantity(signal, equity), from |-> at, equity |-> equity]

\* _bar_exit: the stop before the target.
Exits(trade, bar) == bar.low <= trade.stop \/ bar.high >= trade.target
ExitPrice(trade, bar) == IF bar.low <= trade.stop THEN trade.stop ELSE trade.target

Record(trade, at, price) ==
    [from |-> trade.from, to |-> at, shares |-> trade.shares, entry |-> trade.entry,
     exit |-> price - Slip, equity |-> trade.equity]
Gain(r) == r.shares * (r.exit - r.entry) - 2 * Fee

-----------------------------------------------------------------------------
(* _run_symbol_backtest                                                    *)

\* Variant: the day's own daily row is complete.
SeasonedToday(i) == TRUE
\* _daily_frame_before_bar: there is a daily row of an earlier day.  A row's number is
\* read as a time of 1970, so that every numbered row counts as one.
Seasoned(i) == Dated => frame[1].day < frame[i].day

\* The signals there may be at the close of bar i.
Signals(i) ==
    {g \in [entry : {frame[i].close}, stop : {frame[i].close - s : s \in Stops},
            target : {frame[i].close + t : t \in Targets}, weak : BOOLEAN, size : {Nothing}] : g.stop > 0}

\* is_half_size and the entry policy cut the size the signal has now.
Cut(signal) ==
    LET size == SizeOf(signal, StartCash)
    IN IF size = 0 THEN {}
       ELSE {[signal EXCEPT !.size = Max({1, (size * m) \div 100})] : m \in Multipliers}
Queued(i) == Signals(i) \cup UNION {Cut(g) : g \in Signals(i)}

\* _signal_at_next_open: dropped when the open is beyond the stop or the target.
Repriced(signal, bar) == [signal EXCEPT !.entry = bar.open]
StillValid(signal, bar) == signal.stop < bar.open /\ bar.open < signal.target

\* One bar: fill what was queued at its open, then exit, then look for a signal.
ReplayBar ==
    /\ pc = "bar" /\ ~Daily
    /\ LET bar == frame[cursor]
           signal == Repriced(pending, bar)
           fills == /\ pending # Nothing /\ StillValid(pending, bar)
                    /\ Fills(signal, StartCash, broker)
           held == IF fills THEN Bought(broker, signal, StartCash) ELSE broker
           trade == IF fills THEN Trade(signal, StartCash, cursor) ELSE open
           exits == trade # Nothing /\ Exits(trade, bar)
           closed == Record(trade, cursor, ExitPrice(trade, bar))
           stopped == exits /\ bar.low <= trade.stop
       IN /\ IF exits
             THEN /\ broker' = [cash |-> held.cash + closed.shares * closed.exit - Fee,
                                shares |-> held.shares - closed.shares]
                  /\ records' = Append(records, closed)
                  /\ pnl' = pnl + Gain(closed)
                  /\ open' = Nothing
             ELSE broker' = held /\ open' = trade /\ UNCHANGED <<records, pnl>>
          /\ pending' \in
                IF stopped \/ open' # Nothing \/ cursor = Len(frame) \/ ~Seasoned(cursor) THEN {Nothing}
                ELSE {Nothing} \cup Queued(cursor)
          /\ marks' = Append(marks, Value(broker', bar.close))
    /\ cursor' = cursor + 1
    /\ pc' = IF cursor = Len(frame) THEN "close" ELSE "bar"
    /\ UNCHANGED <<plan, market, results, frame>>

\* What is open at the end is sold at the last close.
CloseOut ==
    /\ pc = "close"
    /\ IF open = Nothing THEN UNCHANGED <<broker, records, pnl>>
       ELSE LET closed == Record(open, Len(frame), frame[Len(frame)].close)
            IN /\ broker' = [cash |-> broker.cash + closed.shares * closed.exit - Fee,
                             shares |-> broker.shares - closed.shares]
               /\ records' = Append(records, closed)
               /\ pnl' = pnl + Gain(closed)
    /\ open' = Nothing
    /\ pc' = "report"
    /\ UNCHANGED <<plan, market, results, frame, cursor, pending, marks>>

-----------------------------------------------------------------------------
(* _run_symbol_backtest_daily                                              *)

\* The bar that ends a trade, within the hold; the last close ends it otherwise.
HoldEnd(i) == Min({i + HoldDays, Len(frame)})
ExitBar(trade, i) ==
    Min({HoldEnd(i)} \cup {j \in i + 1..HoldEnd(i) : Exits(trade, frame[j])})
DailyExit(trade, i) ==
    LET j == ExitBar(trade, i)
    IN IF j > i /\ Exits(trade, frame[j]) THEN ExitPrice(trade, frame[j]) ELSE frame[j].close

\* A day without a signal, or with one that is not filled.
PassDay ==
    /\ pc = "bar" /\ Daily
    /\ marks' = Append(marks, Value(broker, frame[cursor].close))
    /\ cursor' = cursor + 1
    /\ pc' = IF cursor = Len(frame) THEN "report" ELSE "bar"
    /\ UNCHANGED <<plan, market, results, frame, broker, open, pending, records, pnl>>

\* The whole trade is looked up at once; the next entry is after its exit.
TradeDay ==
    /\ pc = "bar" /\ Daily
    /\ \E signal \in Signals(cursor) :
        LET equity == Value(broker, frame[cursor].close)
            trade == Trade(signal, equity, cursor)
            closed == Record(trade, ExitBar(trade, cursor), DailyExit(trade, cursor))
            paid == broker.cash - Cost(signal, trade.shares)
        IN /\ Fills(signal, equity, broker)
           /\ records' = Append(records, closed)
           /\ pnl' = pnl + Gain(closed)
           /\ broker' = [broker EXCEPT !.cash = paid + closed.shares * closed.exit - Fee]
           /\ marks' = marks \o [k \in 1..(closed.to - cursor + 1) |->
                                   paid + trade.shares * frame[cursor + k - 1].close]
           /\ cursor' = closed.to + 1
           /\ pc' = IF closed.to = Len(frame) THEN "report" ELSE "bar"
    /\ UNCHANGED <<plan, market, results, frame, open, pending>>

-----------------------------------------------------------------------------
(* Results                                                                 *)

\* _build_equity_curve, from the records alone: each trade overwrites the curve
\* from its entry on.
Total(gains, k) == MapThenSumSet(LAMBDA j : gains[j], 1..k)
CashAfter(trades, k) == StartCash + Total([j \in DOMAIN trades |-> Gain(trades[j])], k)
Marked(k, i) ==
    CashAfter(records, k - 1) - records[k].shares * records[k].entry - Fee
        + records[k].shares * frame[i].close

\* Variant: a trade is marked from the bar after its entry on.
EquityAfterEntry(i) ==
    LET begun == {k \in DOMAIN records : records[k].from < i}
        k == Max(begun)
    IN IF begun = {} THEN StartCash
       ELSE IF i <= records[k].to THEN Marked(k, i) ELSE CashAfter(records, k)

Equity(i) ==
    LET begun == {k \in DOMAIN records : records[k].from <= i}
        k == Max(begun)
    IN IF begun = {} THEN StartCash
       ELSE IF i <= records[k].to THEN Marked(k, i) ELSE CashAfter(records, k)

\* run_walk_forward and evaluate_offline take the figures of a window and go on.
Report ==
    /\ pc = "report"
    /\ results' = Append(results,
            [pnl |-> pnl,
             days |-> UNION {{frame[i].day : i \in records[k].from..records[k].to} :
                                k \in DOMAIN records}])
    /\ frame' = <<>> /\ cursor' = 0
    /\ broker' = Fresh /\ open' = Nothing /\ pending' = Nothing
    /\ records' = <<>> /\ pnl' = 0 /\ marks' = <<>>
    /\ pc' = "window"
    /\ UNCHANGED <<plan, market>>

BacktestNext == BeginWindow \/ ReplayBar \/ CloseOut \/ PassDay \/ TradeDay \/ Report

BacktestSpec == BacktestInit /\ [][BacktestNext]_backtestVars

-----------------------------------------------------------------------------
(* Properties                                                              *)

\* The state is well-formed (the locals of the two replay loops).
BacktestTypeOK ==
    /\ pc \in {"window", "bar", "close", "report"}
    /\ plan \in Plans /\ market \in Frames[plan.mode]
    /\ results \in Seq([pnl : Int, days : SUBSET Nat])
    /\ frame \in Seq(PriceBar) /\ cursor \in Nat
    /\ broker \in [cash : Int, shares : Nat]
    /\ open \in OpenTrade \cup {Nothing} /\ pending \in Signal \cup {Nothing}
    /\ records \in Seq(ClosedTrade) /\ pnl \in Int
    /\ marks \in Seq(Int)

\* The equity curve that drawdown and returns are computed from, which is rebuilt
\* from the trade records after the replay, is at every bar what the broker's cash
\* and shares were worth at its close, bars of an exit excepted (they are marked at
\* the close though the shares went at the stop or the target); and the P&L added
\* up trade by trade is the change of the cash (_build_equity_curve, close_open_trade).
CurveIsEquity ==
    pc = "report" =>
        /\ pnl = broker.cash - StartCash /\ broker.shares = 0
        /\ \A i \in DOMAIN frame :
            (\A k \in DOMAIN records : records[k].to # i) => Equity(i) = marks[i]

\* No trade loses more than its share of the equity it was sized with and its
\* costs, though a signal is filled at another price than it was sized at, its size
\* may be overridden, and a daily trade may outlast the hold (_signal_at_next_open,
\* submit_signal_as_order, _bar_exit).
TradeRiskBounded ==
    \A k \in DOMAIN records :
        LET r == records[k]
        IN r.shares * (r.entry - r.exit - 2 * Slip) * RiskShare <= r.equity

\* The end date of one window is the start date of the next, and its bars are replayed
\* in both.  No other day is traded in two windows; that one neither, where daily bars
\* are replayed, which the warm-up keeps out of the later window, and where the daily
\* rows have dates, since there is none before it.  An offline evaluation of intraday
\* bars does trade it in its training and in its validation (run_walk_forward,
\* evaluate_offline, _daily_frame_before_bar).
NoDayTradedTwice ==
    \A k, l \in DOMAIN results :
        LET both == results[k].days \cap results[l].days
        IN k < l => /\ both \subseteq {Windows[k].to}
                    /\ Daily \/ Dated => both = {}
=============================================================================
