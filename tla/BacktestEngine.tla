--------------------------- MODULE BacktestEngine ---------------------------
(***************************************************************************)
(* EngineDriver.run (src/event_engine/engine.py) with what it drives: the  *)
(* data handler's stream, the event queue, the mean-reversion strategies,  *)
(* the portfolio and the MARKET orders of the simulated exchange.  One     *)
(* thread runs it all; a signal handler may ask for a shutdown between any *)
(* two steps.  run() may be called again on the same driver.               *)
(*                                                                         *)
(* Whether a close is extreme for a strategy is a choice, prices are a few *)
(* levels, spread and impact are zero.  Money is exact: it is counted in   *)
(* parts of a price level, as small as the average costs so far need them. *)
(***************************************************************************)
EXTENDS Integers, FiniteSets, FiniteSetsExt

CONSTANTS
    Symbols, Strategies,
    Watches,        \* the symbols of each strategy
    Nothing,
    Markets,        \* what a bar may show: its close, and the shares it can fill
    InitialCash,
    Scale,          \* signal_scale_qty
    MaxNotional,    \* the tightest of max_position_value, weight and leverage limits
    Fee,            \* commission per fill
    BorrowRate,     \* borrow fee per share, price unit and instant
    Lookback,
    Last,           \* bound: the bars of each symbol, at instants 1, 2, ...
    MaxRuns,        \* bound: calls of run()
    MayShutDown

ASSUME EngineAssumption ==
    /\ {Scale, Lookback} \subseteq Nat \ {0}
    /\ {InitialCash, MaxNotional, Fee, BorrowRate, MaxRuns} \subseteq Nat
    /\ Markets \subseteq [close : Nat, volume : Nat]
    /\ Last \in [Symbols -> Nat]
    /\ Watches \in [Strategies -> SUBSET Symbols]
    /\ MayShutDown \in BOOLEAN
    /\ Lookback >= 2
    /\ IsFiniteSet(Symbols)
    /\ Nothing \notin Int

VARIABLES
    pc,        \* where run() is
    runs,
    next,      \* the data handler's cursor of each symbol
    queue,     \* queued entries: bars [at, symbol], and orders [at]
    consumed,  \* last_consumed_ns
    known,     \* order ids the queue has accepted
    stopping,  \* shutdown requested, the queue poisoned
    bar,       \* the market event at hand
    signals,   \* signals of that bar not yet handled
    window,    \* closes each symbol's window holds
    view,      \* what each strategy believes it holds
    book,      \* the portfolio's positions
    account,   \* its cash, realised totals, clock
    rejected   \* fills it refused

engineVars == <<pc, runs, next, queue, consumed, known, stopping, bar, signals, window,
                view, book, account, rejected>>
driver == <<pc, runs, next, queue, consumed, known, stopping, bar, signals>>
portfolio == <<book, account, rejected>>

Instants == UNION {1..Last[s] : s \in Symbols}
Sides == {"LONG", "SHORT"}
Bar == [at : Instants, symbol : Symbols, close : Nat, volume : Nat]
Entry == [kind : {"MARKET"}, at : Instants, symbol : Symbols] \cup [kind : {"ORDER"}, at : Instants]
OrderIds == {"X", "O"} \X Symbols \X Instants \X Nat
Signal == [strategy : Strategies, type : Sides \cup {"EXIT"}]
\* long and short are the average costs; mark is the last close, in price levels.
Holding == [qty : Int, long : Nat, short : Nat, realised : Int, mark : Nat]
Flat == [qty |-> 0, long |-> 0, short |-> 0, realised |-> 0, mark |-> 0]
\* parts: how many make a price level.
Account == [cash : Int, realised : Int, delta : Int, clock : Instants \cup {Nothing},
            fees : Nat, borrowed : Nat, parts : Nat \ {0}]
NewAccount == [cash |-> InitialCash, realised |-> 0, delta |-> 0, clock |-> Nothing,
               fees |-> 0, borrowed |-> 0, parts |-> 1]

EngineTypeOK ==
    /\ pc \in {"idle", "stream", "loop", "signals", "mark", "done", "raised"}
    /\ runs \in 0..MaxRuns
    /\ next \in [Symbols -> Nat \ {0}] /\ \A s \in Symbols : next[s] <= Last[s] + 1
    /\ queue \subseteq Entry
    /\ known \subseteq OrderIds
    /\ consumed \in Instants \cup {Nothing}
    /\ stopping \in BOOLEAN
    /\ bar \in Bar \cup {Nothing}
    /\ signals \subseteq Signal
    /\ window \in [Symbols -> 0..Lookback]
    /\ view \in [Strategies -> [Symbols -> Sides \cup {"FLAT"}]]
    /\ book \in [Symbols -> Holding]
    /\ account \in Account
    /\ rejected \in Nat

NoViews == [g \in Strategies |-> [s \in Symbols |-> "FLAT"]]

EngineInit ==
    /\ pc = "idle"
    /\ runs = 0
    /\ next = [s \in Symbols |-> 1]
    /\ queue = {}
    /\ consumed = Nothing
    /\ known = {}
    /\ stopping = FALSE
    /\ bar = Nothing
    /\ signals = {}
    /\ window = [s \in Symbols |-> 0]
    /\ view = NoViews
    /\ book = [s \in Symbols |-> Flat]
    \* fresh, or left by an earlier run over the same bars that did not trade
    /\ account \in {NewAccount} \cup
          {[NewAccount EXCEPT !.clock = i] : i \in {j \in Instants : \A o \in Instants : o <= j}}
    /\ rejected = 0
-----------------------------------------------------------------------------
(* Portfolio: what fills and time do to a position                         *)

Abs(n) == IF n < 0 THEN -n ELSE n
Average(cost, held, price, more) == (cost * held + price * more) \div (held + more)

\* _apply_long_add and _realise_short_close
ApplyLongAdd(p, q, price) ==
    LET closing == IF p.qty < 0 THEN Min({q, -p.qty}) ELSE 0
        opening == q - closing
        held == p.qty + closing
    IN [p EXCEPT
          !.qty = @ + q,
          !.realised = @ + (p.short - price) * closing,
          !.short = IF held < 0 THEN @ ELSE 0,
          !.long = IF opening > 0 THEN Average(p.long, held, price, opening) ELSE @]

\* Variant: a sale that opens a short forgets the shares it closed.
SellOpening(p, q, price) ==
    [p EXCEPT !.qty = @ - q,
              !.short = IF q > p.qty THEN price ELSE @,
              !.realised = @ + (price - p.long) * Min({q, Abs(p.qty)})]

\* _apply_sell and _realise_long_close
ApplySell(p, q, price) ==
    LET closing == IF p.qty > 0 THEN Min({q, p.qty}) ELSE 0
        opening == q - closing
        held == p.qty - closing
    IN [p EXCEPT
          !.qty = @ - q,
          !.realised = @ + (price - p.long) * closing,
          !.long = IF held > 0 THEN @ ELSE 0,
          !.short = IF opening > 0 THEN Average(p.short, -held, price, opening) ELSE @]

Filled(p, side, q, price) == IF side = "BUY" THEN ApplyLongAdd(p, q, price) ELSE ApplySell(p, q, price)
Outflow(side, q, price) == IF side = "BUY" THEN q * price ELSE -(q * price)

\* An average cost may fall between two parts: then each part is cut in as many.
Uneven(cost, held, price, more) == (cost * held + price * more) % (held + more) # 0
Cuts(p, side, q, price) ==
    IF \/ side = "BUY" /\ p.qty > 0 /\ Uneven(p.long, p.qty, price, q)
       \/ side = "SELL" /\ p.qty < 0 /\ Uneven(p.short, -p.qty, price, q)
    THEN Abs(p.qty) + q ELSE 1

HoldingIn(k, p) == [p EXCEPT !.long = k * @, !.short = k * @, !.realised = k * @]
HoldingsIn(k, holdings) == [s \in Symbols |-> HoldingIn(k, holdings[s])]
AccountIn(k, a) ==
    [a EXCEPT !.cash = k * @, !.realised = k * @, !.delta = k * @, !.fees = k * @,
              !.borrowed = k * @, !.parts = k * @]

\* on_fill's cash and totals.  delta is what the last fill left, of whichever symbol.
Totals(a, p, side, q, price, at) ==
    [a EXCEPT !.cash = @ - Outflow(side, q, price) - Fee * a.parts,
              !.realised = @ + p.realised - a.delta,
              !.delta = p.realised,
              !.clock = at, !.fees = @ + Fee * a.parts]

\* on_fill refuses a fill older than the portfolio's clock; the driver logs that.
OnFill(side, q) ==
    LET k == Cuts(book[bar.symbol], side, q, account.parts * bar.close)
        a == AccountIn(k, account)
        holdings == HoldingsIn(k, book)
        p == Filled(holdings[bar.symbol], side, q, a.parts * bar.close)
    IN IF account.clock # Nothing /\ bar.at < account.clock
       THEN rejected' = rejected + 1 /\ UNCHANGED <<book, account>>
       ELSE /\ book' = [holdings EXCEPT ![bar.symbol] = p]
            /\ account' = Totals(a, p, side, q, a.parts * bar.close, bar.at)
            /\ UNCHANGED rejected

\* on_signal's target.  An EXIT asks for the whole position of the symbol.
Target(signal) ==
    IF signal.type = "LONG" THEN Scale ELSE IF signal.type = "SHORT" THEN -Scale ELSE 0

Ordered(signal) == Target(signal) - book[bar.symbol].qty

\* The capital checks, which an EXIT skips, raise; the driver logs that.
Affordable(signal) ==
    \/ signal.type = "EXIT"
    \/ /\ Abs(Ordered(signal)) * bar.close <= MaxNotional
       /\ Abs(Ordered(signal)) * bar.close * account.parts <= account.cash

\* An order id names the kind, symbol, time and size: another strategy's order of
\* that size on the same bar has the same.
OrderId(signal) ==
    <<IF signal.type = "EXIT" THEN "X" ELSE "O", bar.symbol, bar.at, Abs(Ordered(signal))>>
-----------------------------------------------------------------------------
(* The driver                                                              *)

\* run(): _reset_state.  The portfolio is not reset.
Run ==
    /\ pc \in {"idle", "done", "raised"}
    /\ runs < MaxRuns
    /\ runs' = runs + 1
    /\ pc' = "stream"
    /\ next' = [s \in Symbols |-> 1]
    /\ queue' = {} /\ consumed' = Nothing /\ known' = {}
    /\ stopping' = FALSE
    /\ bar' = Nothing /\ signals' = {}
    /\ window' = [s \in Symbols |-> 0]
    /\ view' = NoViews
    /\ UNCHANGED portfolio

\* The handler yields its bars by time; put raises, and so does run, once poisoned.
Stream ==
    /\ pc = "stream"
    /\ \E s \in Symbols :
          /\ next[s] <= Last[s]
          /\ \A o \in Symbols : next[o] <= Last[o] => next[s] <= next[o]
          /\ IF stopping THEN pc' = "raised" /\ UNCHANGED <<next, queue>>
             ELSE /\ queue' = queue \cup {[kind |-> "MARKET", at |-> next[s], symbol |-> s]}
                  /\ next' = [next EXCEPT ![s] = @ + 1]
                  /\ UNCHANGED pc
    /\ UNCHANGED <<runs, consumed, known, stopping, bar, signals, window, view, portfolio>>

EndStream ==
    /\ pc = "stream"
    /\ \A s \in Symbols : next[s] > Last[s]
    /\ pc' = "loop"
    /\ UNCHANGED <<runs, next, queue, consumed, known, stopping, bar, signals, window, view, portfolio>>

\* An order entered after the bars of its instant.
First(e) ==
    \A o \in queue : e.at < o.at \/ (e.at = o.at /\ (e.kind = "MARKET" \/ o.kind = "ORDER"))

\* What a strategy may make of the close: nothing, a way out, a way in.
Opinions(view_) == IF view_ = "FLAT" THEN {"FLAT", "LONG", "SHORT"} ELSE {view_, "FLAT"}

\* A market event: the strategies change their view as they signal.
ConsumeBar(e, market) ==
    LET s == e.symbol
        full == window[s] + 1 >= Lookback
    IN /\ e.kind = "MARKET"
       /\ bar' = [at |-> e.at, symbol |-> s, close |-> market.close, volume |-> market.volume]
       /\ window' = [window EXCEPT ![s] = IF full THEN Lookback ELSE @ + 1]
       /\ \E opinion \in [Strategies -> Sides \cup {"FLAT"}] :
             /\ \A g \in Strategies :
                   IF full /\ s \in Watches[g] THEN opinion[g] \in Opinions(view[g][s]) ELSE opinion[g] = view[g][s]
             /\ view' = [g \in Strategies |-> [view[g] EXCEPT ![s] = opinion[g]]]
             /\ signals' = {[strategy |-> g, type |-> IF opinion[g] = "FLAT" THEN "EXIT" ELSE opinion[g]] :
                               g \in {h \in Strategies : opinion[h] # view[h][s]}}
       /\ pc' = "signals"

\* The loop takes the first entry; a late one would end it.  Orders are passed over.
Consume ==
    /\ pc = "loop"
    /\ ~stopping
    /\ \E e \in queue :
          /\ First(e)
          /\ queue' = queue \ {e}
          /\ IF consumed # Nothing /\ e.at < consumed
             THEN pc' = "done" /\ UNCHANGED <<consumed, bar, signals, window, view>>
             ELSE /\ consumed' = e.at
                  /\ \/ \E market \in Markets : ConsumeBar(e, market)
                     \/ e.kind = "ORDER" /\ UNCHANGED <<pc, bar, signals, window, view>>
    /\ UNCHANGED <<runs, next, known, stopping, portfolio>>

\* Variant: an order carries the time of the bar before.
QueuedEarly(at) == [kind |-> "ORDER", at |-> IF at = 1 THEN 1 ELSE at - 1]
Queued(at) == [kind |-> "ORDER", at |-> at]

\* _on_signal, and _on_order with _on_fill.  put is outside the try: an order id that is
\* known and a queue that is poisoned end the run with an exception.
HandleSignal(signal) ==
    LET n == Ordered(signal)
        side == IF n > 0 THEN "BUY" ELSE "SELL"
    IN /\ pc = "signals"
       /\ signal \in signals
       /\ IF n = 0 \/ ~Affordable(signal)
          THEN UNCHANGED <<pc, queue, known, portfolio>>
          ELSE IF stopping \/ OrderId(signal) \in known
          THEN pc' = "raised" /\ UNCHANGED <<queue, known, portfolio>>
          ELSE /\ known' = known \cup {OrderId(signal)}
               /\ queue' = queue \cup {Queued(bar.at)}
               /\ IF bar.volume = 0 THEN UNCHANGED portfolio
                  ELSE OnFill(side, Min({Abs(n), bar.volume}))
               /\ UNCHANGED pc
       /\ signals' = signals \ {signal}
       /\ UNCHANGED <<runs, next, consumed, stopping, bar, window, view>>

\* The portfolio's clock takes the time of any bar.
Clock(at) == at

\* The fee of a short: for the time since the portfolio's clock, at the close of the bar
\* if it is the bar's symbol and else at the last mark.
BorrowFee(p, close, elapsed) ==
    IF p.qty < 0 THEN BorrowRate * Abs(p.qty) * close * elapsed * account.parts ELSE 0

Total(amounts) == MapThenSumSet(LAMBDA s : amounts[s], Symbols)

\* mark_to_market, with the bar's symbol only.  A fill of this bar has set the clock, and
\* then no borrow fee is due.
Mark ==
    LET elapsed == IF account.clock # Nothing /\ bar.at > account.clock THEN bar.at - account.clock ELSE 0
        due == [s \in Symbols |->
                  BorrowFee(book[s], IF s = bar.symbol THEN bar.close ELSE book[s].mark, elapsed)]
    IN /\ pc = "signals" /\ signals = {}
       /\ pc' = "loop"
       /\ book' = [s \in Symbols |->
             [book[s] EXCEPT !.realised = @ - due[s],
                             !.mark = IF s = bar.symbol /\ book[s].qty # 0 THEN bar.close ELSE @]]
       /\ account' = [account EXCEPT !.realised = @ - Total(due), !.borrowed = @ + Total(due),
                                     !.clock = Clock(bar.at)]
       /\ bar' = Nothing
       /\ UNCHANGED <<runs, next, queue, consumed, known, stopping, signals, window, view, rejected>>

EndRun ==
    /\ pc = "loop"
    /\ stopping \/ queue = {}
    /\ pc' = "done"
    /\ UNCHANGED <<runs, next, queue, consumed, known, stopping, bar, signals, window, view, portfolio>>

\* SIGINT or SIGTERM: shutdown(), which also poisons the queue.
Shutdown ==
    /\ MayShutDown
    /\ ~stopping
    /\ stopping' = TRUE
    /\ UNCHANGED <<pc, runs, next, queue, consumed, known, bar, signals, window, view, portfolio>>

Step == Stream \/ EndStream \/ Consume \/ (\E g \in signals : HandleSignal(g)) \/ Mark \/ EndRun
EngineNext == Run \/ Step \/ Shutdown

EngineSpec == EngineInit /\ [][EngineNext]_engineVars /\ WF_engineVars(Step)
-----------------------------------------------------------------------------
AtCost(p) == p.qty * (IF p.qty > 0 THEN p.long ELSE p.short)
Nets(holdings) == [s \in Symbols |-> AtCost(holdings[s]) - holdings[s].realised]

(***************************************************************************)
(* Whatever is bought, sold, sold short or reversed, in however many fills:*)
(* the cash left and the open positions at cost are the initial cash and   *)
(* what was realised, but for commissions and for borrow fees, which lower *)
(* the realised P&L and never leave the cash.                              *)
(***************************************************************************)
ValueConserved ==
    account.cash + Total(Nets(book))
        = InitialCash * account.parts + account.borrowed - account.fees

(***************************************************************************)
(* run ends, by raising or with every bar streamed consumed, unless it is  *)
(* asked to shut down, though each bar may add orders to the queue that is *)
(* drained (EngineDriver.run: a time in the past breaks its loop).         *)
(***************************************************************************)
RunEnds ==
    pc = "stream" ~> (pc = "raised" \/ (pc = "done" /\ (stopping \/ queue = {})))
=============================================================================
