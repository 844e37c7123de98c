---------------------------- MODULE PaperTrading ----------------------------
(***************************************************************************)
(* Fills and the stores they must reach: run_paper_trade, which buys, and  *)
(* _run_manage_positions_once, which sells, over the orders table, the SQL *)
(* positions and the one-row portfolio_state.                              *)
(*                                                                         *)
(* Each run loads the portfolio once, trades against a broker of its own   *)
(* and writes the whole portfolio back, so every store write is a step of  *)
(* its own: it may fail, the process may die before it, and the two runs   *)
(* interleave: from 15:55 on the watchdog of auto-burn-in.sh manages the   *)
(* positions under a lock that paper-trade does not take.  A share costs   *)
(* one unit and there are no fees: cash is only followed from store to     *)
(* store.                                                                  *)
(***************************************************************************)
EXTENDS Naturals, FiniteSets, FiniteSetsExt

CONSTANTS
    Tickers,
    None,                \* no position, no order
    StartingCash,
    PartialMinQuantity,  \* partial_take_profit_min_qty
    MaxQuantity,         \* bound: shares per BUY
    MaxBought,           \* bound: shares bought per ticker
    MaxFailures,         \* bound: failing steps
    MaxCrashes           \* bound: process crashes

ASSUME PaperAssumption ==
    /\ {StartingCash, MaxQuantity, MaxBought, MaxFailures, MaxCrashes} \subseteq Nat
    /\ PartialMinQuantity \in Nat \ {0}
    /\ IsFiniteSet(Tickers)

VARIABLES
    bought, sold,  \* shares per ticker in the rows of the orders table
    db,            \* tickers whose SQL position is open
    saved,         \* portfolio_state
    run,           \* the memory of each run
    cooling,       \* tickers sold out less than a cooldown ago
    unseen,        \* unseen[r]: fills the other run saved after r had its portfolio
    overwritten,   \* tickers with a fill that a run saved over without having seen it
    interrupted,   \* tickers with a fill that a failure or a crash cut short
    failures, crashes

\* The history variables, which no step reads.
history == <<unseen, overwritten, interrupted>>
vars == <<bought, sold, db, saved, run, cooling, history, failures, crashes>>
stores == <<bought, sold, db, saved, cooling>>

Runs == {"paper-trade", "manage-positions"}
Shares == 0..MaxBought

\* basis: whose fill gave the average cost and the stop.
Position == [quantity : 1..MaxBought, basis : Tickers, partial : BOOLEAN]
Portfolio == [cash : Nat, positions : [Tickers -> Position \cup {None}], exited : SUBSET Tickers]
Broker == [cash : Nat, quantity : [Tickers -> Shares]]
Order == [ticker : Tickers, side : {"BUY", "SELL"}, quantity : 1..MaxBought, partial : BOOLEAN]
Run == [pc : {"idle", "next", "row", "sql", "tracker", "save", "protect"},
        todo : SUBSET Tickers, state : Portfolio, broker : Broker, order : Order \cup {None}]

ASSUME NoneAssumption == None \notin Position /\ None \notin Order

NoPositions == [t \in Tickers |-> None]
NewPortfolio == [cash |-> StartingCash, positions |-> NoPositions, exited |-> {}]
Quantity(portfolio, t) ==
    IF portfolio.positions[t] = None THEN 0 ELSE portfolio.positions[t].quantity
OpenIn(portfolio) == {t \in Tickers : portfolio.positions[t] # None}
\* Variant: the broker starts without the positions of the portfolio.
BrokerOfCash(portfolio) ==
    [cash |-> portfolio.cash, quantity |-> [t \in Tickers |-> 0]]

BrokerOf(portfolio) ==
    [cash |-> portfolio.cash, quantity |-> [t \in Tickers |-> Quantity(portfolio, t)]]
IdleRun == [pc |-> "idle", todo |-> {}, state |-> NewPortfolio,
            broker |-> BrokerOf(NewPortfolio), order |-> None]

TypeOK ==
    /\ bought \in [Tickers -> Shares]
    /\ sold \in [Tickers -> Nat]
    /\ db \subseteq Tickers
    /\ saved \in Portfolio
    /\ run \in [Runs -> Run]
    /\ cooling \subseteq Tickers
    /\ unseen \in [Runs -> SUBSET Tickers]
    /\ overwritten \subseteq Tickers /\ interrupted \subseteq Tickers
    /\ failures \in 0..MaxFailures
    /\ crashes \in 0..MaxCrashes

Init ==
    /\ bought = [t \in Tickers |-> 0]
    /\ sold = [t \in Tickers |-> 0]
    /\ db = {}
    /\ saved = NewPortfolio
    /\ run = [r \in Runs |-> IdleRun]
    /\ cooling = {}
    /\ unseen = [r \in Runs |-> {}] /\ overwritten = {} /\ interrupted = {}
    /\ failures = 0
    /\ crashes = 0

-----------------------------------------------------------------------------
At(r, step) == run[r].pc = step
Goto(r, step) == run' = [run EXCEPT ![r].pc = step]

\* The per-ticker except clause, or the end of a ticker: on to the next one.
NextTicker(r) == run' = [run EXCEPT ![r].pc = "next", ![r].order = None]

\* The whole portfolio of r is saved, with a fill that the other run has not seen.
Save(r, fills, portfolio) ==
    /\ saved' = portfolio
    /\ overwritten' = overwritten \cup unseen[r]
    /\ unseen' = [q \in Runs |-> IF q = r \/ At(q, "idle") THEN {} ELSE unseen[q] \cup fills]

\* Both load the portfolio and give the broker its cash and quantities.
Start(r, todo) ==
    /\ At(r, "idle")
    /\ run' = [run EXCEPT ![r] =
                  [pc |-> "next", todo |-> todo, state |-> saved,
                   broker |-> BrokerOf(saved), order |-> None]]
    /\ UNCHANGED <<stores, history, failures, crashes>>

\* PaperBroker.submit_order fills at once, in memory.
Filled(broker, order) ==
    IF order.side = "BUY"
    THEN [cash     |-> broker.cash - order.quantity,
          quantity |-> [broker.quantity EXCEPT ![order.ticker] = @ + order.quantity]]
    ELSE [cash     |-> broker.cash + order.quantity,
          quantity |-> [broker.quantity EXCEPT ![order.ticker] = @ - order.quantity]]

Submit(r, order) ==
    /\ run' = [run EXCEPT ![r].pc = "row", ![r].todo = @ \ {order.ticker},
                          ![r].order = order, ![r].broker = Filled(@, order)]
    /\ UNCHANGED <<stores, history, failures, crashes>>

\* No signal, no exit, a rejected order, a ticker that is open or cooling down.
Skip(r) ==
    /\ At(r, "next")
    /\ \E t \in run[r].todo : run' = [run EXCEPT ![r].todo = @ \ {t}]
    /\ UNCHANGED <<stores, history, failures, crashes>>

\* run_paper_trade: not open when the run began, no recent exit in the state at hand.
Buy(t) ==
    LET me == run["paper-trade"] IN
    /\ me.pc = "next"
    /\ t \in me.todo
    /\ me.state.positions[t] = None
    /\ t \notin me.state.exited
    /\ \E q \in 1..MaxQuantity :
          /\ q <= me.broker.cash
          /\ bought[t] + q <= MaxBought
          /\ Submit("paper-trade",
                    [ticker |-> t, side |-> "BUY", quantity |-> q, partial |-> FALSE])

\* fill_partial_take_profit_position with its default fraction of one half.
PartialQuantity(q) ==
    LET half == IF q \div 2 = 0 THEN 1 ELSE q \div 2
    IN IF half < q THEN half ELSE IF q = 1 THEN 1 ELSE q - 1

\* evaluate_exit_priority answers with a full exit, or a partial one at the target.
Sell(t) ==
    LET me == run["manage-positions"]
        held == Quantity(me.state, t)
    IN /\ me.pc = "next"
       /\ t \in me.todo
       /\ me.state.positions[t] # None
       /\ t \notin me.state.exited
       /\ \E partial \in BOOLEAN :
             LET q == IF partial THEN PartialQuantity(held) ELSE held IN
             /\ partial => ~me.state.positions[t].partial /\ held >= PartialMinQuantity
             /\ q <= me.broker.quantity[t]
             /\ Submit("manage-positions",
                       [ticker |-> t, side |-> "SELL", quantity |-> q, partial |-> partial])

-----------------------------------------------------------------------------
(* The fill transaction and the portfolio saved after it                   *)

\* ledger.record_fill
RecordFill(r) ==
    /\ At(r, "row")
    /\ LET o == run[r].order IN
       IF o.side = "BUY"
       THEN /\ bought' = [bought EXCEPT ![o.ticker] = @ + o.quantity]
            /\ UNCHANGED <<sold, cooling>>
       ELSE /\ sold' = [sold EXCEPT ![o.ticker] = @ + o.quantity]
            /\ cooling' = IF o.quantity < Quantity(run[r].state, o.ticker) THEN cooling
                          ELSE cooling \cup {o.ticker}
            /\ UNCHANGED bought
    /\ Goto(r, "sql")
    /\ UNCHANGED <<db, saved, history, failures, crashes>>

\* Variant: every SELL closes the SQL position.
PersistSqlCloses(r) ==
    /\ At(r, "sql")
    /\ LET o == run[r].order IN
       IF o.side = "BUY"
       THEN db' = db \cup {o.ticker} /\ Goto(r, "tracker")
       ELSE db' = db \ {o.ticker} /\ Goto(r, "save")
    /\ UNCHANGED <<bought, sold, saved, cooling, history, failures, crashes>>

\* sql_persist: a partial exit leaves the SQL position open.
PersistSql(r) ==
    /\ At(r, "sql")
    /\ LET o == run[r].order IN
       IF o.side = "BUY"
       THEN db' = db \cup {o.ticker} /\ Goto(r, "tracker")
       ELSE db' = (IF o.partial THEN db ELSE db \ {o.ticker}) /\ Goto(r, "save")
    /\ UNCHANGED <<bought, sold, saved, cooling, history, failures, crashes>>

\* strategy_tracker.record_entry, in a file of its own.
TrackEntry(r) ==
    /\ At(r, "tracker")
    /\ Goto(r, "save")
    /\ UNCHANGED <<stores, history, failures, crashes>>

\* _portfolio_state_from_broker: a ticker the portfolio did not know takes the price
\* of this fill; no exit time is carried over.
AfterBuy(previous, broker, t) ==
    [cash      |-> broker.cash,
     positions |-> [s \in Tickers |->
         IF broker.quantity[s] = 0 THEN None
         ELSE IF previous.positions[s] # None
         THEN [previous.positions[s] EXCEPT !.quantity = broker.quantity[s]]
         ELSE [quantity |-> broker.quantity[s], basis |-> t, partial |-> FALSE]],
     exited    |-> {}]

\* portfolio_state_after_sell, and the exit time of a full exit.
AfterSell(previous, broker, o) ==
    [cash      |-> broker.cash,
     positions |-> [s \in Tickers |->
         IF broker.quantity[s] = 0 \/ previous.positions[s] = None THEN None
         ELSE [previous.positions[s] EXCEPT !.quantity = broker.quantity[s]]],
     exited    |-> IF o.partial THEN {} ELSE previous.exited \cup {o.ticker}]

After(me) ==
    IF me.order.side = "BUY" THEN AfterBuy(me.state, me.broker, me.order.ticker)
    ELSE AfterSell(me.state, me.broker, me.order)

SaveFill(r) ==
    /\ At(r, "save")
    /\ LET after == After(run[r]) IN
       /\ Save(r, {run[r].order.ticker}, after)
       /\ run' = [run EXCEPT ![r].state = after,
                             ![r].pc = IF run[r].order.partial THEN "protect" ELSE "next",
                             ![r].order = IF run[r].order.partial THEN @ ELSE None]
    /\ UNCHANGED <<bought, sold, db, cooling, interrupted, failures, crashes>>

\* The rest of a partial exit is marked, with a stop at break-even, and saved again.
ProtectRemainder(r) ==
    /\ At(r, "protect")
    /\ LET t == run[r].order.ticker
           after == IF run[r].state.positions[t] = None THEN run[r].state
                    ELSE [run[r].state EXCEPT !.positions[t].partial = TRUE]
       IN /\ IF run[r].state.positions[t] = None THEN UNCHANGED <<saved, overwritten, unseen>>
             ELSE Save(r, {t}, after)
          /\ run' = [run EXCEPT ![r].state = after, ![r].pc = "next", ![r].order = None]
    /\ UNCHANGED <<bought, sold, db, cooling, interrupted, failures, crashes>>

Interrupt(r) ==
    interrupted' = interrupted \cup (IF run[r].order = None THEN {} ELSE {run[r].order.ticker})

\* A step raises: the state at hand stays, the broker keeps the fill.
StepFails(r) ==
    /\ \/ run[r].pc \in {"row", "tracker", "save", "protect"}
       \/ At(r, "sql") /\ run[r].order.side = "SELL"
    /\ failures < MaxFailures
    /\ failures' = failures + 1
    /\ Interrupt(r)
    /\ NextTicker(r)
    /\ UNCHANGED <<stores, unseen, overwritten, crashes>>

\* _persist_trade_to_db logs what it catches and returns.
SqlFailsSilently(r) ==
    /\ At(r, "sql")
    /\ run[r].order.side = "BUY"
    /\ failures < MaxFailures
    /\ failures' = failures + 1
    /\ Interrupt(r)
    /\ Goto(r, "tracker")
    /\ UNCHANGED <<stores, unseen, overwritten, crashes>>

-----------------------------------------------------------------------------
(* Starting and ending a run                                               *)

StartTrading == \E approved \in SUBSET Tickers : Start("paper-trade", approved)
StartManaging == Start("manage-positions", OpenIn(saved))

\* The manager saves its portfolio once more at the end, changed or not.
EndManaging ==
    /\ At("manage-positions", "next")
    /\ run["manage-positions"].todo = {}
    /\ Save("manage-positions", {}, run["manage-positions"].state)
    /\ run' = [run EXCEPT !["manage-positions"] = IdleRun]
    /\ UNCHANGED <<bought, sold, db, cooling, interrupted, failures, crashes>>

EndTrading ==
    /\ At("paper-trade", "next")
    /\ run["paper-trade"].todo = {}
    /\ run' = [run EXCEPT !["paper-trade"] = IdleRun]
    /\ unseen' = [unseen EXCEPT !["paper-trade"] = {}]
    /\ UNCHANGED <<stores, overwritten, interrupted, failures, crashes>>

Crash(r) ==
    /\ ~At(r, "idle")
    /\ crashes < MaxCrashes
    /\ crashes' = crashes + 1
    /\ run' = [run EXCEPT ![r] = IdleRun]
    /\ unseen' = [unseen EXCEPT ![r] = {}]
    /\ Interrupt(r)
    /\ UNCHANGED <<stores, overwritten, failures>>

\* The cooldown of t is over: the exit times any portfolio has are too old to count.
CoolDown(t) ==
    /\ t \in cooling
    /\ cooling' = cooling \ {t}
    /\ saved' = [saved EXCEPT !.exited = @ \ {t}]
    /\ run' = [r \in Runs |-> [run[r] EXCEPT !.state.exited = @ \ {t}]]
    /\ UNCHANGED <<bought, sold, db, history, failures, crashes>>

FillTransaction(r) ==
    RecordFill(r) \/ PersistSql(r) \/ TrackEntry(r) \/ SaveFill(r) \/ ProtectRemainder(r)

Next ==
    \/ StartTrading \/ EndTrading \/ StartManaging \/ EndManaging
    \/ \E r \in Runs :
          Skip(r) \/ FillTransaction(r) \/ StepFails(r) \/ SqlFailsSilently(r) \/ Crash(r)
    \/ \E t \in Tickers : Buy(t) \/ Sell(t) \/ CoolDown(t)

Spec == Init /\ [][Next]_vars
-----------------------------------------------------------------------------
(* Properties                                                              *)

AllIdle == \A r \in Runs : At(r, "idle")

\* What is held was paid from the cash of the portfolio.
PaidFromCash ==
    saved.cash + MapThenSumSet(LAMBDA t : Quantity(saved, t), Tickers) = StartingCash

\* The portfolio holds of t what the orders bought and did not sell, at its own price,
\* and its SQL position is open for it.
Agreed(t) ==
    /\ Quantity(saved, t) + sold[t] = bought[t]
    /\ saved.positions[t] # None => saved.positions[t].basis = t
    /\ t \in db <=> saved.positions[t] # None

(***************************************************************************)
(* The stores tell one story: whatever fails, crashes or overlaps, what is *)
(* held was paid from the cash of the portfolio; and between runs the      *)
(* portfolio, the orders and the SQL positions agree on every ticker,      *)
(* other than one with a fill that was cut short, or saved over by a run   *)
(* that had its portfolio from before it.                                  *)
(***************************************************************************)
StoresAgree ==
    /\ PaidFromCash
    /\ AllIdle => \A t \in Tickers \ (overwritten \cup interrupted) : Agreed(t)

(***************************************************************************)
(* A failing step or a crash costs the fill in flight and no other:        *)
(* between runs, the portfolio and the orders disagree on at most as many  *)
(* tickers as there were failures and crashes, however long they trade on, *)
(* not counting the fills that a run saved over.                           *)
(***************************************************************************)
CrashCostsOneTicker ==
    AllIdle =>
        Cardinality({t \in Tickers \ overwritten : Quantity(saved, t) + sold[t] # bought[t]})
            <= failures + crashes
=============================================================================
