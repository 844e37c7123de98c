-------------------------- MODULE PaperTradingProofs --------------------------
(***************************************************************************)
(* Theorems about the fills and their stores while the two runs overlap as *)
(* they like: for every finite set of tickers, all quantities, and any     *)
(* number of failing steps and crashes.                                    *)
(***************************************************************************)
EXTENDS PaperTrading, SetSums

-----------------------------------------------------------------------------
(* Portfolios and brokers                                                  *)

SharesOf(portfolio) == [t \in Tickers |-> Quantity(portfolio, t)]

LEMMA SharesFacts ==
    ASSUME NEW p \in Portfolio
    PROVE  /\ SharesOf(p) \in [Tickers -> Shares]
           /\ \A t \in Tickers : p.positions[t] \in Position \cup {None}
           /\ \A t \in Tickers : SharesOf(p)[t] = Quantity(p, t)
           /\ \A t \in Tickers : (p.positions[t] = None <=> SharesOf(p)[t] = 0)
  <1>1. MaxBought \in Nat
    BY PaperAssumption
  <1>2. \A t \in Tickers : p.positions[t] \in Position \cup {None}
    BY DEF Portfolio
  <1>3. \A t \in Tickers : /\ Quantity(p, t) \in Shares
                           /\ p.positions[t] = None <=> Quantity(p, t) = 0
    BY <1>1, <1>2 DEF Quantity, Shares, Position
  <1> QED BY <1>2, <1>3 DEF SharesOf

LEMMA BrokerFacts ==
    ASSUME NEW p \in Portfolio
    PROVE  BrokerOf(p) \in Broker /\ BrokerOf(p).quantity = SharesOf(p)
  BY SharesFacts DEF BrokerOf, Broker, SharesOf, Portfolio

LEMMA NewFacts == NewPortfolio \in Portfolio /\ IdleRun \in Run
  <1>1. NewPortfolio \in Portfolio
    BY PaperAssumption DEF NewPortfolio, Portfolio, NoPositions
  <1> QED BY <1>1, BrokerFacts DEF IdleRun, Run

LEMMA AfterBuyFacts ==
    ASSUME NEW p \in Portfolio, NEW b \in Broker, NEW t \in Tickers
    PROVE  /\ AfterBuy(p, b, t) \in Portfolio /\ SharesOf(AfterBuy(p, b, t)) = b.quantity
           /\ \A s \in Tickers : AfterBuy(p, b, t).positions[s] # None =>
                AfterBuy(p, b, t).positions[s].basis =
                  IF p.positions[s] # None THEN p.positions[s].basis ELSE t
           /\ \A s \in Tickers : b.quantity[s] = Quantity(p, s) =>
                AfterBuy(p, b, t).positions[s] = p.positions[s]
  <1> DEFINE after == AfterBuy(p, b, t)
             at(s) == IF b.quantity[s] = 0 THEN None
                      ELSE IF p.positions[s] # None
                      THEN [p.positions[s] EXCEPT !.quantity = b.quantity[s]]
                      ELSE [quantity |-> b.quantity[s], basis |-> t, partial |-> FALSE]
  <1>0. /\ b.cash \in Nat /\ b.quantity \in [Tickers -> Shares] /\ MaxBought \in Nat
        /\ p.positions \in [Tickers -> Position \cup {None}]
    BY PaperAssumption DEF Broker, Portfolio
  <1>1. after = [cash |-> b.cash, positions |-> [s \in Tickers |-> at(s)], exited |-> {}]
    BY DEF AfterBuy
  <1>2. ASSUME NEW s \in Tickers
        PROVE  /\ at(s) \in Position \cup {None}
               /\ (IF at(s) = None THEN 0 ELSE at(s).quantity) = b.quantity[s]
               /\ at(s) # None =>
                    at(s).basis = IF p.positions[s] # None THEN p.positions[s].basis ELSE t
               /\ b.quantity[s] = Quantity(p, s) => at(s) = p.positions[s]
    <2>0. p.positions[s] = None <=> Quantity(p, s) = 0
      BY SharesFacts
    <2>1. CASE b.quantity[s] = 0
      BY <2>0, <2>1
    <2>2. CASE b.quantity[s] # 0 /\ p.positions[s] # None
      <3>1. b.quantity[s] \in 1..MaxBought /\ p.positions[s] \in Position
        BY <1>0, <2>2 DEF Shares
      <3>2. /\ at(s) \in Position /\ at(s).quantity = b.quantity[s]
            /\ at(s).basis = p.positions[s].basis
        BY <2>2, <3>1 DEF Position
      <3>3. b.quantity[s] = Quantity(p, s) => at(s) = p.positions[s]
        BY <2>2, <3>1 DEF Quantity, Position
      <3> QED BY <2>2, <3>2, <3>3, NoneAssumption
    <2>3. CASE b.quantity[s] # 0 /\ p.positions[s] = None
      <3>1. b.quantity[s] \in 1..MaxBought
        BY <1>0, <2>3 DEF Shares
      <3>2. at(s) \in Position /\ at(s).quantity = b.quantity[s] /\ at(s).basis = t
        BY <2>3, <3>1 DEF Position
      <3> QED BY <2>0, <2>3, <3>2, NoneAssumption
    <2> QED BY <2>1, <2>2, <2>3
  <1> HIDE DEF at
  <1>3. after \in Portfolio
    BY <1>0, <1>1, <1>2 DEF Portfolio
  <1>4. \A s \in Tickers : Quantity(after, s) = b.quantity[s]
    BY <1>1, <1>2 DEF Quantity
  <1>5. SharesOf(after) = b.quantity
    BY <1>0, <1>4 DEF SharesOf
  <1>6. \A s \in Tickers : after.positions[s] = at(s)
    BY <1>1
  <1> QED BY <1>2, <1>3, <1>5, <1>6

LEMMA AfterSellFacts ==
    ASSUME NEW p \in Portfolio, NEW b \in Broker, NEW o \in Order
    PROVE  /\ AfterSell(p, b, o) \in Portfolio
           /\ \A s \in Tickers : SharesOf(AfterSell(p, b, o))[s] =
                                 IF p.positions[s] = None THEN 0 ELSE b.quantity[s]
           /\ \A s \in Tickers : AfterSell(p, b, o).positions[s] # None =>
                /\ p.positions[s] # None
                /\ AfterSell(p, b, o).positions[s].basis = p.positions[s].basis
           /\ \A s \in Tickers : b.quantity[s] = Quantity(p, s) =>
                AfterSell(p, b, o).positions[s] = p.positions[s]
  <1> DEFINE after == AfterSell(p, b, o)
             at(s) == IF b.quantity[s] = 0 \/ p.positions[s] = None THEN None
                      ELSE [p.positions[s] EXCEPT !.quantity = b.quantity[s]]
             exits == IF o.partial THEN {} ELSE p.exited \cup {o.ticker}
  <1>0. /\ b.cash \in Nat /\ b.quantity \in [Tickers -> Shares] /\ MaxBought \in Nat
        /\ p.positions \in [Tickers -> Position \cup {None}]
    BY PaperAssumption DEF Broker, Portfolio
  <1>1. after = [cash |-> b.cash, positions |-> [s \in Tickers |-> at(s)], exited |-> exits]
    BY DEF AfterSell
  <1>2. ASSUME NEW s \in Tickers
        PROVE  /\ at(s) \in Position \cup {None}
               /\ (IF at(s) = None THEN 0 ELSE at(s).quantity) =
                    IF p.positions[s] = None THEN 0 ELSE b.quantity[s]
               /\ at(s) # None => p.positions[s] # None /\ at(s).basis = p.positions[s].basis
               /\ b.quantity[s] = Quantity(p, s) => at(s) = p.positions[s]
    <2>0. p.positions[s] = None <=> Quantity(p, s) = 0
      BY SharesFacts
    <2>1. CASE b.quantity[s] = 0 \/ p.positions[s] = None
      BY <2>0, <2>1
    <2>2. CASE ~(b.quantity[s] = 0 \/ p.positions[s] = None)
      <3>1. b.quantity[s] \in 1..MaxBought /\ p.positions[s] \in Position
        BY <1>0, <2>2 DEF Shares
      <3>2. /\ at(s) \in Position /\ at(s).quantity = b.quantity[s]
            /\ at(s).basis = p.positions[s].basis
        BY <2>2, <3>1 DEF Position
      <3>3. b.quantity[s] = Quantity(p, s) => at(s) = p.positions[s]
        BY <2>2, <3>1 DEF Quantity, Position
      <3> QED BY <2>2, <3>2, <3>3, NoneAssumption
    <2> QED BY <2>1, <2>2
  <1>3. exits \in SUBSET Tickers
    BY DEF Order, Portfolio
  <1> HIDE DEF at, exits
  <1>4. after \in Portfolio
    BY <1>0, <1>1, <1>2, <1>3 DEF Portfolio
  <1>5. \A s \in Tickers : Quantity(after, s) = IF p.positions[s] = None THEN 0 ELSE b.quantity[s]
    BY <1>1, <1>2 DEF Quantity
  <1> QED BY <1>1, <1>2, <1>4, <1>5 DEF SharesOf

-----------------------------------------------------------------------------
(* Types, and what a run may rely on                                       *)

Trader == "paper-trade"
Manager == "manage-positions"
FillSteps == {"row", "sql", "tracker", "save"}

\* The broker is ahead of the portfolio at hand by the fill under way.
Fits(m) ==
    LET o == m.order
        held == Quantity(m.state, o.ticker)
    IN /\ o.side = "BUY" =>
            ~o.partial /\ held = 0 /\ m.broker.quantity[o.ticker] = o.quantity
       /\ o.side = "SELL" =>
            /\ o.quantity <= held /\ m.broker.quantity[o.ticker] = held - o.quantity
            /\ ~o.partial => o.quantity = held
            /\ o.partial /\ PartialMinQuantity > 1 => o.quantity < held

\* Whatever failed before: what a run has not looked at yet is as its broker has it,
\* one run buys and the other sells, the shares that are bought may be recorded, and who
\* sells has no shares that the portfolio at hand does not know of.
SoundIn(r, m, rows) ==
    m.pc # "idle" =>
        /\ \A t \in m.todo : m.broker.quantity[t] = Quantity(m.state, t)
        /\ m.pc # "next" => m.order \in Order /\ (m.order.side = "BUY" <=> r = Trader)
        /\ m.pc \in FillSteps => Fits(m)
        /\ m.pc = "row" /\ m.order.side = "BUY" => rows[m.order.ticker] + m.order.quantity <= MaxBought
        /\ r = Manager =>
             \A t \in Tickers : m.state.positions[t] = None => m.broker.quantity[t] = 0

Sound == \A r \in Runs : SoundIn(r, run[r], bought)
Base == TypeOK /\ Sound

LEMMA RunNames == Trader \in Runs /\ Manager \in Runs /\ Trader # Manager /\ Runs = {Trader, Manager}
  BY DEF Runs, Trader, Manager

LEMMA BaseInit == Init => Base
  <1> SUFFICES ASSUME Init PROVE Base
    OBVIOUS
  <1>1. \A r \in Runs : run[r] = IdleRun /\ run[r].pc = "idle"
    BY DEF Init, IdleRun
  <1>2. 0 \in Shares /\ 0 \in 0..MaxFailures /\ 0 \in 0..MaxCrashes
    BY PaperAssumption, SharesFacts DEF Shares
  <1>3. TypeOK
    BY <1>2, NewFacts DEF Init, TypeOK
  <1> QED BY <1>1, <1>3 DEF Base, Sound, SoundIn

\* One run moves on; only the one that buys records shares that were bought.
LEMMA OneRun ==
    ASSUME Base, NEW r \in Runs, NEW m \in Run, run' = [run EXCEPT ![r] = m],
           bought' = bought \/ r = Trader, SoundIn(r, m, bought')
    PROVE  run' \in [Runs -> Run] /\ Sound'
  <1>1. run \in [Runs -> Run]
    BY DEF Base, TypeOK
  <1>2. run' \in [Runs -> Run] /\ run'[r] = m /\ \A q \in Runs \ {r} : run'[q] = run[q]
    BY <1>1
  <1>3. ASSUME NEW q \in Runs PROVE SoundIn(q, run'[q], bought')
    <2>1. CASE q = r
      BY <1>2, <2>1
    <2>2. CASE q # r
      <3>1. SoundIn(q, run[q], bought) /\ run'[q] = run[q]
        BY <1>2, <2>2 DEF Base, Sound
      <3> QED BY <2>2, <3>1 DEF SoundIn
    <2> QED BY <2>1, <2>2
  <1> QED BY <1>2, <1>3 DEF Sound

\* The run of r and what it holds.
LEMMA RunFacts ==
    ASSUME Base, NEW r \in Runs
    PROVE  /\ run[r] \in Run /\ run[r].state \in Portfolio /\ run[r].broker \in Broker
           /\ run[r].todo \subseteq Tickers
           /\ run[r].pc \notin {"idle", "next"} => run[r].order \in Order
           /\ run[r].pc # "idle" =>
                \A t \in run[r].todo : run[r].broker.quantity[t] = Quantity(run[r].state, t)
           /\ SoundIn(r, run[r], bought)
  <1>1. run[r] \in Run /\ SoundIn(r, run[r], bought)
    BY DEF Base, TypeOK, Sound
  <1>2. run[r].state \in Portfolio /\ run[r].broker \in Broker /\ run[r].todo \subseteq Tickers
    BY <1>1 DEF Run
  <1> QED BY <1>1, <1>2 DEF SoundIn

\* A run that ends, or dies.
LEMMA IdleFacts ==
    ASSUME Base, NEW r \in Runs, run' = [run EXCEPT ![r] = IdleRun], bought' = bought
    PROVE  /\ run' \in [Runs -> Run] /\ Sound'
           /\ run'[r].pc = "idle" /\ \A q \in Runs \ {r} : run'[q] = run[q]
  <1>1. IdleRun \in Run /\ IdleRun.pc = "idle" /\ SoundIn(r, IdleRun, bought')
    BY NewFacts DEF IdleRun, SoundIn
  <1>2. run' \in [Runs -> Run] /\ Sound'
    BY <1>1, OneRun
  <1> QED BY <1>1, <1>2 DEF Base, TypeOK

\* A run goes to its next step, or gives the order up.
LEMMA GotoFacts ==
    ASSUME Base, NEW r \in Runs, NEW step \in {"next", "sql", "tracker", "save"},
           run[r].pc \notin {"idle", "next"}, step # "next" => run[r].pc \in FillSteps,
           run' = [run EXCEPT ![r].pc = step] \/ (NextTicker(r) /\ step = "next"),
           bought' \in [Tickers -> Shares], bought' = bought \/ r = Trader
    PROVE  /\ run' \in [Runs -> Run] /\ Sound'
           /\ run'[r].pc = step /\ run'[r].state = run[r].state /\ run'[r].broker = run[r].broker
           /\ step # "next" => run'[r].order = run[r].order
           /\ \A q \in Runs \ {r} : run'[q] = run[q]
  <1>1. run \in [Runs -> Run] /\ run[r] \in Run /\ run[r].order \in Order
    BY RunFacts DEF Base, TypeOK
  <1>2. PICK m : m = run'[r]
    OBVIOUS
  <1>3. /\ m.pc = step /\ m.todo = run[r].todo /\ m.state = run[r].state /\ m.broker = run[r].broker
        /\ m.order \in {run[r].order, None} /\ (step # "next" => m.order = run[r].order)
        /\ m \in Run /\ run' = [run EXCEPT ![r] = m]
        /\ \A q \in Runs \ {r} : run'[q] = run[q]
    <2>1. CASE run' = [run EXCEPT ![r].pc = step]
      BY <1>1, <1>2, <2>1 DEF Run
    <2>2. CASE NextTicker(r) /\ step = "next"
      BY <1>1, <1>2, <2>2 DEF Run, NextTicker
    <2> QED BY <2>1, <2>2
  <1>4. SoundIn(r, m, bought')
    <2>1. step # "next" => Fits(m)
      BY <1>3, RunFacts DEF SoundIn, Fits
    <2> QED BY <1>1, <1>3, <2>1, RunFacts DEF SoundIn, FillSteps
  <1>5. run' \in [Runs -> Run] /\ Sound'
    BY <1>3, <1>4, OneRun
  <1> QED BY <1>2, <1>3, <1>5

LEMMA FilledFacts ==
    ASSUME NEW b \in Broker, NEW o \in Order,
           o.side = "BUY" => o.quantity <= b.cash /\ b.quantity[o.ticker] + o.quantity <= MaxBought,
           o.side = "SELL" => o.quantity <= b.quantity[o.ticker]
    PROVE  /\ Filled(b, o) \in Broker
           /\ \A t \in Tickers : Filled(b, o).quantity[t] =
                IF t # o.ticker THEN b.quantity[t]
                ELSE IF o.side = "BUY" THEN b.quantity[t] + o.quantity ELSE b.quantity[t] - o.quantity
  <1>1. /\ b.cash \in Nat /\ b.quantity \in [Tickers -> Shares] /\ MaxBought \in Nat
        /\ o.ticker \in Tickers /\ o.quantity \in 1..MaxBought /\ o.side \in {"BUY", "SELL"}
        /\ b.quantity[o.ticker] \in 0..MaxBought
    BY PaperAssumption DEF Broker, Order, Shares
  <1>2. CASE o.side = "BUY"
    <2>1. b.quantity[o.ticker] + o.quantity \in Shares /\ b.cash - o.quantity \in Nat
      BY <1>1, <1>2 DEF Shares
    <2>2. Filled(b, o) = [cash |-> b.cash - o.quantity,
                          quantity |-> [b.quantity EXCEPT ![o.ticker] = b.quantity[o.ticker] + o.quantity]]
      BY <1>1, <1>2 DEF Filled
    <2> QED BY <1>1, <1>2, <2>1, <2>2 DEF Broker
  <1>3. CASE o.side = "SELL"
    <2>1. b.quantity[o.ticker] - o.quantity \in Shares /\ b.cash + o.quantity \in Nat
      BY <1>1, <1>3 DEF Shares
    <2>2. Filled(b, o) = [cash |-> b.cash + o.quantity,
                          quantity |-> [b.quantity EXCEPT ![o.ticker] = b.quantity[o.ticker] - o.quantity]]
      BY <1>1, <1>3 DEF Filled
    <2> QED BY <1>1, <1>3, <2>1, <2>2 DEF Broker
  <1> QED BY <1>1, <1>2, <1>3

LEMMA HalfFacts ==
    ASSUME NEW q \in Nat \ {0}
    PROVE  /\ PartialQuantity(q) \in 1..q
           /\ q > 1 => PartialQuantity(q) < q
  BY DEF PartialQuantity

\* The two ways into a fill: what is ordered, and what the portfolio had.
Ordered(r, o) ==
    /\ o \in Order /\ Submit(r, o) /\ run[r].pc = "next"
    /\ o.ticker \in run[r].todo
    /\ o.side = "BUY" <=> r = Trader
    /\ o.side = "BUY" => /\ ~o.partial /\ run[r].state.positions[o.ticker] = None
                         /\ o.quantity <= run[r].broker.cash
                         /\ bought[o.ticker] + o.quantity <= MaxBought
    /\ o.side = "SELL" => /\ run[r].state.positions[o.ticker] # None
                          /\ o.quantity <= run[r].broker.quantity[o.ticker]
                          /\ ~o.partial => o.quantity = Quantity(run[r].state, o.ticker)
                          /\ o.partial /\ PartialMinQuantity > 1 =>
                               o.quantity < Quantity(run[r].state, o.ticker)

LEMMA SubmitFacts ==
    ASSUME Base, NEW r \in Runs, NEW o \in Order, Ordered(r, o)
    PROVE  /\ run' \in [Runs -> Run] /\ Sound'
           /\ run[r].pc = "next" /\ run'[r].pc = "row" /\ run'[r].state = run[r].state
           /\ run'[r].order = o /\ run'[r].broker = Filled(run[r].broker, o)
           /\ \A t \in Tickers \ {o.ticker} :
                Filled(run[r].broker, o).quantity[t] = run[r].broker.quantity[t]
           /\ o.side = "BUY" => o.quantity <= run[r].broker.cash
           /\ o.side = "SELL" => o.quantity <= run[r].broker.quantity[o.ticker]
           /\ \A q \in Runs \ {r} : run'[q] = run[q]
           /\ UNCHANGED <<stores, history, failures, crashes>>
  <1>1. /\ run \in [Runs -> Run] /\ run[r] \in Run /\ run[r].broker \in Broker
        /\ bought \in [Tickers -> Shares] /\ o.ticker \in Tickers /\ o.quantity \in 1..MaxBought
        /\ run[r].todo \subseteq Tickers /\ run[r].state \in Portfolio /\ MaxBought \in Nat
        /\ run[r].pc = "next" /\ o.side \in {"BUY", "SELL"} /\ bought[o.ticker] \in Nat
    BY RunFacts, PaperAssumption DEF Base, TypeOK, Order, Ordered, Shares
  <1>2. Submit(r, o) /\ UNCHANGED <<stores, history, failures, crashes>> /\ bought' = bought
    BY DEF Ordered, Submit, stores
  <1> DEFINE held == Quantity(run[r].state, o.ticker)
  <1>3. held \in Nat /\ run[r].broker.quantity[o.ticker] = held
    <2>1. SharesOf(run[r].state)[o.ticker] = held /\ SharesOf(run[r].state)[o.ticker] \in Nat
      BY <1>1, SharesFacts DEF Shares
    <2> QED BY <1>1, <2>1, RunFacts DEF Ordered
  <1>4. o.side = "BUY" => held = 0
    BY DEF Ordered, Quantity
  <1>5. /\ Filled(run[r].broker, o) \in Broker
        /\ \A t \in Tickers : Filled(run[r].broker, o).quantity[t] =
             IF t # o.ticker THEN run[r].broker.quantity[t]
             ELSE IF o.side = "BUY" THEN held + o.quantity ELSE held - o.quantity
    <2>1. o.side = "BUY" => run[r].broker.quantity[o.ticker] + o.quantity <= MaxBought
      BY <1>1, <1>3, <1>4
    <2> QED BY <1>1, <1>3, <2>1, FilledFacts DEF Ordered
  <1>6. PICK m : m = run'[r]
    OBVIOUS
  <1>7. /\ m.pc = "row" /\ m.todo = run[r].todo \ {o.ticker} /\ m.state = run[r].state
        /\ m.order = o /\ m.broker = Filled(run[r].broker, o)
        /\ run' = [run EXCEPT ![r] = m] /\ \A q \in Runs \ {r} : run'[q] = run[q]
    BY <1>1, <1>2, <1>6 DEF Submit, Run
  <1>8. m \in Run
    <2>1. run'[r] = [run[r] EXCEPT !.pc = "row", !.todo = @ \ {o.ticker}, !.order = o,
                                   !.broker = Filled(@, o)]
      BY <1>1, <1>2 DEF Submit
    <2> QED BY <1>1, <1>5, <1>6, <2>1 DEF Run
  <1>9. Fits(m)
    <2>1. o.side = "BUY" => ~o.partial /\ Filled(run[r].broker, o).quantity[o.ticker] = o.quantity
      BY <1>1, <1>4, <1>5 DEF Ordered
    <2>2. o.side = "SELL" =>
            /\ o.quantity <= held
            /\ Filled(run[r].broker, o).quantity[o.ticker] = held - o.quantity
            /\ ~o.partial => o.quantity = held
            /\ o.partial /\ PartialMinQuantity > 1 => o.quantity < held
      BY <1>1, <1>3, <1>5 DEF Ordered
    <2> QED BY <1>4, <1>7, <2>1, <2>2 DEF Fits
  <1>10. SoundIn(r, m, bought')
    <2>1. \A t \in m.todo : m.broker.quantity[t] = Quantity(m.state, t)
      BY <1>1, <1>5, <1>7, RunFacts
    <2>2. m.order.side = "BUY" <=> r = Trader
      BY <1>7 DEF Ordered
    <2>3. m.order.side = "BUY" => bought'[m.order.ticker] + m.order.quantity <= MaxBought
      BY <1>2, <1>7 DEF Ordered
    <2>4. r = Manager =>
            \A t \in Tickers : m.state.positions[t] = None => m.broker.quantity[t] = 0
      <3> SUFFICES ASSUME r = Manager, NEW t \in Tickers, run[r].state.positions[t] = None
                   PROVE  Filled(run[r].broker, o).quantity[t] = 0
        BY <1>7
      <3>1. run[r].broker.quantity[t] = 0
        BY <1>1, RunFacts DEF SoundIn
      <3>2. o.side = "SELL" /\ t # o.ticker
        BY <1>1, RunNames DEF Ordered
      <3> QED BY <1>5, <3>1, <3>2
    <2> QED BY <1>7, <1>9, <2>1, <2>2, <2>3, <2>4 DEF SoundIn
  <1>11. run' \in [Runs -> Run] /\ Sound'
    BY <1>2, <1>7, <1>8, <1>10, OneRun
  <1> QED BY <1>1, <1>2, <1>5, <1>6, <1>7, <1>11 DEF Ordered

LEMMA BuyFacts ==
    ASSUME Base, NEW t \in Tickers, Buy(t)
    PROVE  \E o \in Order : Ordered(Trader, o)
  <1> DEFINE r == Trader
  <1>1. /\ r \in Runs /\ run[r].pc = "next" /\ t \in run[r].todo
        /\ run[r].state.positions[t] = None
    BY DEF Buy, Runs, Trader
  <1>2. PICK q \in 1..MaxQuantity :
          /\ q <= run[r].broker.cash /\ bought[t] + q <= MaxBought
          /\ Submit(r, [ticker |-> t, side |-> "BUY", quantity |-> q, partial |-> FALSE])
    BY DEF Buy, Trader
  <1>3. bought[t] \in Nat /\ MaxBought \in Nat /\ MaxQuantity \in Nat
    BY PaperAssumption DEF Base, TypeOK, Shares
  <1>4. PICK o : o = [ticker |-> t, side |-> "BUY", quantity |-> q, partial |-> FALSE]
    OBVIOUS
  <1>5. o \in Order
    BY <1>2, <1>3, <1>4 DEF Order
  <1>6. Ordered(r, o)
    BY <1>1, <1>2, <1>3, <1>4, <1>5, RunNames DEF Ordered
  <1> QED BY <1>1, <1>5, <1>6

LEMMA SellFacts ==
    ASSUME Base, NEW t \in Tickers, Sell(t)
    PROVE  \E o \in Order : Ordered(Manager, o)
  <1> DEFINE r == Manager
             held == Quantity(run[r].state, t)
             q(partial) == IF partial THEN PartialQuantity(held) ELSE held
  <1>1. /\ r \in Runs /\ run[r].pc = "next" /\ t \in run[r].todo
        /\ run[r].state.positions[t] # None
    BY DEF Sell, Runs, Manager
  <1>2. PICK partial \in BOOLEAN :
          /\ partial => ~run[r].state.positions[t].partial /\ held >= PartialMinQuantity
          /\ q(partial) <= run[r].broker.quantity[t]
          /\ Submit(r, [ticker |-> t, side |-> "SELL", quantity |-> q(partial), partial |-> partial])
    BY DEF Sell, Manager
  <1>3. held \in 1..MaxBought /\ MaxBought \in Nat
    <2>1. run[r].state \in Portfolio
      BY <1>1, RunFacts
    <2>2. SharesOf(run[r].state)[t] = held /\ held # 0 /\ held \in Shares
      BY <1>1, <2>1, SharesFacts
    <2> QED BY <2>2, PaperAssumption DEF Shares
  <1>4. /\ q(partial) \in 1..MaxBought
        /\ ~partial => q(partial) = held
        /\ partial /\ PartialMinQuantity > 1 => q(partial) < held
    <2>1. held \in Nat \ {0} /\ PartialMinQuantity \in Nat
      BY <1>3, PaperAssumption
    <2>2. PartialQuantity(held) \in 1..held /\ (held > 1 => PartialQuantity(held) < held)
      BY <2>1, HalfFacts
    <2> HIDE DEF held
    <2>3. CASE partial
      BY <1>2, <1>3, <2>1, <2>2, <2>3
    <2>4. CASE ~partial
      BY <1>3, <2>4
    <2> QED BY <2>3, <2>4
  <1>5. PICK o : o = [ticker |-> t, side |-> "SELL", quantity |-> q(partial), partial |-> partial]
    OBVIOUS
  <1>6. /\ o.ticker = t /\ o.side = "SELL" /\ o.quantity = q(partial) /\ o.partial = partial
    BY <1>5
  <1> HIDE DEF q
  <1>7. o \in Order
    BY <1>4, <1>5 DEF Order
  <1>8. Ordered(r, o)
    BY <1>1, <1>2, <1>4, <1>5, <1>6, <1>7, RunNames DEF Ordered
  <1> QED BY <1>1, <1>7, <1>8

LEMMA SaveFacts ==
    ASSUME Base, NEW r \in Runs, SaveFill(r)
    PROVE  /\ run' \in [Runs -> Run] /\ Sound'
           /\ saved' = After(run[r]) /\ saved' \in Portfolio
           /\ run'[r].state = saved' /\ run'[r].broker = run[r].broker
           /\ run'[r].pc = IF run[r].order.partial THEN "protect" ELSE "next"
           /\ run[r].order.partial => run'[r].order = run[r].order
           /\ \A q \in Runs \ {r} : run'[q] = run[q]
           /\ SharesOf(saved') = run[r].broker.quantity /\ saved'.cash = run[r].broker.cash
           /\ \A s \in Tickers : run[r].broker.quantity[s] = Quantity(run[r].state, s) =>
                saved'.positions[s] = run[r].state.positions[s]
           /\ \A s \in Tickers : saved'.positions[s] # None =>
                saved'.positions[s].basis =
                  IF run[r].state.positions[s] # None THEN run[r].state.positions[s].basis
                  ELSE run[r].order.ticker
  <1> DEFINE o == run[r].order
             after == After(run[r])
  <1>1. /\ run \in [Runs -> Run] /\ run[r] \in Run /\ o \in Order /\ run[r].pc = "save"
        /\ run[r].state \in Portfolio /\ run[r].broker \in Broker /\ o.ticker \in Tickers
        /\ run[r].todo \subseteq Tickers
        /\ \A t \in run[r].todo : run[r].broker.quantity[t] = Quantity(run[r].state, t)
    BY RunFacts DEF Base, TypeOK, SaveFill, At, Order
  <1>a. /\ o.side = "BUY" <=> r = Trader
        /\ r = Manager => \A t \in Tickers :
             run[r].state.positions[t] = None => run[r].broker.quantity[t] = 0
    BY <1>1, RunFacts DEF SoundIn
  <1>2. /\ after \in Portfolio /\ SharesOf(after) = run[r].broker.quantity
        /\ after.cash = run[r].broker.cash
        /\ \A s \in Tickers : run[r].broker.quantity[s] = Quantity(run[r].state, s) =>
             after.positions[s] = run[r].state.positions[s]
        /\ \A s \in Tickers : after.positions[s] # None =>
             after.positions[s].basis =
               IF run[r].state.positions[s] # None THEN run[r].state.positions[s].basis
               ELSE o.ticker
    <2>1. CASE o.side = "BUY"
      <3>1. after = AfterBuy(run[r].state, run[r].broker, o.ticker)
        BY <2>1 DEF After
      <3> HIDE DEF after
      <3>2. after.cash = run[r].broker.cash
        BY <3>1 DEF AfterBuy
      <3> QED BY <1>1, <3>1, <3>2, AfterBuyFacts
    <2>2. CASE o.side # "BUY"
      <3>1. after = AfterSell(run[r].state, run[r].broker, o)
        BY <2>2 DEF After
      <3> HIDE DEF after
      <3>2. /\ after \in Portfolio
            /\ \A s \in Tickers : SharesOf(after)[s] =
                 IF run[r].state.positions[s] = None THEN 0 ELSE run[r].broker.quantity[s]
        BY <1>1, <3>1, AfterSellFacts
      <3>3. \A s \in Tickers : SharesOf(after)[s] = run[r].broker.quantity[s]
        BY <1>a, <2>2, <3>2, RunNames
      <3>4. SharesOf(after) = run[r].broker.quantity
        BY <1>1, <3>2, <3>3, SharesFacts DEF Broker
      <3>5. after.cash = run[r].broker.cash
        BY <3>1 DEF AfterSell
      <3> QED BY <1>1, <3>1, <3>2, <3>4, <3>5, AfterSellFacts
    <2> QED BY <2>1, <2>2
  <1> HIDE DEF after
  <1>3. PICK m : m = run'[r]
    OBVIOUS
  <1>4. /\ saved' = after /\ bought' = bought
        /\ m.state = after /\ m.broker = run[r].broker /\ m.todo = run[r].todo
        /\ m.pc = IF o.partial THEN "protect" ELSE "next"
        /\ m.order = IF o.partial THEN o ELSE None
        /\ run' = [run EXCEPT ![r] = m] /\ \A q \in Runs \ {r} : run'[q] = run[q]
    BY <1>1, <1>3 DEF SaveFill, Save, Run, after
  <1>5. m \in Run
    <2>1. m = [run[r] EXCEPT !.state = after, !.pc = IF o.partial THEN "protect" ELSE "next",
                             !.order = IF o.partial THEN o ELSE None]
      BY <1>1, <1>3 DEF SaveFill, after
    <2> HIDE DEF o
    <2> QED BY <1>1, <1>2, <2>1 DEF Run
  <1>6. \A t \in Tickers : /\ m.broker.quantity[t] = Quantity(m.state, t)
                           /\ m.state.positions[t] = None => m.broker.quantity[t] = 0
    BY <1>2, <1>4, SharesFacts
  <1>7. SoundIn(r, m, bought')
    BY <1>1, <1>a, <1>4, <1>6 DEF SoundIn, FillSteps
  <1>8. run' \in [Runs -> Run] /\ Sound'
    BY <1>1, <1>4, <1>5, <1>7, OneRun
  <1> QED BY <1>1, <1>2, <1>3, <1>4, <1>8 DEF after

LEMMA ProtectFacts ==
    ASSUME Base, NEW r \in Runs, ProtectRemainder(r)
    PROVE  /\ run' \in [Runs -> Run] /\ Sound'
           /\ run'[r].pc = "next" /\ run'[r].broker = run[r].broker
           /\ saved' \in Portfolio
           /\ \/ run'[r].state = run[r].state /\ UNCHANGED <<saved, overwritten, unseen>>
              \/ Save(r, {run[r].order.ticker}, run'[r].state)
           /\ run'[r].state \in Portfolio /\ SharesOf(run'[r].state) = SharesOf(run[r].state)
           /\ run'[r].state.cash = run[r].state.cash
           /\ \A t \in Tickers : run'[r].state.positions[t] # None =>
                /\ run[r].state.positions[t] # None
                /\ run'[r].state.positions[t].basis = run[r].state.positions[t].basis
           /\ \A t \in Tickers \ {run[r].order.ticker} :
                run'[r].state.positions[t] = run[r].state.positions[t]
           /\ \A q \in Runs \ {r} : run'[q] = run[q]
  <1> DEFINE t == run[r].order.ticker
             old == run[r].state
             after == IF old.positions[t] = None THEN old
                      ELSE [old EXCEPT !.positions[t].partial = TRUE]
  <1>1. /\ run \in [Runs -> Run] /\ run[r] \in Run /\ run[r].pc = "protect"
        /\ old \in Portfolio /\ saved \in Portfolio /\ t \in Tickers
        /\ run[r].todo \subseteq Tickers
        /\ \A u \in run[r].todo : run[r].broker.quantity[u] = Quantity(old, u)
    BY RunFacts DEF Base, TypeOK, ProtectRemainder, At, Order
  <1>2. /\ after \in Portfolio
        /\ \A u \in Tickers : after.positions[u] # None =>
             old.positions[u] # None /\ after.positions[u].basis = old.positions[u].basis
        /\ after.cash = old.cash
        /\ \A u \in Tickers \ {t} : after.positions[u] = old.positions[u]
        /\ \A u \in Tickers : Quantity(after, u) = Quantity(old, u)
    <2>1. CASE old.positions[t] = None
      BY <1>1, <2>1
    <2>2. CASE old.positions[t] # None
      <3>1. old.positions \in [Tickers -> Position \cup {None}] /\ old.positions[t] \in Position
        BY <1>1, <2>2 DEF Portfolio
      <3>2. PICK x : x = [old.positions[t] EXCEPT !.partial = TRUE]
        OBVIOUS
      <3>3. /\ x \in Position /\ x.basis = old.positions[t].basis
            /\ x.quantity = old.positions[t].quantity /\ x # None
        <4>1. x \in Position
          BY <3>1, <3>2 DEF Position
        <4>2. x.basis = old.positions[t].basis /\ x.quantity = old.positions[t].quantity
          BY <3>1, <3>2 DEF Position
        <4> QED BY <4>1, <4>2, NoneAssumption
      <3>4. after = [old EXCEPT !.positions = [old.positions EXCEPT ![t] = x]]
        BY <1>1, <2>2, <3>2 DEF Portfolio
      <3>5. /\ after.cash = old.cash /\ after.exited = old.exited
            /\ after.positions = [old.positions EXCEPT ![t] = x]
        BY <1>1, <3>4 DEF Portfolio
      <3>6. after \in Portfolio
        <4>1. PICK p : p = [old.positions EXCEPT ![t] = x]
          OBVIOUS
        <4>2. p \in [Tickers -> Position \cup {None}]
          BY <1>1, <3>1, <3>3, <4>1
        <4>3. after = [old EXCEPT !.positions = p]
          BY <3>4, <4>1
        <4> HIDE DEF after
        <4> QED BY <1>1, <4>2, <4>3 DEF Portfolio
      <3>7. \A u \in Tickers : after.positions[u] = IF u = t THEN x ELSE old.positions[u]
        <4> HIDE DEF after
        <4> QED BY <1>1, <3>1, <3>5
      <3> HIDE DEF after
      <3>8. \A u \in Tickers : Quantity(after, u) = Quantity(old, u)
        BY <2>2, <3>3, <3>7 DEF Quantity
      <3> QED BY <2>2, <3>3, <3>5, <3>6, <3>7, <3>8
    <2> QED BY <2>1, <2>2
  <1>3. PICK m : m = run'[r]
    OBVIOUS
  <1>4. /\ bought' = bought
        /\ IF old.positions[t] = None THEN UNCHANGED <<saved, overwritten, unseen>>
           ELSE Save(r, {t}, after)
        /\ run' = [run EXCEPT ![r].state = after, ![r].pc = "next", ![r].order = None]
    BY DEF ProtectRemainder
  <1>5. old.positions[t] = None => after = old
    OBVIOUS
  <1> HIDE DEF after
  <1>6. /\ m.state = after /\ m.broker = run[r].broker /\ m.todo = run[r].todo
        /\ m.pc = "next"
        /\ run' = [run EXCEPT ![r] = m] /\ \A q \in Runs \ {r} : run'[q] = run[q]
    BY <1>1, <1>3, <1>4 DEF Run
  <1>7. m \in Run
    <2>1. m = [run[r] EXCEPT !.state = after, !.pc = "next", !.order = None]
      BY <1>1, <1>3, <1>4
    <2> QED BY <1>1, <1>2, <2>1 DEF Run
  <1>8. SoundIn(r, m, bought')
    <2>1. r = Manager =>
            \A u \in Tickers : m.state.positions[u] = None => m.broker.quantity[u] = 0
      <3> SUFFICES ASSUME r = Manager, NEW u \in Tickers, after.positions[u] = None
                   PROVE  run[r].broker.quantity[u] = 0
        BY <1>6
      <3>1. old.positions[u] = None
        BY <1>1, <1>2, SharesFacts
      <3> QED BY <1>1, <3>1, RunFacts DEF SoundIn
    <2> QED BY <1>1, <1>2, <1>4, <1>6, <2>1 DEF SoundIn, FillSteps
  <1>9. run' \in [Runs -> Run] /\ Sound'
    BY <1>1, <1>4, <1>6, <1>7, <1>8, OneRun
  <1>10. SharesOf(after) = SharesOf(old)
    BY <1>2 DEF SharesOf
  <1>11. saved' \in Portfolio
    BY <1>1, <1>2, <1>4 DEF Save
  <1> QED BY <1>1, <1>2, <1>3, <1>4, <1>5, <1>6, <1>9, <1>10, <1>11

LEMMA StartFacts ==
    ASSUME Base, NEW r \in Runs, NEW todo \in SUBSET Tickers, Start(r, todo)
    PROVE  /\ run' \in [Runs -> Run] /\ Sound'
           /\ run[r].pc = "idle" /\ run'[r].pc = "next" /\ run'[r].state = saved
           /\ run'[r].broker = BrokerOf(saved) /\ BrokerOf(saved).quantity = SharesOf(saved)
           /\ \A q \in Runs \ {r} : run'[q] = run[q]
           /\ UNCHANGED <<stores, history, failures, crashes>>
  <1>1. /\ run \in [Runs -> Run] /\ saved \in Portfolio /\ run[r].pc = "idle"
        /\ BrokerOf(saved) \in Broker /\ BrokerOf(saved).quantity = SharesOf(saved)
    BY BrokerFacts DEF Base, TypeOK, Start, At
  <1>2. PICK m : m = [pc |-> "next", todo |-> todo, state |-> saved,
                      broker |-> BrokerOf(saved), order |-> None]
    OBVIOUS
  <1>3. run' = [run EXCEPT ![r] = m] /\ bought' = bought
    BY <1>2 DEF Start, stores
  <1>4. m \in Run /\ m.pc = "next" /\ m.state = saved /\ m.broker = BrokerOf(saved) /\ m.todo = todo
    BY <1>1, <1>2 DEF Run
  <1>5. run' \in [Runs -> Run] /\ run'[r] = m /\ \A q \in Runs \ {r} : run'[q] = run[q]
    BY <1>1, <1>3, <1>4
  <1>6. SoundIn(r, m, bought')
    <2>1. \A t \in Tickers : /\ m.broker.quantity[t] = Quantity(m.state, t)
                             /\ m.state.positions[t] = None => m.broker.quantity[t] = 0
      BY <1>1, <1>4, SharesFacts
    <2> QED BY <1>4, <2>1 DEF SoundIn, FillSteps
  <1>7. Sound'
    BY <1>3, <1>4, <1>6, OneRun
  <1>8. UNCHANGED <<stores, history, failures, crashes>>
    BY DEF Start
  <1> QED BY <1>1, <1>4, <1>5, <1>7, <1>8

\* The exit times that a cooldown makes void.
LEMMA CoolFacts ==
    ASSUME Base, NEW t \in Tickers, CoolDown(t)
    PROVE  /\ run' \in [Runs -> Run] /\ Sound' /\ saved' \in Portfolio
           /\ saved' = [saved EXCEPT !.exited = @ \ {t}] /\ saved'.positions = saved.positions
           /\ SharesOf(saved') = SharesOf(saved)
           /\ \A r \in Runs :
                /\ run'[r].pc = run[r].pc /\ run'[r].broker = run[r].broker
                /\ run'[r].order = run[r].order
                /\ run'[r].state = [run[r].state EXCEPT !.exited = @ \ {t}]
                /\ run'[r].state.positions = run[r].state.positions
  <1>1. run \in [Runs -> Run] /\ saved \in Portfolio
    BY DEF Base, TypeOK
  <1>2. ASSUME NEW p \in Portfolio
        PROVE  LET q == [p EXCEPT !.exited = @ \ {t}] IN
               q \in Portfolio /\ q.positions = p.positions /\ SharesOf(q) = SharesOf(p)
    BY DEF Portfolio, SharesOf, Quantity
  <1>3. saved' = [saved EXCEPT !.exited = @ \ {t}] /\ bought' = bought
        /\ run' = [r \in Runs |-> [run[r] EXCEPT !.state.exited = @ \ {t}]]
    BY DEF CoolDown
  <1>4. ASSUME NEW r \in Runs
        PROVE  /\ run'[r] \in Run
               /\ run'[r].pc = run[r].pc /\ run'[r].broker = run[r].broker
               /\ run'[r].order = run[r].order /\ run'[r].todo = run[r].todo
               /\ run'[r].state = [run[r].state EXCEPT !.exited = @ \ {t}]
               /\ run'[r].state.positions = run[r].state.positions
               /\ SoundIn(r, run'[r], bought')
    <2>1. run[r] \in Run /\ run[r].state \in Portfolio /\ SoundIn(r, run[r], bought)
      BY <1>1 DEF Base, Sound, Run
    <2>2. PICK p : p = [run[r].state EXCEPT !.exited = @ \ {t}]
      OBVIOUS
    <2>3. p \in Portfolio /\ p.positions = run[r].state.positions
      BY <1>2, <2>1, <2>2
    <2>4. run'[r] = [run[r] EXCEPT !.state = p]
      BY <1>3, <2>1, <2>2 DEF Run
    <2>5. /\ run'[r] \in Run /\ run'[r].state = p
          /\ run'[r].pc = run[r].pc /\ run'[r].broker = run[r].broker
          /\ run'[r].order = run[r].order /\ run'[r].todo = run[r].todo
      BY <2>1, <2>3, <2>4 DEF Run
    <2>6. \A u \in Tickers : Quantity(p, u) = Quantity(run[r].state, u)
      BY <2>3 DEF Quantity
    <2>7. SoundIn(r, run'[r], bought')
      <3>1. run[r].todo \subseteq Tickers
        BY <2>1 DEF Run
      <3>2. run'[r].pc \in FillSteps /\ run[r].order \in Order /\ Fits(run[r]) => Fits(run'[r])
        BY <2>5, <2>6 DEF Fits, Order
      <3> QED BY <1>3, <2>1, <2>3, <2>5, <2>6, <3>1, <3>2 DEF SoundIn, FillSteps
    <2> QED BY <2>2, <2>3, <2>5, <2>7
  <1>5. run' \in [Runs -> Run]
    BY <1>3, <1>4
  <1>6. Sound'
    BY <1>4 DEF Base, Sound
  <1> QED BY <1>1, <1>2, <1>3, <1>4, <1>5, <1>6

LEMMA SkipFacts ==
    ASSUME Base, NEW r \in Runs, Skip(r)
    PROVE  /\ run' \in [Runs -> Run] /\ Sound'
           /\ run[r].pc = "next" /\ run'[r].pc = "next" /\ run'[r].state = run[r].state
           /\ run'[r].broker = run[r].broker /\ \A q \in Runs \ {r} : run'[q] = run[q]
           /\ UNCHANGED <<stores, history, failures, crashes>>
  <1>1. PICK t \in run[r].todo : run' = [run EXCEPT ![r].todo = @ \ {t}]
    BY DEF Skip
  <1>2. run[r] \in Run /\ run[r].pc = "next" /\ run \in [Runs -> Run]
    BY RunFacts DEF Skip, At, Base, TypeOK
  <1>3. PICK m : m = [run[r] EXCEPT !.todo = @ \ {t}]
    OBVIOUS
  <1>4. run' = [run EXCEPT ![r] = m] /\ m \in Run /\ m.pc = "next" /\ m.todo \subseteq run[r].todo
        /\ m.state = run[r].state /\ m.broker = run[r].broker
    BY <1>1, <1>2, <1>3 DEF Run
  <1>5. SoundIn(r, m, bought')
    BY <1>2, <1>4, RunFacts DEF SoundIn, FillSteps
  <1>6. UNCHANGED <<stores, history, failures, crashes>> /\ bought' = bought
    BY DEF Skip, stores
  <1>7. run' \in [Runs -> Run] /\ Sound'
    BY <1>4, <1>5, <1>6, OneRun
  <1> QED BY <1>2, <1>4, <1>6, <1>7

\* The history of a run that saves, and of one that is interrupted.
LEMMA HistoryFacts ==
    ASSUME Base, NEW r \in Runs
    PROVE  /\ \A fills \in SUBSET Tickers : \A p : Save(r, fills, p) =>
                unseen' \in [Runs -> SUBSET Tickers] /\ overwritten' \subseteq Tickers
           /\ Interrupt(r) => interrupted' \subseteq Tickers
  <1>1. /\ unseen \in [Runs -> SUBSET Tickers] /\ overwritten \subseteq Tickers
        /\ interrupted \subseteq Tickers /\ run[r].order \in Order \cup {None}
    BY DEF Base, TypeOK, Run
  <1>2. run[r].order # None => run[r].order.ticker \in Tickers
    BY <1>1 DEF Order
  <1> QED BY <1>1, <1>2 DEF Save, Interrupt

LEMMA BaseStep == Base /\ [Next]_vars => Base'
  <1> SUFFICES ASSUME Base, [Next]_vars PROVE Base'
    OBVIOUS
  <1>0. /\ bought \in [Tickers -> Shares] /\ sold \in [Tickers -> Nat] /\ db \subseteq Tickers
        /\ saved \in Portfolio /\ run \in [Runs -> Run] /\ cooling \subseteq Tickers
        /\ unseen \in [Runs -> SUBSET Tickers] /\ overwritten \subseteq Tickers
        /\ interrupted \subseteq Tickers /\ Sound
        /\ failures \in 0..MaxFailures /\ crashes \in 0..MaxCrashes
        /\ MaxFailures \in Nat /\ MaxCrashes \in Nat /\ MaxBought \in Nat
    BY PaperAssumption DEF Base, TypeOK
  \* A step that touches a run and no store.
  <1>a. ASSUME run' \in [Runs -> Run], Sound', UNCHANGED stores,
               unseen' \in [Runs -> SUBSET Tickers], overwritten' = overwritten,
               interrupted' \subseteq Tickers,
               failures' \in 0..MaxFailures, crashes' \in 0..MaxCrashes
        PROVE  Base'
    BY <1>0, <1>a DEF stores, Base, TypeOK
  \* A step that saves the portfolio, or leaves it.
  <1>b. ASSUME NEW r \in Runs, run' \in [Runs -> Run], Sound', saved' \in Portfolio,
               UNCHANGED <<bought, sold, db, cooling, interrupted, failures, crashes>>,
               \/ UNCHANGED <<overwritten, unseen>>
               \/ \E fills \in SUBSET Tickers : \E p : Save(r, fills, p)
        PROVE  Base'
    <2>1. unseen' \in [Runs -> SUBSET Tickers] /\ overwritten' \subseteq Tickers
      BY <1>0, <1>b, HistoryFacts
    <2> QED BY <1>0, <1>b, <2>1 DEF Base, TypeOK
  <1>1. ASSUME NEW r \in Runs, NEW todo \in SUBSET Tickers, Start(r, todo) PROVE Base'
    BY <1>0, <1>1, <1>a, StartFacts DEF history
  <1>2. CASE EndTrading
    <2>1. /\ run' = [run EXCEPT ![Trader] = IdleRun] /\ bought' = bought
          /\ unseen' = [unseen EXCEPT ![Trader] = {}]
          /\ UNCHANGED <<stores, overwritten, interrupted, failures, crashes>>
      BY <1>2 DEF EndTrading, Trader, stores
    <2>2. run' \in [Runs -> Run] /\ Sound'
      BY <2>1, RunNames, IdleFacts
    <2> QED BY <1>0, <1>a, <2>1, <2>2
  <1>3. CASE EndManaging
    <2>1. /\ run' = [run EXCEPT ![Manager] = IdleRun] /\ bought' = bought
          /\ Save(Manager, {}, run[Manager].state) /\ saved' = run[Manager].state
          /\ UNCHANGED <<bought, sold, db, cooling, interrupted, failures, crashes>>
      BY <1>3 DEF EndManaging, Manager, Save
    <2>2. run' \in [Runs -> Run] /\ Sound'
      BY <2>1, RunNames, IdleFacts
    <2>3. saved' \in Portfolio
      BY <2>1, RunNames, RunFacts
    <2>4. \E fills \in SUBSET Tickers : \E p : Save(Manager, fills, p)
      BY <2>1
    <2> QED BY <1>b, <2>1, <2>2, <2>3, <2>4, RunNames
  <1>4. ASSUME NEW r \in Runs, Crash(r) PROVE Base'
    <2>1. /\ run' = [run EXCEPT ![r] = IdleRun] /\ bought' = bought
          /\ unseen' = [unseen EXCEPT ![r] = {}] /\ Interrupt(r)
          /\ UNCHANGED <<stores, overwritten, failures>>
          /\ crashes < MaxCrashes /\ crashes' = crashes + 1
      BY <1>4 DEF Crash, stores
    <2>2. run' \in [Runs -> Run] /\ Sound' /\ interrupted' \subseteq Tickers
      BY <2>1, IdleFacts, HistoryFacts
    <2> QED BY <1>0, <1>a, <2>1, <2>2
  <1>5. ASSUME NEW t \in Tickers, Buy(t) \/ Sell(t) PROVE Base'
    <2>1. PICK r \in Runs, o \in Order : Ordered(r, o)
      BY <1>5, BuyFacts, SellFacts, RunNames
    <2> QED BY <1>0, <1>a, <2>1, SubmitFacts DEF history
  <1>6. ASSUME NEW r \in Runs, Skip(r) PROVE Base'
    BY <1>0, <1>6, <1>a, SkipFacts DEF history
  <1>7. ASSUME NEW r \in Runs, RecordFill(r) PROVE Base'
    <2>1. run[r].pc = "row" /\ run' = [run EXCEPT ![r].pc = "sql"]
      BY <1>7 DEF RecordFill, At, Goto
    <2> DEFINE o == run[r].order
    <2>2. o \in Order /\ o.ticker \in Tickers /\ o.quantity \in 1..MaxBought
      BY <2>1, RunFacts DEF Order
    <2>3. /\ bought' \in [Tickers -> Shares] /\ sold' \in [Tickers -> Nat] /\ cooling' \subseteq Tickers
          /\ bought' = bought \/ r = Trader
      <3>1. CASE o.side = "BUY"
        <4>1. bought[o.ticker] + o.quantity \in Shares /\ r = Trader
          <5>1. bought[o.ticker] + o.quantity <= MaxBought /\ r = Trader
            BY <2>1, <3>1, RunFacts DEF SoundIn
          <5>2. bought[o.ticker] \in 0..MaxBought
            BY <1>0, <2>2 DEF Shares
          <5> QED BY <1>0, <2>2, <5>1, <5>2 DEF Shares
        <4>2. bought' = [bought EXCEPT ![o.ticker] = bought[o.ticker] + o.quantity]
              /\ UNCHANGED <<sold, cooling>>
          BY <1>7, <3>1 DEF RecordFill
        <4> QED BY <1>0, <4>1, <4>2
      <3>2. CASE o.side # "BUY"
        <4>1. /\ sold' = [sold EXCEPT ![o.ticker] = sold[o.ticker] + o.quantity]
              /\ cooling' \in {cooling, cooling \cup {o.ticker}} /\ bought' = bought
          BY <1>7, <3>2 DEF RecordFill
        <4> QED BY <1>0, <2>2, <4>1
      <3> QED BY <3>1, <3>2
    <2>4. run' \in [Runs -> Run] /\ Sound'
      BY <2>1, <2>3, GotoFacts DEF FillSteps
    <2>5. UNCHANGED <<db, saved, history, failures, crashes>>
      BY <1>7 DEF RecordFill
    <2> QED BY <1>0, <2>3, <2>4, <2>5 DEF Base, TypeOK, history
  <1>8. ASSUME NEW r \in Runs, PersistSql(r) \/ TrackEntry(r) \/ SqlFailsSilently(r) \/ StepFails(r)
        PROVE  Base'
    <2>1. /\ run[r].pc \notin {"idle", "next"}
          /\ UNCHANGED <<bought, sold, saved, cooling, unseen, overwritten, crashes>>
          /\ interrupted' = interrupted \/ Interrupt(r)
          /\ failures' \in 0..MaxFailures
      BY <1>0, <1>8 DEF PersistSql, TrackEntry, SqlFailsSilently, StepFails, At, stores, history
    <2>2. db' \subseteq Tickers
      <3>1. run[r].order.ticker \in Tickers
        BY <2>1, RunFacts DEF Order
      <3> QED BY <1>0, <1>8, <3>1 DEF PersistSql, TrackEntry, SqlFailsSilently, StepFails, stores
    <2>3. run' \in [Runs -> Run] /\ Sound'
      <3>1. CASE StepFails(r)
        BY <1>0, <2>1, <3>1, GotoFacts DEF StepFails
      <3>2. CASE ~StepFails(r)
        <4>1. /\ run[r].pc \in FillSteps
              /\ run' = [run EXCEPT ![r].pc = "tracker"] \/ run' = [run EXCEPT ![r].pc = "save"]
          BY <1>8, <3>2 DEF PersistSql, TrackEntry, SqlFailsSilently, Goto, At, FillSteps
        <4> QED BY <1>0, <2>1, <4>1, GotoFacts
      <3> QED BY <3>1, <3>2
    <2>4. interrupted' \subseteq Tickers
      BY <1>0, <2>1, HistoryFacts
    <2> QED BY <1>0, <2>1, <2>2, <2>3, <2>4 DEF Base, TypeOK
  <1>9. ASSUME NEW r \in Runs, SaveFill(r) \/ ProtectRemainder(r) PROVE Base'
    <2>1. run' \in [Runs -> Run] /\ Sound' /\ saved' \in Portfolio
      BY <1>9, SaveFacts, ProtectFacts
    <2>2. UNCHANGED <<bought, sold, db, cooling, interrupted, failures, crashes>>
      BY <1>9 DEF SaveFill, ProtectRemainder
    <2>3. run[r].order.ticker \in Tickers
      BY <1>9, RunFacts DEF SaveFill, ProtectRemainder, At, Order
    <2>4. \/ UNCHANGED <<overwritten, unseen>>
          \/ \E p : Save(r, {run[r].order.ticker}, p)
      BY <1>9 DEF SaveFill, ProtectRemainder
    <2> QED BY <1>b, <2>1, <2>2, <2>3, <2>4
  <1>10. ASSUME NEW t \in Tickers, CoolDown(t) PROVE Base'
    <2>1. run' \in [Runs -> Run] /\ Sound' /\ saved' \in Portfolio
      BY <1>10, CoolFacts
    <2>2. cooling' = cooling \ {t} /\ UNCHANGED <<bought, sold, db, history, failures, crashes>>
      BY <1>10 DEF CoolDown
    <2> QED BY <1>0, <2>1, <2>2 DEF Base, TypeOK, history
  <1>11. CASE UNCHANGED vars
    BY <1>0, <1>11 DEF vars, history, Base, TypeOK, Sound
  <1>12. CASE StartTrading \/ StartManaging
    <2>1. OpenIn(saved) \in SUBSET Tickers
      BY DEF OpenIn
    <2> QED BY <1>1, <1>12, <2>1, RunNames DEF StartTrading, StartManaging, Trader, Manager
  <1> QED
    BY <1>2, <1>3, <1>4, <1>5, <1>6, <1>7, <1>8, <1>9, <1>10, <1>11, <1>12
       DEF Next, FillTransaction

-----------------------------------------------------------------------------
(* One story in all stores, of the fills that nothing cut short            *)

\* r is about to record a fill of t, has recorded it, has closed or opened its position.
InFill(r, t) == run[r].pc \in FillSteps /\ run[r].order.ticker = t
Recorded(r, t) == InFill(r, t) /\ run[r].pc # "row"
InSql(r, t) == InFill(r, t) /\ run[r].pc \in {"tracker", "save"} /\ ~run[r].order.partial

\* What the orders are ahead of the portfolio by.
Due(r, t) == IF Recorded(r, t) THEN run[r].order.quantity ELSE 0

\* r has its portfolio from after every fill of t that was saved.
SeenBy(r, t) == run[r].pc # "idle" /\ t \notin unseen[r]

\* Who has seen every fill has the position as it is saved; the orders are ahead of it by the
\* fills under way, and the SQL positions by those that have got that far.
Tale(t) ==
    /\ \A r \in Runs : SeenBy(r, t) => run[r].state.positions[t] = saved.positions[t]
    /\ Quantity(saved, t) + sold[t] + Due(Trader, t) = bought[t] + Due(Manager, t)
    /\ saved.positions[t] # None => saved.positions[t].basis = t
    /\ PartialMinQuantity > 1 =>
         /\ ~InSql(Trader, t) /\ ~InSql(Manager, t) => (t \in db <=> saved.positions[t] # None)
         /\ SeenBy(Trader, t) /\ InSql(Trader, t) /\ ~InSql(Manager, t) => t \in db
         /\ SeenBy(Manager, t) /\ InSql(Manager, t) /\ ~InSql(Trader, t) => t \notin db

\* The broker of r has what the portfolio of r has, but for the fill under way.
LevelAt(r, t) ==
    run[r].pc # "idle" /\ ~InFill(r, t) => run[r].broker.quantity[t] = Quantity(run[r].state, t)

Level == \A r \in Runs : \A t \in Tickers \ interrupted : LevelAt(r, t)
Story == \A t \in Tickers \ (overwritten \cup interrupted) : Tale(t)

LEMMA StoryInit == Init => Level /\ Story
  <1> SUFFICES ASSUME Init PROVE Level /\ Story
    OBVIOUS
  <1>1. /\ saved = NewPortfolio /\ NewPortfolio \in Portfolio /\ db = {}
        /\ \A t \in Tickers : NewPortfolio.positions[t] = None /\ bought[t] = 0 /\ sold[t] = 0
        /\ \A r \in Runs : run[r].pc = "idle"
    BY NewFacts DEF Init, NewPortfolio, NoPositions, IdleRun
  <1>2. \A r \in Runs : \A t : ~InFill(r, t) /\ ~Recorded(r, t) /\ ~InSql(r, t) /\ Due(r, t) = 0 /\ ~SeenBy(r, t)
    BY <1>1 DEF InFill, Recorded, InSql, Due, SeenBy, FillSteps
  <1>3. Level
    BY <1>1 DEF Level, LevelAt
  <1>4. ASSUME NEW t \in Tickers PROVE Tale(t)
    BY <1>1, <1>2, RunNames DEF Tale, Quantity
  <1> QED BY <1>3, <1>4 DEF Story

\* Nothing that the story of t is about has moved.
LEMMA Stay ==
    ASSUME NEW t \in Tickers, Tale(t),
           Quantity(saved', t) = Quantity(saved, t),
           saved'.positions[t] = None <=> saved.positions[t] = None,
           saved'.positions[t] # None => saved'.positions[t].basis = saved.positions[t].basis,
           bought'[t] = bought[t], sold'[t] = sold[t], t \in db' <=> t \in db,
           \A r \in Runs : /\ Due(r, t)' = Due(r, t) /\ InSql(r, t)' = InSql(r, t)
                           /\ SeenBy(r, t)' => run'[r].state.positions[t] = saved'.positions[t]
                           /\ SeenBy(r, t)' /\ InSql(r, t) => SeenBy(r, t)
    PROVE  Tale(t)'
  BY RunNames DEF Tale

\* One run has moved, and no store.
LEMMA StayRun ==
    ASSUME NEW t \in Tickers, NEW r \in Runs, Tale(t), UNCHANGED <<bought, sold, db, saved>>,
           \A q \in Runs \ {r} : run'[q] = run[q] /\ unseen'[q] = unseen[q],
           Due(r, t)' = Due(r, t), InSql(r, t)' = InSql(r, t),
           SeenBy(r, t)' => run'[r].state.positions[t] = saved.positions[t],
           SeenBy(r, t)' /\ InSql(r, t) => SeenBy(r, t)
    PROVE  Tale(t)'
  <1>1. ASSUME NEW q \in Runs \ {r}
        PROVE  /\ Due(q, t)' = Due(q, t) /\ InSql(q, t)' = InSql(q, t)
               /\ SeenBy(q, t)' = SeenBy(q, t) /\ run'[q] = run[q]
    BY DEF Due, InSql, SeenBy, Recorded, InFill
  <1>2. ASSUME NEW q \in Runs
        PROVE  /\ Due(q, t)' = Due(q, t) /\ InSql(q, t)' = InSql(q, t)
               /\ SeenBy(q, t)' => run'[q].state.positions[t] = saved'.positions[t]
               /\ SeenBy(q, t)' /\ InSql(q, t) => SeenBy(q, t)
    BY <1>1 DEF Tale
  <1> QED BY <1>2, Stay

\* Not with a recorded fill of t, neither before nor after.
LEMMA StayAway ==
    ASSUME NEW t, NEW r \in Runs, ~Recorded(r, t), ~Recorded(r, t)'
    PROVE  Due(r, t)' = Due(r, t) /\ InSql(r, t)' = InSql(r, t) /\ ~InSql(r, t)
  BY DEF Due, InSql, Recorded, InFill

LEMMA TaleAway ==
    ASSUME NEW t \in Tickers, NEW r \in Runs, Tale(t), UNCHANGED <<bought, sold, db, saved>>,
           \A q \in Runs \ {r} : run'[q] = run[q] /\ unseen'[q] = unseen[q],
           ~Recorded(r, t), ~Recorded(r, t)',
           SeenBy(r, t)' => run'[r].state.positions[t] = saved.positions[t]
    PROVE  Tale(t)'
  BY StayAway, StayRun

\* A run that goes on with the portfolio it has.
LEMMA SeenStill ==
    ASSUME NEW t \in Tickers, NEW r \in Runs, Tale(t), unseen' = unseen,
           run[r].pc # "idle", run'[r].state = run[r].state
    PROVE  SeenBy(r, t)' => SeenBy(r, t) /\ run'[r].state.positions[t] = saved.positions[t]
  BY DEF Tale, SeenBy

LEMMA TaleStart ==
    ASSUME Base, NEW t \in Tickers, NEW r \in Runs, Tale(t), NEW todo \in SUBSET Tickers,
           Start(r, todo)
    PROVE  Tale(t)'
  <1>1. /\ run[r].pc = "idle" /\ run'[r].pc = "next" /\ run'[r].state = saved
        /\ \A q \in Runs \ {r} : run'[q] = run[q]
        /\ UNCHANGED <<stores, history>>
    BY StartFacts
  <1>2. ~Recorded(r, t) /\ ~Recorded(r, t)'
    BY <1>1 DEF Recorded, InFill, FillSteps
  <1> QED BY <1>1, <1>2, TaleAway DEF stores, history

\* Between two tickers, or on the way to the orders table.
LEMMA TaleNext ==
    ASSUME Base, NEW t \in Tickers, NEW r \in Runs, Tale(t),
           Skip(r) \/ \E o \in Order : Ordered(r, o)
    PROVE  Tale(t)'
  <1>1. /\ run[r].pc = "next" /\ run'[r].pc \in {"next", "row"} /\ run'[r].state = run[r].state
        /\ \A q \in Runs \ {r} : run'[q] = run[q]
        /\ UNCHANGED <<stores, history>>
    BY SkipFacts, SubmitFacts
  <1>2. ~Recorded(r, t) /\ ~Recorded(r, t)'
    BY <1>1 DEF Recorded, InFill, FillSteps
  <1>3. unseen' = unseen /\ UNCHANGED <<bought, sold, db, saved>>
    BY <1>1 DEF stores, history
  <1>4. SeenBy(r, t)' => run'[r].state.positions[t] = saved.positions[t]
    BY <1>1, <1>3, SeenStill
  <1> QED BY <1>1, <1>2, <1>3, <1>4, TaleAway

\* A run that is over.
LEMMA TaleOver ==
    ASSUME Base, NEW t \in Tickers \ interrupted', NEW r \in Runs, Tale(t),
           run' = [run EXCEPT ![r] = IdleRun], unseen' = [unseen EXCEPT ![r] = {}],
           UNCHANGED <<bought, sold, db, saved>>, run[r].pc \in {"idle", "next"} \/ Interrupt(r)
    PROVE  Tale(t)'
  <1>1. /\ run'[r].pc = "idle" /\ \A q \in Runs \ {r} : run'[q] = run[q] /\ unseen'[q] = unseen[q]
    BY IdleFacts DEF Base, TypeOK
  <1>2. ~Recorded(r, t)
    <2>1. CASE run[r].pc \in {"idle", "next"}
      BY <2>1 DEF Recorded, InFill, FillSteps
    <2>2. CASE run[r].pc \notin {"idle", "next"} /\ Interrupt(r)
      <3>1. run[r].order # None
        BY <2>2, RunFacts, NoneAssumption
      <3> QED BY <2>2, <3>1 DEF Recorded, InFill, Interrupt
    <2> QED BY <2>1, <2>2
  <1>3. ~Recorded(r, t)' /\ ~SeenBy(r, t)'
    BY <1>1 DEF Recorded, InFill, SeenBy, FillSteps
  <1> QED BY <1>1, <1>2, <1>3, TaleAway

LEMMA TaleFails ==
    ASSUME Base, NEW t \in Tickers \ interrupted', NEW r \in Runs, Tale(t),
           StepFails(r) \/ SqlFailsSilently(r)
    PROVE  Tale(t)'
  <1>1. /\ run[r].pc \notin {"idle", "next"} /\ Interrupt(r)
        /\ UNCHANGED <<bought, sold, db, saved, unseen>>
    BY DEF StepFails, SqlFailsSilently, At, stores
  <1>2. PICK step \in {"next", "tracker"} :
          /\ run' = [run EXCEPT ![r].pc = step] \/ (NextTicker(r) /\ step = "next")
          /\ step # "next" => run[r].pc \in FillSteps
    BY DEF StepFails, SqlFailsSilently, Goto, At, FillSteps
  <1>3. /\ run'[r].pc = step /\ run'[r].state = run[r].state
        /\ step # "next" => run'[r].order = run[r].order
        /\ \A q \in Runs \ {r} : run'[q] = run[q]
    BY <1>1, <1>2, GotoFacts DEF Base, TypeOK
  <1>4. run[r].order # None /\ run[r].order.ticker # t
    BY <1>1, RunFacts, NoneAssumption DEF Interrupt
  <1>5. ~Recorded(r, t) /\ ~Recorded(r, t)'
    BY <1>3, <1>4 DEF Recorded, InFill, FillSteps
  <1>6. SeenBy(r, t)' => run'[r].state.positions[t] = saved.positions[t]
    BY <1>1, <1>3, SeenStill
  <1> QED BY <1>1, <1>3, <1>5, <1>6, TaleAway

\* What is known of a fill under way.
LEMMA FillFacts ==
    ASSUME Base, NEW r \in Runs, run[r].pc \in FillSteps
    PROVE  LET o == run[r].order
               held == Quantity(run[r].state, o.ticker)
           IN /\ o \in Order /\ o.ticker \in Tickers /\ o.quantity \in 1..MaxBought /\ o.quantity \in Nat \ {0}
              /\ held \in Nat /\ (run[r].state.positions[o.ticker] = None <=> held = 0)
              /\ r = Trader => /\ o.side = "BUY" /\ ~o.partial /\ held = 0
                               /\ run[r].broker.quantity[o.ticker] = o.quantity
              /\ r = Manager => /\ o.side = "SELL" /\ o.quantity <= held
                                /\ run[r].broker.quantity[o.ticker] = held - o.quantity
                                /\ ~o.partial => o.quantity = held
                                /\ o.partial /\ PartialMinQuantity > 1 => o.quantity < held
  <1> DEFINE o == run[r].order
             held == Quantity(run[r].state, o.ticker)
  <1>1. /\ o \in Order /\ (o.side = "BUY" <=> r = Trader) /\ Fits(run[r]) /\ run[r].state \in Portfolio
    BY RunFacts DEF SoundIn, FillSteps
  <1>2. /\ o.ticker \in Tickers /\ o.quantity \in 1..MaxBought /\ o.quantity \in Nat \ {0}
        /\ o.side \in {"BUY", "SELL"}
    BY <1>1, PaperAssumption DEF Order
  <1>3. /\ held \in Nat /\ (run[r].state.positions[o.ticker] = None <=> held = 0)
    <2>1. SharesOf(run[r].state)[o.ticker] = held /\ SharesOf(run[r].state)[o.ticker] \in Nat
      BY <1>1, <1>2, SharesFacts DEF Shares
    <2> QED BY <1>1, <1>2, <2>1, SharesFacts
  <1> QED BY <1>1, <1>2, <1>3, RunNames DEF Fits

LEMMA DueIsNat ==
    ASSUME Base, NEW r \in Runs, NEW t
    PROVE  Due(r, t) \in Nat
  BY FillFacts DEF Due, Recorded, InFill

LEMMA TaleRow ==
    ASSUME Base, NEW t \in Tickers, NEW r \in Runs, Tale(t), RecordFill(r)
    PROVE  Tale(t)'
  <1> DEFINE o == run[r].order
  <1>1. /\ run[r].pc = "row" /\ run' = [run EXCEPT ![r].pc = "sql"]
        /\ UNCHANGED <<saved, db, history>>
        /\ IF o.side = "BUY"
           THEN bought' = [bought EXCEPT ![o.ticker] = @ + o.quantity] /\ sold' = sold
           ELSE sold' = [sold EXCEPT ![o.ticker] = @ + o.quantity] /\ bought' = bought
    BY DEF RecordFill, At, Goto
  <1>2. /\ run \in [Runs -> Run] /\ run[r] \in Run
        /\ bought \in [Tickers -> Shares] /\ sold \in [Tickers -> Nat]
        /\ bought[t] \in Nat /\ sold[t] \in Nat
        /\ saved \in Portfolio /\ MaxBought \in Nat
    BY RunFacts, PaperAssumption DEF Base, TypeOK, Shares
  <1>3. /\ run'[r].pc = "sql" /\ run'[r].state = run[r].state /\ run'[r].order = o
        /\ \A q \in Runs \ {r} : run'[q] = run[q]
    BY <1>1, <1>2 DEF Run
  <1>4. /\ o \in Order /\ o.ticker \in Tickers /\ o.quantity \in Nat /\ (o.side = "BUY" <=> r = Trader)
    BY <1>1, FillFacts, RunNames DEF FillSteps
  <1>5. \A q \in Runs : /\ InSql(q, t)' = InSql(q, t)
                        /\ SeenBy(q, t)' => run'[q].state.positions[t] = saved'.positions[t]
                        /\ SeenBy(q, t)' => SeenBy(q, t)
    <2> SUFFICES ASSUME NEW q \in Runs
                 PROVE  /\ InSql(q, t)' = InSql(q, t)
                        /\ SeenBy(q, t)' => run'[q].state.positions[t] = saved'.positions[t]
                        /\ SeenBy(q, t)' => SeenBy(q, t)
      OBVIOUS
    <2>1. SeenBy(q, t)' => SeenBy(q, t) /\ run'[q].state.positions[t] = saved'.positions[t]
      BY <1>1, <1>3 DEF SeenBy, Tale, history
    <2>2. InSql(q, t)' = InSql(q, t)
      BY <1>1, <1>3 DEF InSql, InFill
    <2> QED BY <2>1, <2>2
  <1>6. \A q \in Runs \ {r} : Due(q, t)' = Due(q, t)
    BY <1>3 DEF Due, Recorded, InFill
  <1>7. CASE t # o.ticker
    <2>1. bought'[t] = bought[t] /\ sold'[t] = sold[t]
      BY <1>1, <1>2, <1>4, <1>7
    <2>2. Due(r, t)' = Due(r, t)
      BY <1>3, <1>7 DEF Due, Recorded, InFill
    <2> QED BY <1>1, <1>5, <1>6, <2>1, <2>2, Stay
  <1>8. CASE t = o.ticker
    <2>1. Due(r, t) = 0 /\ Due(r, t)' = o.quantity
      BY <1>1, <1>3, <1>8 DEF Due, Recorded, InFill, FillSteps
    <2>2. Quantity(saved, t) \in Nat /\ Due(Trader, t) \in Nat /\ Due(Manager, t) \in Nat
      BY <1>2, DueIsNat, SharesFacts, RunNames DEF Shares
    <2>3. Quantity(saved, t) + sold'[t] + Due(Trader, t)' = bought'[t] + Due(Manager, t)'
      <3>1. CASE r = Trader
        <4>1. /\ bought'[t] = bought[t] + o.quantity /\ sold'[t] = sold[t]
              /\ Due(Manager, t)' = Due(Manager, t)
          BY <1>1, <1>2, <1>4, <1>6, <1>8, <3>1, RunNames
        <4> QED BY <1>2, <1>4, <2>1, <2>2, <3>1, <4>1 DEF Tale
      <3>2. CASE r = Manager
        <4>1. /\ sold'[t] = sold[t] + o.quantity /\ bought'[t] = bought[t]
              /\ Due(Trader, t)' = Due(Trader, t)
          BY <1>1, <1>2, <1>4, <1>6, <1>8, <3>2, RunNames
        <4> QED BY <1>2, <1>4, <2>1, <2>2, <3>2, <4>1 DEF Tale
      <3> QED BY <3>1, <3>2, RunNames
    <2> QED BY <1>1, <1>5, <2>3, RunNames DEF Tale
  <1> QED BY <1>7, <1>8

LEMMA TaleSql ==
    ASSUME Base, NEW t \in Tickers, NEW r \in Runs, Tale(t), PersistSql(r) \/ TrackEntry(r)
    PROVE  Tale(t)'
  <1> DEFINE o == run[r].order
  <1>1. /\ run[r].pc \in {"sql", "tracker"} /\ UNCHANGED <<saved, bought, sold, history>>
        /\ run' = [run EXCEPT ![r].pc = "tracker"] \/ run' = [run EXCEPT ![r].pc = "save"]
    BY DEF PersistSql, TrackEntry, At, Goto, stores
  <1>2. run \in [Runs -> Run] /\ run[r] \in Run
    BY RunFacts DEF Base, TypeOK
  <1>3. /\ run'[r].pc \in {"tracker", "save"} /\ run'[r].state = run[r].state /\ run'[r].order = o
        /\ \A q \in Runs \ {r} : run'[q] = run[q]
    BY <1>1, <1>2 DEF Run
  <1>4. \A q \in Runs : /\ Due(q, t)' = Due(q, t)
                        /\ SeenBy(q, t)' => run'[q].state.positions[t] = saved'.positions[t]
                        /\ SeenBy(q, t)' => SeenBy(q, t)
    <2> SUFFICES ASSUME NEW q \in Runs
                 PROVE  /\ Due(q, t)' = Due(q, t)
                        /\ SeenBy(q, t)' => run'[q].state.positions[t] = saved'.positions[t]
                        /\ SeenBy(q, t)' => SeenBy(q, t)
      OBVIOUS
    <2>1. SeenBy(q, t)' => SeenBy(q, t) /\ run'[q].state.positions[t] = saved'.positions[t]
      BY <1>1, <1>3 DEF SeenBy, Tale, history
    <2>2. Due(q, t)' = Due(q, t)
      BY <1>1, <1>3 DEF Due, Recorded, InFill, FillSteps
    <2> QED BY <2>1, <2>2
  <1>5. \A q \in Runs \ {r} : InSql(q, t)' = InSql(q, t)
    BY <1>3 DEF InSql, InFill
  \* A fill of another ticker, a partial exit, or no position to open or to close.
  <1>6. CASE t # o.ticker \/ o.partial \/ run[r].pc = "tracker"
    <2>1. t \in db' <=> t \in db
      <3>1. run[r].pc = "sql" => (o.side = "BUY" => ~o.partial)
        BY FillFacts, RunNames DEF FillSteps
      <3> QED BY <1>6, <3>1 DEF PersistSql, TrackEntry, At, stores
    <2>2. InSql(r, t)' = InSql(r, t)
      BY <1>1, <1>3, <1>6 DEF InSql, InFill, FillSteps
    <2> QED BY <1>1, <1>4, <1>5, <2>1, <2>2, Stay
  <1>7. CASE t = o.ticker /\ ~o.partial /\ run[r].pc = "sql"
    <2>1. /\ InSql(r, t)' /\ (t \in db' <=> o.side = "BUY")
      <3>1. db' = IF o.side = "BUY" THEN db \cup {t} ELSE db \ {t}
        BY <1>7 DEF PersistSql, TrackEntry, At
      <3> QED BY <1>3, <1>7, <3>1 DEF InSql, InFill, FillSteps
    <2>2. o.side = "BUY" <=> r = Trader
      BY <1>7, FillFacts, RunNames DEF FillSteps
    <2> QED BY <1>1, <1>4, <2>1, <2>2, RunNames DEF Tale
  <1> QED BY <1>1, <1>6, <1>7

\* The portfolio of r is saved with the position of t as it was.
LEMMA TaleSaved ==
    ASSUME Base, NEW t \in Tickers \ overwritten', NEW r \in Runs, Tale(t),
           NEW fills \in SUBSET Tickers, NEW p \in Portfolio, Save(r, fills, p),
           run[r].pc # "idle", UNCHANGED <<bought, sold, db>>,
           \A q \in Runs \ {r} : run'[q] = run[q],
           t \in fills \/ p.positions[t] = run[r].state.positions[t],
           Quantity(p, t) = Quantity(run[r].state, t),
           p.positions[t] = None <=> run[r].state.positions[t] = None,
           p.positions[t] # None => p.positions[t].basis = run[r].state.positions[t].basis,
           ~Recorded(r, t), ~Recorded(r, t)', run'[r].pc = "idle" \/ run'[r].state = p
    PROVE  Tale(t)'
  <1>1. run[r].state.positions[t] = saved.positions[t]
    BY DEF Save, SeenBy, Tale
  <1>2. /\ saved' = p /\ Quantity(saved', t) = Quantity(saved, t)
        /\ saved'.positions[t] = None <=> saved.positions[t] = None
        /\ saved'.positions[t] # None => saved'.positions[t].basis = saved.positions[t].basis
    BY <1>1 DEF Save, Quantity
  <1>3. ASSUME NEW q \in Runs
        PROVE  /\ Due(q, t)' = Due(q, t) /\ InSql(q, t)' = InSql(q, t)
               /\ SeenBy(q, t)' => run'[q].state.positions[t] = saved'.positions[t]
               /\ SeenBy(q, t)' /\ InSql(q, t) => SeenBy(q, t)
    <2>1. CASE q = r
      BY <1>2, <2>1, StayAway DEF SeenBy
    <2>2. CASE q # r
      <3>1. Due(q, t)' = Due(q, t) /\ InSql(q, t)' = InSql(q, t) /\ run'[q] = run[q]
        BY <2>2 DEF Due, InSql, Recorded, InFill
      <3>2. SeenBy(q, t)' => SeenBy(q, t) /\ t \notin fills
        BY <2>2, <3>1 DEF SeenBy, Save, At
      <3>3. SeenBy(q, t)' => run'[q].state.positions[t] = saved'.positions[t]
        BY <1>1, <1>2, <3>1, <3>2 DEF Tale
      <3> QED BY <3>1, <3>2, <3>3
    <2> QED BY <2>1, <2>2
  <1> QED BY <1>2, <1>3, Stay

LEMMA TaleEnd ==
    ASSUME Base, NEW t \in Tickers \ (overwritten' \cup interrupted'), Tale(t),
           EndTrading \/ EndManaging
    PROVE  Tale(t)'
  <1>1. CASE EndTrading
    BY <1>1, TaleOver, RunNames DEF EndTrading, stores, At, Trader
  <1>2. CASE EndManaging
    <2>1. /\ run[Manager].pc = "next" /\ run' = [run EXCEPT ![Manager] = IdleRun]
          /\ Save(Manager, {}, run[Manager].state) /\ UNCHANGED <<bought, sold, db>>
      BY <1>2 DEF EndManaging, At, Manager
    <2>2. /\ run'[Manager].pc = "idle" /\ \A q \in Runs \ {Manager} : run'[q] = run[q]
      BY <2>1, IdleFacts, RunNames
    <2>3. ~Recorded(Manager, t) /\ ~Recorded(Manager, t)'
      BY <2>1, <2>2 DEF Recorded, InFill, FillSteps
    <2>4. run[Manager].state \in Portfolio
      BY RunFacts, RunNames
    <2> QED BY <2>1, <2>2, <2>3, <2>4, TaleSaved, RunNames
  <1> QED BY <1>1, <1>2

LEMMA TaleSave ==
    ASSUME Base, NEW t \in Tickers \ overwritten', NEW r \in Runs, Tale(t), LevelAt(r, t),
           SaveFill(r)
    PROVE  Tale(t)'
  <1> DEFINE o == run[r].order
  <1>1. /\ run[r].pc = "save" /\ UNCHANGED <<bought, sold, db>>
        /\ Save(r, {o.ticker}, saved') /\ o.ticker \in Tickers
    BY FillFacts DEF SaveFill, At, Save, FillSteps
  <1>2. /\ saved' \in Portfolio /\ run'[r].state = saved' /\ run'[r].pc \in {"next", "protect"}
        /\ \A q \in Runs \ {r} : run'[q] = run[q]
        /\ SharesOf(saved') = run[r].broker.quantity
        /\ \A s \in Tickers : run[r].broker.quantity[s] = Quantity(run[r].state, s) =>
             saved'.positions[s] = run[r].state.positions[s]
        /\ \A s \in Tickers : saved'.positions[s] # None =>
                saved'.positions[s].basis =
                  IF run[r].state.positions[s] # None THEN run[r].state.positions[s].basis
                  ELSE o.ticker
    BY SaveFacts
  <1>3. ~Recorded(r, t)' /\ ~InSql(r, t)'
    BY <1>2 DEF Recorded, InSql, InFill, FillSteps
  <1>4. CASE t # o.ticker
    <2>1. saved'.positions[t] = run[r].state.positions[t]
      BY <1>1, <1>2, <1>4 DEF LevelAt, InFill
    <2>2. ~Recorded(r, t)
      BY <1>4 DEF Recorded, InFill
    <2>3. PICK p : p = saved'
      OBVIOUS
    <2>4. Quantity(p, t) = Quantity(run[r].state, t)
      BY <2>1, <2>3 DEF Quantity
    <2> QED BY <1>1, <1>2, <1>3, <2>1, <2>2, <2>3, <2>4, TaleSaved
  <1>5. CASE t = o.ticker
    <2> DEFINE held == Quantity(run[r].state, t)
    <2>1. run[r].state.positions[t] = saved.positions[t] /\ SeenBy(r, t)
      BY <1>1 DEF Save, SeenBy, Tale
    <2>2. held = Quantity(saved, t) /\ Quantity(saved', t) = run[r].broker.quantity[t]
          /\ (saved'.positions[t] = None <=> Quantity(saved', t) = 0)
      BY <1>2, <2>1, SharesFacts DEF Quantity
    <2>3. /\ o.quantity \in Nat \ {0} /\ held \in Nat
          /\ saved.positions[t] = None <=> held = 0
          /\ r = Trader => ~o.partial /\ held = 0 /\ Quantity(saved', t) = o.quantity
          /\ r = Manager => /\ o.quantity <= held /\ Quantity(saved', t) = held - o.quantity
                            /\ ~o.partial => o.quantity = held
                            /\ o.partial /\ PartialMinQuantity > 1 => o.quantity < held
      BY <1>1, <1>5, <2>1, <2>2, FillFacts DEF FillSteps
    <2>4. Due(r, t) = o.quantity /\ Due(r, t)' = 0 /\ (InSql(r, t) <=> ~o.partial)
      BY <1>1, <1>3, <1>5 DEF Due, Recorded, InSql, InFill, FillSteps
    <2>5. ASSUME NEW q \in Runs \ {r}
          PROVE  Due(q, t)' = Due(q, t) /\ InSql(q, t)' = InSql(q, t) /\ ~SeenBy(q, t)'
      <3>1. Due(q, t)' = Due(q, t) /\ InSql(q, t)' = InSql(q, t) /\ run'[q] = run[q]
        BY <1>2 DEF Due, InSql, Recorded, InFill
      <3> QED BY <1>1, <1>5, <3>1 DEF SeenBy, Save, At
    <2>6. \A q \in Runs : SeenBy(q, t)' => run'[q].state.positions[t] = saved'.positions[t]
      BY <1>2, <2>5
    <2>7. Quantity(saved', t) + sold'[t] + Due(Trader, t)' = bought'[t] + Due(Manager, t)'
      <3>1. /\ sold[t] \in Nat /\ bought[t] \in Nat /\ sold'[t] = sold[t] /\ bought'[t] = bought[t]
            /\ Due(Trader, t) \in Nat /\ Due(Manager, t) \in Nat
        BY <1>1, DueIsNat, RunNames DEF Base, TypeOK, Shares
      <3>2. held + sold[t] + Due(Trader, t) = bought[t] + Due(Manager, t)
        BY <2>2 DEF Tale
      <3> HIDE DEF held, o
      <3>3. CASE r = Trader
        <4>1. Due(Manager, t)' = Due(Manager, t)
          BY <2>5, <3>3, RunNames
        <4> QED BY <2>3, <2>4, <3>1, <3>2, <3>3, <4>1
      <3>4. CASE r = Manager
        <4>1. Due(Trader, t)' = Due(Trader, t)
          BY <2>5, <3>4, RunNames
        <4> QED BY <2>3, <2>4, <3>1, <3>2, <3>4, <4>1
      <3> QED BY <3>3, <3>4, RunNames
    <2>8. saved'.positions[t] # None => saved'.positions[t].basis = t
      BY <1>2, <1>5, <2>1 DEF Tale
    <2>9. ASSUME PartialMinQuantity > 1, ~InSql(Trader, t)', ~InSql(Manager, t)'
          PROVE  t \in db' <=> saved'.positions[t] # None
      <3>1. \A q \in Runs \ {r} : ~InSql(q, t)
        BY <2>5, <2>9, RunNames
      <3>2. CASE r = Trader
        <4>1. t \in db
          BY <2>1, <2>3, <2>4, <2>9, <3>1, <3>2, RunNames DEF Tale
        <4> QED BY <1>1, <2>2, <2>3, <3>2, <4>1
      <3>3. CASE r = Manager /\ ~o.partial
        <4>1. t \notin db
          BY <2>1, <2>4, <2>9, <3>1, <3>3, RunNames DEF Tale
        <4>2. Quantity(saved', t) = 0
          BY <2>3, <3>3
        <4> QED BY <1>1, <2>2, <4>1, <4>2
      <3>4. CASE r = Manager /\ o.partial
        <4>1. t \in db <=> saved.positions[t] # None
          BY <2>4, <2>9, <3>1, <3>4, RunNames DEF Tale
        <4>2. Quantity(saved', t) # 0 /\ held # 0
          BY <2>3, <2>9, <3>4
        <4> QED BY <1>1, <2>2, <2>3, <4>1, <4>2
      <3> QED BY <3>2, <3>3, <3>4, RunNames
    <2>10. /\ SeenBy(Trader, t)' /\ InSql(Trader, t)' => FALSE
           /\ SeenBy(Manager, t)' /\ InSql(Manager, t)' => FALSE
      BY <1>3, <2>5, RunNames
    <2> QED BY <2>6, <2>7, <2>8, <2>9, <2>10 DEF Tale
  <1> QED BY <1>4, <1>5

LEMMA TaleProtect ==
    ASSUME Base, NEW t \in Tickers \ overwritten', NEW r \in Runs, Tale(t), ProtectRemainder(r)
    PROVE  Tale(t)'
  <1>1. /\ run[r].pc = "protect" /\ UNCHANGED <<bought, sold, db>>
        /\ run[r].order.ticker \in Tickers
    BY RunFacts DEF ProtectRemainder, At, Order
  <1>2. /\ run'[r].pc = "next" /\ \A q \in Runs \ {r} : run'[q] = run[q]
        /\ \/ run'[r].state = run[r].state /\ UNCHANGED <<saved, overwritten, unseen>>
           \/ Save(r, {run[r].order.ticker}, run'[r].state)
        /\ run'[r].state \in Portfolio /\ SharesOf(run'[r].state) = SharesOf(run[r].state)
        /\ run'[r].state.positions[t] # None =>
             run'[r].state.positions[t].basis = run[r].state.positions[t].basis
        /\ t # run[r].order.ticker => run'[r].state.positions[t] = run[r].state.positions[t]
    BY ProtectFacts
  <1>3. ~Recorded(r, t) /\ ~Recorded(r, t)'
    BY <1>1, <1>2 DEF Recorded, InFill, FillSteps
  <1>4. CASE run'[r].state = run[r].state /\ UNCHANGED <<saved, overwritten, unseen>>
    <2>1. SeenBy(r, t)' => run'[r].state.positions[t] = saved.positions[t]
      BY <1>1, <1>4, SeenStill
    <2> QED BY <1>1, <1>2, <1>3, <1>4, <2>1, TaleAway
  <1>5. CASE Save(r, {run[r].order.ticker}, run'[r].state)
    <2>1. PICK p \in Portfolio : p = run'[r].state
      BY <1>2
    <2>2. /\ Quantity(p, t) = Quantity(run[r].state, t)
          /\ p.positions[t] = None <=> run[r].state.positions[t] = None
      BY <1>2, <2>1, RunFacts, SharesFacts
    <2> QED BY <1>1, <1>2, <1>3, <1>5, <2>1, <2>2, TaleSaved
  <1> QED BY <1>2, <1>4, <1>5

LEMMA TaleCool ==
    ASSUME Base, NEW t \in Tickers, Tale(t), NEW u \in Tickers, CoolDown(u)
    PROVE  Tale(t)'
  <1>1. /\ saved'.positions = saved.positions
        /\ \A r \in Runs : /\ run'[r].pc = run[r].pc /\ run'[r].order = run[r].order
                           /\ run'[r].state.positions = run[r].state.positions
    BY CoolFacts
  <1>2. UNCHANGED <<bought, sold, db, unseen>>
    BY DEF CoolDown, history
  <1>3. ASSUME NEW r \in Runs
        PROVE  /\ Due(r, t)' = Due(r, t) /\ InSql(r, t)' = InSql(r, t)
               /\ SeenBy(r, t)' => run'[r].state.positions[t] = saved'.positions[t]
               /\ SeenBy(r, t)' /\ InSql(r, t) => SeenBy(r, t)
    <2>1. run'[r].pc = run[r].pc /\ run'[r].order = run[r].order
      BY <1>1
    <2>2. SeenBy(r, t)' = SeenBy(r, t)
      BY <1>2, <2>1 DEF SeenBy
    <2>3. Due(r, t)' = Due(r, t) /\ InSql(r, t)' = InSql(r, t)
      BY <2>1 DEF Due, InSql, Recorded, InFill
    <2> QED BY <1>1, <2>2, <2>3 DEF Tale
  <1>4. Quantity(saved', t) = Quantity(saved, t)
    BY <1>1 DEF Quantity
  <1> QED BY <1>1, <1>2, <1>3, <1>4, Stay

\* What was saved over or cut short stays so.
LEMMA HistoryGrows ==
    ASSUME [Next]_vars
    PROVE  overwritten \subseteq overwritten' /\ interrupted \subseteq interrupted'
  <1>1. CASE StartTrading \/ StartManaging \/ EndTrading \/ EndManaging \/ UNCHANGED vars
    BY <1>1 DEF StartTrading, StartManaging, Start, EndTrading, EndManaging, Save, vars, history
  <1>2. ASSUME NEW r \in Runs, Skip(r) \/ FillTransaction(r) \/ Crash(r)
        PROVE  overwritten \subseteq overwritten' /\ interrupted \subseteq interrupted'
    BY <1>2 DEF Skip, FillTransaction, RecordFill, PersistSql, TrackEntry, SaveFill,
       ProtectRemainder, Crash, Save, Interrupt, history
  <1>3. ASSUME NEW r \in Runs, StepFails(r) \/ SqlFailsSilently(r)
        PROVE  overwritten \subseteq overwritten' /\ interrupted \subseteq interrupted'
    BY <1>3 DEF StepFails, SqlFailsSilently, Interrupt
  <1>4. ASSUME NEW t \in Tickers, Buy(t) \/ Sell(t) \/ CoolDown(t)
        PROVE  overwritten \subseteq overwritten' /\ interrupted \subseteq interrupted'
    BY <1>4 DEF Buy, Sell, Submit, CoolDown, history
  <1> QED BY <1>1, <1>2, <1>3, <1>4 DEF Next

LEMMA StoryStep == Base /\ Level /\ Story /\ [Next]_vars => Story'
  <1> SUFFICES ASSUME Base, Level, Story, [Next]_vars,
                      NEW t \in Tickers \ (overwritten' \cup interrupted')
               PROVE  Tale(t)'
    BY DEF Story
  <1>0. Tale(t) /\ \A r \in Runs : LevelAt(r, t)
    BY HistoryGrows DEF Story, Level
  <1>1. CASE StartTrading \/ StartManaging
    <2>1. OpenIn(saved) \in SUBSET Tickers
      BY DEF OpenIn
    <2> QED BY <1>0, <1>1, <2>1, TaleStart, RunNames DEF StartTrading, StartManaging, Trader, Manager
  <1>2. CASE EndTrading \/ EndManaging
    BY <1>0, <1>2, TaleEnd
  <1>3. ASSUME NEW r \in Runs, Crash(r) PROVE Tale(t)'
    BY <1>0, <1>3, TaleOver DEF Crash, stores
  <1>4. ASSUME NEW u \in Tickers, Buy(u) \/ Sell(u) PROVE Tale(t)'
    BY <1>0, <1>4, BuyFacts, SellFacts, TaleNext, RunNames
  <1>5. ASSUME NEW r \in Runs, Skip(r) PROVE Tale(t)'
    BY <1>0, <1>5, TaleNext
  <1>6. ASSUME NEW r \in Runs, FillTransaction(r) PROVE Tale(t)'
    BY <1>0, <1>6, TaleRow, TaleSql, TaleSave, TaleProtect DEF FillTransaction
  <1>7. ASSUME NEW r \in Runs, StepFails(r) \/ SqlFailsSilently(r) PROVE Tale(t)'
    BY <1>0, <1>7, TaleFails
  <1>8. ASSUME NEW u \in Tickers, CoolDown(u) PROVE Tale(t)'
    BY <1>0, <1>8, TaleCool
  <1>9. CASE UNCHANGED vars
    BY <1>0, <1>9 DEF vars, history, Tale, Due, InSql, Recorded, InFill, SeenBy
  <1> QED BY <1>1, <1>2, <1>3, <1>4, <1>5, <1>6, <1>7, <1>8, <1>9 DEF Next

LEMMA LevelStep == Base /\ Level /\ [Next]_vars => Level'
  <1> SUFFICES ASSUME Base, Level, [Next]_vars,
                      NEW s \in Runs, NEW t \in Tickers \ interrupted'
               PROVE  LevelAt(s, t)'
    BY DEF Level
  <1>0. LevelAt(s, t) /\ \A r \in Runs : LevelAt(r, t)
    BY HistoryGrows DEF Level
  \* The run that moved is r: what its portfolio and its broker have of t goes together.
  <1>a. ASSUME NEW r \in Runs, \A q \in Runs \ {r} : run'[q] = run[q],
               \/ run'[r].pc = "idle"
               \/ run'[r].broker.quantity[t] = Quantity(run'[r].state, t)
               \/ /\ run[r].pc # "idle" /\ (InFill(r, t) => InFill(r, t)')
                  /\ run'[r].broker = run[r].broker /\ run'[r].state = run[r].state
               \/ InFill(r, t)'
        PROVE  LevelAt(s, t)'
    <2>1. CASE s = r
      BY <1>0, <1>a, <2>1 DEF LevelAt
    <2>2. CASE s # r
      BY <1>0, <1>a, <2>2 DEF LevelAt, InFill
    <2> QED BY <2>1, <2>2
  <1>1. ASSUME NEW r \in Runs, NEW todo \in SUBSET Tickers, Start(r, todo) PROVE LevelAt(s, t)'
    <2>1. /\ run'[r].state = saved /\ run'[r].broker.quantity = SharesOf(saved)
          /\ \A q \in Runs \ {r} : run'[q] = run[q]
      BY <1>1, StartFacts
    <2>2. run'[r].broker.quantity[t] = Quantity(run'[r].state, t)
      BY <2>1, SharesFacts DEF Base, TypeOK
    <2> QED BY <1>a, <2>1, <2>2
  <1>2. CASE StartTrading \/ StartManaging
    <2>1. OpenIn(saved) \in SUBSET Tickers
      BY DEF OpenIn
    <2> QED BY <1>1, <1>2, <2>1, RunNames DEF StartTrading, StartManaging, Trader, Manager
  <1>3. ASSUME NEW r \in Runs, run' = [run EXCEPT ![r] = IdleRun], bought' = bought
        PROVE  LevelAt(s, t)'
    BY <1>3, <1>a, IdleFacts
  <1>4. CASE EndTrading \/ EndManaging
    BY <1>3, <1>4, RunNames DEF EndTrading, EndManaging, stores, Trader, Manager
  <1>5. ASSUME NEW r \in Runs, Crash(r) PROVE LevelAt(s, t)'
    BY <1>3, <1>5 DEF Crash, stores
  <1>6. ASSUME NEW u \in Tickers, Buy(u) \/ Sell(u) PROVE LevelAt(s, t)'
    <2>1. PICK r \in Runs, o \in Order : Ordered(r, o)
      BY <1>6, BuyFacts, SellFacts, RunNames
    <2>2. /\ run[r].pc = "next" /\ run'[r].pc = "row" /\ run'[r].order = o
          /\ run'[r].state = run[r].state /\ run'[r].broker = Filled(run[r].broker, o)
          /\ \A v \in Tickers \ {o.ticker} :
                Filled(run[r].broker, o).quantity[v] = run[r].broker.quantity[v]
          /\ \A q \in Runs \ {r} : run'[q] = run[q]
      BY <2>1, SubmitFacts
    <2>3. CASE t = o.ticker
      <3>1. InFill(r, t)'
        BY <2>2, <2>3 DEF InFill, FillSteps
      <3> QED BY <1>a, <2>2, <3>1
    <2>4. CASE t # o.ticker
      <3>1. ~InFill(r, t) /\ run[r].pc # "idle"
        BY <2>2 DEF InFill, FillSteps
      <3>2. run'[r].broker.quantity[t] = Quantity(run'[r].state, t)
        BY <1>0, <2>2, <2>4, <3>1 DEF LevelAt
      <3> QED BY <1>a, <2>2, <3>2
    <2> QED BY <2>3, <2>4
  <1>7. ASSUME NEW r \in Runs, Skip(r) PROVE LevelAt(s, t)'
    <2>1. /\ run[r].pc = "next" /\ run'[r].state = run[r].state /\ run'[r].broker = run[r].broker
          /\ \A q \in Runs \ {r} : run'[q] = run[q]
      BY <1>7, SkipFacts
    <2>2. ~InFill(r, t)
      BY <2>1 DEF InFill, FillSteps
    <2> QED BY <1>a, <2>1, <2>2
  <1>8. ASSUME NEW r \in Runs,
               RecordFill(r) \/ PersistSql(r) \/ TrackEntry(r) \/ StepFails(r) \/ SqlFailsSilently(r)
        PROVE  LevelAt(s, t)'
    <2>1. /\ run[r].pc \notin {"idle", "next"}
          /\ run'[r].broker = run[r].broker /\ run'[r].state = run[r].state
          /\ run'[r].pc = "next" \/ (run'[r].pc \in FillSteps /\ run'[r].order = run[r].order)
          /\ \A q \in Runs \ {r} : run'[q] = run[q]
      <3>1. run \in [Runs -> Run] /\ run[r] \in Run
        BY RunFacts DEF Base, TypeOK
      <3>2. /\ run[r].pc \notin {"idle", "next"}
            /\ (\E step \in {"sql", "tracker", "save"} : run' = [run EXCEPT ![r].pc = step])
               \/ NextTicker(r)
        BY <1>8 DEF RecordFill, PersistSql, TrackEntry, StepFails, SqlFailsSilently, Goto, At
      <3>3. CASE NextTicker(r)
        BY <3>1, <3>2, <3>3 DEF NextTicker, Run
      <3>4. CASE ~NextTicker(r)
        BY <3>1, <3>2, <3>4 DEF Run, FillSteps
      <3> QED BY <3>2, <3>3, <3>4
    <2>2. run'[r].pc = "next" => ~InFill(r, t)
      <3> SUFFICES ASSUME run'[r].pc = "next" PROVE ~InFill(r, t)
        OBVIOUS
      <3>1. StepFails(r)
        <4>1. run \in [Runs -> Run] /\ run[r] \in Run
          BY RunFacts DEF Base, TypeOK
        <4> QED BY <1>8, <4>1 DEF RecordFill, PersistSql, TrackEntry, SqlFailsSilently, Goto, Run
      <3>2. run[r].order # None /\ Interrupt(r)
        BY <2>1, <3>1, RunFacts, NoneAssumption DEF StepFails
      <3> QED BY <3>2 DEF Interrupt, InFill
    <2>3. InFill(r, t) => InFill(r, t)'
      BY <2>1, <2>2 DEF InFill
    <2> QED BY <1>a, <2>1, <2>3
  <1>9. ASSUME NEW r \in Runs, SaveFill(r) PROVE LevelAt(s, t)'
    <2>1. /\ saved' \in Portfolio /\ run'[r].state = saved' /\ run'[r].broker = run[r].broker
          /\ SharesOf(saved') = run[r].broker.quantity
          /\ \A q \in Runs \ {r} : run'[q] = run[q]
      BY <1>9, SaveFacts
    <2>2. run'[r].broker.quantity[t] = Quantity(run'[r].state, t)
      BY <2>1, SharesFacts
    <2> QED BY <1>a, <2>1, <2>2
  <1>10. ASSUME NEW r \in Runs, ProtectRemainder(r) PROVE LevelAt(s, t)'
    <2>1. /\ run[r].pc = "protect" /\ run'[r].broker = run[r].broker
          /\ run'[r].state \in Portfolio /\ SharesOf(run'[r].state) = SharesOf(run[r].state)
          /\ \A q \in Runs \ {r} : run'[q] = run[q]
      BY <1>10, ProtectFacts DEF ProtectRemainder, At
    <2>2. ~InFill(r, t) /\ run[r].state \in Portfolio
      BY <2>1, RunFacts DEF InFill, FillSteps
    <2>3. run'[r].broker.quantity[t] = Quantity(run'[r].state, t)
      BY <1>0, <2>1, <2>2, SharesFacts DEF LevelAt
    <2> QED BY <1>a, <2>1, <2>3
  <1>11. ASSUME NEW u \in Tickers, CoolDown(u) PROVE LevelAt(s, t)'
    <2>1. /\ run'[s].pc = run[s].pc /\ run'[s].broker = run[s].broker /\ run'[s].order = run[s].order
          /\ run'[s].state.positions = run[s].state.positions
      BY <1>11, CoolFacts
    <2>2. Quantity(run'[s].state, t) = Quantity(run[s].state, t)
      BY <2>1 DEF Quantity
    <2> QED BY <1>0, <2>1, <2>2 DEF LevelAt, InFill
  <1>12. CASE UNCHANGED vars
    BY <1>0, <1>12 DEF vars, LevelAt, InFill
  <1> QED
    BY <1>2, <1>4, <1>5, <1>6, <1>7, <1>8, <1>9, <1>10, <1>11, <1>12 DEF Next, FillTransaction

-----------------------------------------------------------------------------
(* One interruption, one ticker                                            *)

Counted == Cardinality(interrupted) <= failures + crashes

LEMMA InterruptedFacts ==
    ASSUME Base
    PROVE  IsFiniteSet(interrupted) /\ Cardinality(interrupted) \in Nat
  <1>1. IsFiniteSet(interrupted)
    BY PaperAssumption, FS_Subset DEF Base, TypeOK
  <1> QED BY <1>1, FS_CardinalityType

LEMMA InterruptCounts ==
    ASSUME Base, NEW r \in Runs, Interrupt(r)
    PROVE  Cardinality(interrupted') <= Cardinality(interrupted) + 1
  <1>1. IsFiniteSet(interrupted) /\ Cardinality(interrupted) \in Nat
    BY InterruptedFacts
  <1>2. CASE run[r].order = None
    BY <1>1, <1>2 DEF Interrupt
  <1>3. CASE run[r].order # None
    <2>1. PICK t : t = run[r].order.ticker
      OBVIOUS
    <2>2. interrupted' = interrupted \cup {t}
      BY <1>3, <2>1 DEF Interrupt
    <2>3. \/ Cardinality(interrupted \cup {t}) = Cardinality(interrupted)
          \/ Cardinality(interrupted \cup {t}) = Cardinality(interrupted) + 1
      BY <1>1, FS_AddElement, Zenon
    <2> QED BY <1>1, <2>2, <2>3
  <1> QED BY <1>2, <1>3

LEMMA CountedStep == Base /\ Counted /\ [Next]_vars => Counted'
  <1> SUFFICES ASSUME Base, Counted, [Next]_vars PROVE Counted'
    OBVIOUS
  <1>0. /\ failures \in Nat /\ crashes \in Nat /\ Cardinality(interrupted) \in Nat
        /\ Cardinality(interrupted) <= failures + crashes
    BY PaperAssumption, InterruptedFacts DEF Base, TypeOK, Counted
  <1>a. ASSUME UNCHANGED <<interrupted, failures, crashes>> PROVE Counted'
    BY <1>a DEF Counted
  <1>b. ASSUME NEW r \in Runs, Interrupt(r),
               \/ failures' = failures + 1 /\ crashes' = crashes
               \/ failures' = failures /\ crashes' = crashes + 1
        PROVE  Counted'
    <2>1. Base'
      BY BaseStep
    <2>2. Cardinality(interrupted') \in Nat /\ Cardinality(interrupted') <= Cardinality(interrupted) + 1
      <3>1. IsFiniteSet(interrupted)' /\ Cardinality(interrupted)' \in Nat
        <4>1. interrupted' \subseteq Tickers
          BY <2>1 DEF Base, TypeOK
        <4>2. IsFiniteSet(interrupted')
          BY <4>1, PaperAssumption, FS_Subset
        <4> QED BY <4>2, FS_CardinalityType
      <3> QED BY <1>b, <3>1, InterruptCounts
    <2> QED BY <1>0, <1>b, <2>2 DEF Counted
  <1>1. CASE StartTrading \/ StartManaging \/ EndTrading \/ EndManaging \/ UNCHANGED vars
    BY <1>1, <1>a DEF StartTrading, StartManaging, Start, EndTrading, EndManaging, vars, history
  <1>2. ASSUME NEW r \in Runs, Skip(r) \/ FillTransaction(r) PROVE Counted'
    BY <1>2, <1>a DEF Skip, FillTransaction, RecordFill, PersistSql, TrackEntry, SaveFill,
       ProtectRemainder, history
  <1>3. ASSUME NEW r \in Runs, StepFails(r) \/ SqlFailsSilently(r) \/ Crash(r) PROVE Counted'
    BY <1>3, <1>b DEF StepFails, SqlFailsSilently, Crash
  <1>4. ASSUME NEW t \in Tickers, Buy(t) \/ Sell(t) \/ CoolDown(t) PROVE Counted'
    BY <1>4, <1>a DEF Buy, Sell, Submit, CoolDown, history
  <1> QED BY <1>1, <1>2, <1>3, <1>4 DEF Next

-----------------------------------------------------------------------------
(* What is held was paid from the cash                                     *)

Worth(cash, shares) == cash + Sum(shares, Tickers)

\* Of the portfolio that is saved, and of what a run under way has in memory.
PaidOf(m) ==
    m.pc # "idle" =>
        /\ Worth(m.broker.cash, m.broker.quantity) = StartingCash
        /\ Worth(m.state.cash, SharesOf(m.state)) = StartingCash
Paid ==
    /\ Worth(saved.cash, SharesOf(saved)) = StartingCash
    /\ \A r \in Runs : PaidOf(run[r])

\* The sum of PaidFromCash and that of the table of shares.
LEMMA SumOfShares ==
    ASSUME NEW p \in Portfolio
    PROVE  MapThenSumSet(LAMBDA t : Quantity(p, t), Tickers) = Sum(SharesOf(p), Tickers)
  <1> DEFINE f == SharesOf(p)
             g == CHOOSE g : g = [s \in SUBSET Tickers |->
                     IF s = {} THEN 0 ELSE Quantity(p, CHOOSE t \in s : TRUE) + g[s \ {CHOOSE t \in s : TRUE}]]
  <1>1. PICK h : Tabulates(h, f, Tickers) /\ Sum(f, Tickers) = h[Tickers]
    BY PaperAssumption, SumIsTabulated
  <1>2. h = [s \in SUBSET Tickers |->
                IF s = {} THEN 0 ELSE f[CHOOSE t \in s : TRUE] + h[s \ {CHOOSE t \in s : TRUE}]]
    BY <1>1 DEF Tabulates, Element
  <1>3. \A s \in SUBSET Tickers : s # {} =>
          f[CHOOSE t \in s : TRUE] = Quantity(p, CHOOSE t \in s : TRUE)
    <2>1. \A s \in SUBSET Tickers : s # {} => (CHOOSE t \in s : TRUE) \in Tickers
      BY ElementOf DEF Element
    <2> QED BY <2>1, SharesFacts
  <1> HIDE DEF f
  <1>4. h = [s \in SUBSET Tickers |->
                IF s = {} THEN 0 ELSE Quantity(p, CHOOSE t \in s : TRUE) + h[s \ {CHOOSE t \in s : TRUE}]]
    BY <1>2, <1>3
  <1>5. g = [s \in SUBSET Tickers |->
                IF s = {} THEN 0 ELSE Quantity(p, CHOOSE t \in s : TRUE) + g[s \ {CHOOSE t \in s : TRUE}]]
    BY <1>4
  <1>6. MapThenSumSet(LAMBDA t : Quantity(p, t), Tickers) = g[Tickers]
    BY DEF MapThenSumSet, MapThenFoldSet
  <1> HIDE DEF g
  <1>7. Tabulates(g, f, Tickers)
    BY <1>3, <1>5 DEF Tabulates, Element
  <1>8. g[Tickers] = h[Tickers]
    BY <1>1, <1>7, PaperAssumption, TablesAgree
  <1> QED BY <1>1, <1>6, <1>8 DEF f

\* A fill at the broker moves money, and makes none.
LEMMA FilledWorth ==
    ASSUME NEW b \in Broker, NEW o \in Order,
           o.side = "BUY" => o.quantity <= b.cash,
           o.side = "SELL" => o.quantity <= b.quantity[o.ticker]
    PROVE  Worth(Filled(b, o).cash, Filled(b, o).quantity) = Worth(b.cash, b.quantity)
  <1>1. /\ b.cash \in Nat /\ b.quantity \in [Tickers -> Nat] /\ IsFiniteSet(Tickers)
        /\ o.ticker \in Tickers /\ o.quantity \in Nat /\ o.side \in {"BUY", "SELL"}
        /\ b.quantity[o.ticker] \in Nat
    BY PaperAssumption DEF Broker, Order, Shares
  <1>2. Sum(b.quantity, Tickers) \in Nat
    BY <1>1, SumType
  <1> DEFINE v == IF o.side = "BUY" THEN b.quantity[o.ticker] + o.quantity
                  ELSE b.quantity[o.ticker] - o.quantity
             now == [b.quantity EXCEPT ![o.ticker] = v]
  <1>3. v \in Nat
    BY <1>1
  <1>4. /\ Filled(b, o).quantity = now
        /\ Filled(b, o).cash = IF o.side = "BUY" THEN b.cash - o.quantity ELSE b.cash + o.quantity
    BY DEF Filled
  <1>5. Sum(now, Tickers) + b.quantity[o.ticker] = Sum(b.quantity, Tickers) + v
    <2> HIDE DEF v
    <2> QED BY <1>1, <1>3, SumExcept
  <1>6. Sum(now, Tickers) \in Nat
    <2>1. \A t \in Tickers : now[t] \in Nat
      BY <1>1, <1>3
    <2> HIDE DEF now
    <2> QED BY <1>1, <2>1, SumType
  <1> HIDE DEF now
  <1>7. CASE o.side = "BUY"
    BY <1>1, <1>2, <1>4, <1>5, <1>6, <1>7 DEF Worth
  <1>8. CASE o.side = "SELL"
    BY <1>1, <1>2, <1>4, <1>5, <1>6, <1>8 DEF Worth
  <1> QED BY <1>1, <1>7, <1>8

LEMMA PaidInit == Init => Paid
  <1> SUFFICES ASSUME Init PROVE Paid
    OBVIOUS
  <1>1. /\ saved = NewPortfolio /\ saved.cash = StartingCash /\ saved \in Portfolio
        /\ \A t \in Tickers : saved.positions[t] = None
        /\ \A r \in Runs : run[r].pc = "idle"
    BY NewFacts DEF Init, NewPortfolio, NoPositions, IdleRun
  <1>2. \A t \in Tickers : SharesOf(saved)[t] = 0
    BY <1>1, SharesFacts
  <1>3. Sum(SharesOf(saved), Tickers) = 0
    BY <1>2, PaperAssumption, SumZero
  <1> QED BY <1>1, <1>3, PaperAssumption DEF Paid, PaidOf, Worth

LEMMA PaidStep == Base /\ Paid /\ [Next]_vars => Paid'
  <1> SUFFICES ASSUME Base, Paid, [Next]_vars PROVE Paid'
    OBVIOUS
  <1>0. /\ Worth(saved.cash, SharesOf(saved)) = StartingCash /\ saved \in Portfolio
        /\ \A r \in Runs : PaidOf(run[r])
    BY DEF Paid, Base, TypeOK
  \* One run moves on, and what it has in memory is worth what it was.
  <1>a. ASSUME NEW r \in Runs, \A q \in Runs \ {r} : run'[q] = run[q], PaidOf(run'[r]),
               saved' = saved \/ (run[r].pc # "idle" /\ saved' = run[r].state)
               \/ (run'[r].pc # "idle" /\ saved' = run'[r].state)
        PROVE  Paid'
    <2>1. Worth(saved'.cash, SharesOf(saved')) = StartingCash
      BY <1>0, <1>a DEF PaidOf
    <2> QED BY <1>0, <1>a, <2>1 DEF Paid
  <1>1. ASSUME NEW r \in Runs, NEW todo \in SUBSET Tickers, Start(r, todo) PROVE Paid'
    <2>1. /\ run'[r].state = saved /\ run'[r].broker = BrokerOf(saved) /\ saved' = saved
          /\ BrokerOf(saved).quantity = SharesOf(saved)
          /\ \A q \in Runs \ {r} : run'[q] = run[q]
      BY <1>1, StartFacts DEF stores
    <2>2. BrokerOf(saved).cash = saved.cash
      BY DEF BrokerOf
    <2>3. PaidOf(run'[r])
      BY <1>0, <2>1, <2>2 DEF PaidOf
    <2> QED BY <1>a, <2>1, <2>3
  <1>2. CASE StartTrading \/ StartManaging
    <2>1. OpenIn(saved) \in SUBSET Tickers
      BY DEF OpenIn
    <2> QED BY <1>1, <1>2, <2>1, RunNames DEF StartTrading, StartManaging, Trader, Manager
  <1>3. ASSUME NEW r \in Runs, run[r].pc # "idle", run' = [run EXCEPT ![r] = IdleRun],
               bought' = bought, saved' \in {saved, run[r].state}
        PROVE  Paid'
    <2>1. run'[r].pc = "idle" /\ \A q \in Runs \ {r} : run'[q] = run[q]
      BY <1>3, IdleFacts
    <2>2. PaidOf(run'[r])
      BY <2>1 DEF PaidOf
    <2> QED BY <1>3, <1>a, <2>1, <2>2
  <1>4. CASE EndTrading \/ EndManaging
    BY <1>3, <1>4, RunNames DEF EndTrading, EndManaging, Save, At, stores, Trader, Manager
  <1>5. ASSUME NEW r \in Runs, Crash(r) PROVE Paid'
    BY <1>3, <1>5 DEF Crash, At, stores
  <1>6. ASSUME NEW t \in Tickers, Buy(t) \/ Sell(t) PROVE Paid'
    <2>1. PICK r \in Runs, o \in Order : Ordered(r, o)
      BY <1>6, BuyFacts, SellFacts, RunNames
    <2>2. /\ run'[r].broker = Filled(run[r].broker, o) /\ saved' = saved /\ run[r].pc = "next"
          /\ run'[r].state = run[r].state
          /\ o.side = "BUY" => o.quantity <= run[r].broker.cash
          /\ o.side = "SELL" => o.quantity <= run[r].broker.quantity[o.ticker]
          /\ \A q \in Runs \ {r} : run'[q] = run[q]
      BY <2>1, SubmitFacts DEF stores
    <2>3. Worth(Filled(run[r].broker, o).cash, Filled(run[r].broker, o).quantity) =
            Worth(run[r].broker.cash, run[r].broker.quantity)
      BY <2>2, RunFacts, FilledWorth
    <2>4. PaidOf(run'[r])
      BY <1>0, <2>2, <2>3 DEF PaidOf
    <2> QED BY <1>a, <2>2, <2>4
  \* A step of a run under way that leaves its broker and its portfolio alone.
  <1>7. ASSUME NEW r \in Runs, run[r].pc # "idle", run'[r].broker = run[r].broker,
               run'[r].state = run[r].state, \A q \in Runs \ {r} : run'[q] = run[q], saved' = saved
        PROVE  Paid'
    <2>1. PaidOf(run'[r])
      BY <1>0, <1>7 DEF PaidOf
    <2> QED BY <1>7, <1>a, <2>1
  <1>8. ASSUME NEW r \in Runs, Skip(r) PROVE Paid'
    BY <1>7, <1>8, SkipFacts DEF stores
  <1>9. ASSUME NEW r \in Runs,
               RecordFill(r) \/ PersistSql(r) \/ TrackEntry(r) \/ StepFails(r) \/ SqlFailsSilently(r)
        PROVE  Paid'
    <2>1. run[r].pc # "idle" /\ saved' = saved
      BY <1>9 DEF RecordFill, PersistSql, TrackEntry, StepFails, SqlFailsSilently, At, stores
    <2>2. /\ run'[r].broker = run[r].broker /\ run'[r].state = run[r].state
          /\ \A q \in Runs \ {r} : run'[q] = run[q]
      <3>1. run \in [Runs -> Run] /\ run[r] \in Run
        BY RunFacts DEF Base, TypeOK
      <3> QED BY <1>9, <3>1
         DEF RecordFill, PersistSql, TrackEntry, StepFails, SqlFailsSilently, NextTicker, Goto, Run
    <2> QED BY <1>7, <2>1, <2>2
  <1>10. ASSUME NEW r \in Runs, SaveFill(r) PROVE Paid'
    <2>0. run[r].pc # "idle"
      BY <1>10 DEF SaveFill, At
    <2>1. /\ run[r].pc # "idle" /\ run'[r].broker = run[r].broker /\ run'[r].state = saved'
          /\ SharesOf(saved') = run[r].broker.quantity /\ saved'.cash = run[r].broker.cash
          /\ run'[r].pc # "idle" /\ \A q \in Runs \ {r} : run'[q] = run[q]
      BY <1>10, <2>0, SaveFacts
    <2>2. PaidOf(run'[r])
      BY <1>0, <2>1 DEF PaidOf
    <2> QED BY <1>a, <2>1, <2>2
  <1>11. ASSUME NEW r \in Runs, ProtectRemainder(r) PROVE Paid'
    <2>1. /\ run[r].pc # "idle" /\ run'[r].pc = "next" /\ run'[r].broker = run[r].broker
          /\ SharesOf(run'[r].state) = SharesOf(run[r].state)
          /\ run'[r].state.cash = run[r].state.cash
          /\ saved' = saved \/ saved' = run'[r].state
          /\ \A q \in Runs \ {r} : run'[q] = run[q]
      BY <1>11, ProtectFacts DEF ProtectRemainder, At, Save
    <2>2. PaidOf(run'[r])
      BY <1>0, <2>1 DEF PaidOf
    <2> QED BY <1>a, <2>1, <2>2
  <1>12. ASSUME NEW t \in Tickers, CoolDown(t) PROVE Paid'
    <2>1. /\ saved'.cash = saved.cash /\ SharesOf(saved') = SharesOf(saved)
      BY <1>0, <1>12, CoolFacts DEF Portfolio
    <2>2. ASSUME NEW r \in Runs PROVE PaidOf(run'[r])
      <3>1. /\ run'[r].pc = run[r].pc /\ run'[r].broker = run[r].broker
            /\ run'[r].state = [run[r].state EXCEPT !.exited = @ \ {t}]
            /\ run'[r].state.positions = run[r].state.positions
        BY <1>12, CoolFacts
      <3>2. run'[r].state.cash = run[r].state.cash
        BY <3>1, RunFacts DEF Portfolio
      <3>3. SharesOf(run'[r].state) = SharesOf(run[r].state)
        BY <3>1 DEF SharesOf, Quantity
      <3> QED BY <1>0, <3>1, <3>2, <3>3 DEF PaidOf
    <2> QED BY <1>0, <2>1, <2>2 DEF Paid
  <1>13. CASE UNCHANGED vars
    BY <1>0, <1>13 DEF vars, Paid
  <1> QED
    BY <1>2, <1>4, <1>5, <1>6, <1>8, <1>9, <1>10, <1>11, <1>12, <1>13 DEF Next, FillTransaction

-----------------------------------------------------------------------------
(* Theorems                                                                *)

PaperInv == Base /\ Level /\ Story /\ Counted /\ Paid

(***************************************************************************)
(* The inductive invariant of run_paper_trade and the position manager     *)
(* side by side, with any failures and crashes: for a ticker none of whose *)
(* fills was cut short or saved over, a run that has seen every fill holds *)
(* the position as it is saved, the orders and the SQL positions are where *)
(* the fills under way have got to; each interruption cut one fill short;  *)
(* and no fill made or lost money.                                         *)
(***************************************************************************)
THEOREM PaperInvariant == Spec => []PaperInv
  <1>1. Init => PaperInv
    <2> SUFFICES ASSUME Init PROVE PaperInv
      OBVIOUS
    <2>1. Counted
      <3>1. Cardinality(interrupted) = 0
        BY FS_EmptySet DEF Init
      <3> QED BY <3>1 DEF Init, Counted
    <2> QED BY <2>1, BaseInit, StoryInit, PaidInit DEF PaperInv
  <1>2. PaperInv /\ [Next]_vars => PaperInv'
    BY BaseStep, LevelStep, StoryStep, CountedStep, PaidStep DEF PaperInv
  <1> QED BY <1>1, <1>2, PTL DEF Spec

(***************************************************************************)
(* Portfolios, brokers, orders and rows keep their types even when steps   *)
(* fail and the runs overlap: no run oversells its broker or overdraws its *)
(* cash.                                                                   *)
(***************************************************************************)
THEOREM PaperTypes == Spec => []TypeOK
  <1>1. PaperInv => TypeOK
    BY DEF PaperInv, Base
  <1> QED BY <1>1, PaperInvariant, PTL

LEMMA AtRest ==
    ASSUME PaperInv, AllIdle, NEW t \in Tickers \ (overwritten \cup interrupted)
    PROVE  /\ Quantity(saved, t) + sold[t] = bought[t]
           /\ saved.positions[t] # None => saved.positions[t].basis = t
           /\ PartialMinQuantity > 1 => (t \in db <=> saved.positions[t] # None)
  <1>1. \A r \in Runs : ~InSql(r, t) /\ Due(r, t) = 0
    BY DEF AllIdle, At, InSql, Due, Recorded, InFill, FillSteps
  <1>2. Tale(t) /\ bought[t] \in Nat /\ sold[t] \in Nat /\ Quantity(saved, t) \in Nat
    BY PaperAssumption, SharesFacts DEF PaperInv, Story, Base, TypeOK, Shares
  <1> QED BY <1>1, <1>2, RunNames DEF Tale

(***************************************************************************)
(* A failing step or a crash between the orders row and the saved          *)
(* portfolio costs the fill in flight: but for the fills a run saved over, *)
(* portfolio and orders disagree on no more tickers than there were        *)
(* failures and crashes, however long and in whatever order the runs go on.*)
(***************************************************************************)
THEOREM CrashesCostOneTicker == Spec => []CrashCostsOneTicker
  <1>1. PaperInv => CrashCostsOneTicker
    <2> DEFINE off == {t \in Tickers \ overwritten : Quantity(saved, t) + sold[t] # bought[t]}
    <2> SUFFICES ASSUME PaperInv, AllIdle PROVE Cardinality(off) <= failures + crashes
      BY DEF CrashCostsOneTicker
    <2>1. off \subseteq interrupted
      BY AtRest
    <2>2. IsFiniteSet(interrupted) /\ Cardinality(interrupted) \in Nat
      BY InterruptedFacts DEF PaperInv
    <2> HIDE DEF off
    <2>3. Cardinality(off) \in Nat /\ Cardinality(off) <= Cardinality(interrupted)
      BY <2>1, <2>2, FS_Subset, FS_CardinalityType
    <2>4. Cardinality(interrupted) <= failures + crashes /\ failures \in Nat /\ crashes \in Nat
      BY PaperAssumption DEF PaperInv, Counted, Base, TypeOK
    <2> QED BY <2>2, <2>3, <2>4
  <1> QED BY <1>1, PaperInvariant, PTL

(***************************************************************************)
(* What is held was paid from the cash, always; and between runs the       *)
(* portfolio is what the orders bought and did not sell, at its own        *)
(* prices, and the SQL positions are open for exactly its tickers, but for *)
(* a ticker with a fill that was cut short or saved over.  The minimum     *)
(* quantity of a partial exit must be at least two: with one, such an exit *)
(* can sell the last share and leave the SQL position open.                *)
(***************************************************************************)
THEOREM StoresTellOneStory ==
    ASSUME PartialMinQuantity > 1
    PROVE  Spec => []StoresAgree
  <1>1. PaperInv => StoresAgree
    <2> SUFFICES ASSUME PaperInv PROVE StoresAgree
      OBVIOUS
    <2>1. saved \in Portfolio
      BY DEF PaperInv, Base, TypeOK
    <2>2. PaidFromCash
      BY <2>1, SumOfShares DEF PaperInv, Paid, PaidFromCash, Worth
    <2>3. AllIdle => \A t \in Tickers \ (overwritten \cup interrupted) : Agreed(t)
      BY AtRest DEF Agreed
    <2> QED BY <2>2, <2>3 DEF StoresAgree
  <1> QED BY <1>1, PaperInvariant, PTL
=============================================================================
