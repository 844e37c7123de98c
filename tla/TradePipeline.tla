--------------------------- MODULE TradePipeline ---------------------------
(***************************************************************************)
(* The entry pipeline of runtime/orchestrator.py: run_scan judges a list   *)
(* of symbols and leaves its approved candidates in a file, run_paper_trade *)
(* judges its own list anew, symbol by symbol, and buys.  Between the runs *)
(* time passes, prices move and positions are exited.                      *)
(*                                                                         *)
(* A ticker is quoted at Price; one of down is quoted at its stop, or has  *)
(* no quote and is taken to be there.  The paper broker adds the slippage  *)
(* to what it buys at and takes it from what it sells at; the sizing and   *)
(* the share of a sector go by the quote.  The halt and breaker gates of   *)
(* both runs are in TradingDesk, the stores of a fill in PaperTrading.     *)
(***************************************************************************)
EXTENDS SignalEvidence

CONSTANTS
    Tickers,
    SectorOf,          \* _SECTOR_MAP; a ticker it does not know has None
    Frames,            \* the frames the market may show of a ticker
    Yesterday,         \* a ticker that yesterday's scan approved
    Cash,              \* the starting cash
    Fee,
    Slippage,          \* slippage_bps of Price, the same for orders of any size
    SectorShare,       \* max_sector_concentration_pct
    HeatShare,         \* max_portfolio_heat_pct
    MaxDailyOrders,
    MaxCandidateAge,   \* candidate_max_age_minutes, in ticks
    MaxTime, MaxScans, MaxSymbols, MaxFaults

ASSUME PipelineAssumption ==
    /\ {Cash, Fee, Slippage, MaxDailyOrders, MaxCandidateAge, MaxTime, MaxScans, MaxSymbols,
        MaxFaults} \subseteq Nat
    /\ {SectorShare, HeatShare} \subseteq 0..100
    /\ Yesterday \in Tickers

VARIABLES
    now, phase, left,  \* left: symbols the run may still look at
    file, scan,        \* the candidates file and the number of the last scan
    cash, held,        \* the saved portfolio
    broker,            \* the cash and shares of the run's paper broker
    open, hot,         \* open_tickers and the heat verdict of the run
    orders, lossHit,   \* BUY rows of the day; the day's losses reached the limit
    exited,            \* tickers in their re-entry cooldown, of one tick
    down, faults,
    last               \* the order the last step decided on, or None

vars == <<now, phase, left, file, scan, cash, held, broker, open, hot,
          orders, lossHit, exited, down, faults, last>>
market == <<now, exited, down>>
books == <<cash, held, orders, lossHit>>

\* The verdicts of EntryDecision on the evidence.  Not GREEN is let through only
\* as mean reversion; V2.5 needs confluence besides.
Convincing(ev) == ev.signal # None /\ StackDecision(ev) # "block"
Accepted(ev) ==
    /\ Convincing(ev)
    /\ Quality(ev) = "GREEN" \/ MeanReverting(ev)
    /\ ev.signal.source = "v3" \/ MeanReverting(ev) \/ ev.confluent
    /\ ~(PolicyApplies(ev) /\ PolicyMultiplier = 0)

\* What the frames show, with the verdicts, worked out once.
Evidence == {EvidenceOf(p[1], p[2]) : p \in {<<f, Sight(f)>> : f \in Frames}}
Cases == {[ev |-> ev, convincing |-> Convincing(ev), accepted |-> Accepted(ev)] : ev \in Evidence}

\* Bars of whole cents lead to whole distances, and no stop is at zero or above the price.
ASSUME FramesAssumption ==
    /\ IsFiniteSet(Tickers)
    /\ \A ev \in Evidence :
          /\ ev.stop \in 1..Price /\ ev.age \in Nat
          /\ ev.atr \in Nat \cup {None} /\ ev.correlation \in Int \cup {None}

Flat == [t \in Tickers |-> 0]
Position == [qty : Nat \ {0}, stop : 1..Price]
ASSUME NoneAssumption == None \notin Position
Held == {t \in Tickers : held[t] # None}
Shares(positions) == [t \in Tickers |-> IF positions[t] = None THEN 0 ELSE positions[t].qty]

\* What a share costs, and an order of the broker.  Positions are saved at this
\* cost, and the equity the gates read counts them at it.
FillPrice == Price + Slippage
Cost(qty) == FillPrice * qty + Fee
Count(shares, S) == MapThenSumSet(LAMBDA t : shares[t], S)
Value(shares, S) == FillPrice * Count(shares, S)
Equity == cash + Value(Shares(held), Tickers)

TypeOK ==
    /\ now \in 0..MaxTime /\ left \in 0..MaxSymbols /\ scan \in Nat
    /\ phase \in {"idle", "scan", "trade"}
    /\ file \in Seq([ticker : Tickers, at : Int, scan : Nat])
    /\ cash \in Nat
    /\ held \in [Tickers -> Position \cup {None}]
    /\ broker.cash \in Nat /\ broker.shares \in [Tickers -> Nat]
    /\ {open, exited, down} \subseteq SUBSET Tickers
    /\ hot \in BOOLEAN /\ lossHit \in BOOLEAN
    /\ orders \in Nat /\ faults \in 0..MaxFaults

\* The file is yesterday's.
Init ==
    /\ now = 0 /\ phase = "idle" /\ left = 0
    /\ scan = 0 /\ file = <<[ticker |-> Yesterday, at |-> -MaxCandidateAge, scan |-> 0]>>
    /\ cash = Cash /\ held = [t \in Tickers |-> None]
    /\ broker = [cash |-> 0, shares |-> Flat]
    /\ open = {} /\ hot = FALSE
    /\ orders = 0 /\ lossHit = FALSE /\ exited = {} /\ down = {}
    /\ faults = 0 /\ last = None

\* compute_portfolio_heat: the slippage of every position, and the way to the
\* stop of those that are down.
Losses(positions, S) == MapThenSumSet(LAMBDA t : positions[t].qty * positions[t].stop, S)
Lost(positions) ==
    Losses(positions, {t \in down : positions[t] # None})
    + Slippage * Count(Shares(positions), Tickers)

\* _calculate_portfolio_heat, against its limit
Hot(positions, money) ==
    /\ Lost(positions) > 0
    /\ Lost(positions) * 100 >= HeatShare * (money + Value(Shares(positions), Tickers))

\* With nothing else in the portfolio there is no pair to be correlated.
Correlation(t, ev) == IF Held \subseteq {t} THEN None ELSE ev.correlation

-----------------------------------------------------------------------------
(* run_scan                                                                *)

\* A file that cannot be removed is left as it is.
BeginScan ==
    /\ phase = "idle" /\ scan < MaxScans
    /\ phase' = "scan" /\ left' = MaxSymbols /\ scan' = scan + 1
    /\ \/ file' = <<>> /\ UNCHANGED faults
       \/ file # <<>> /\ faults < MaxFaults /\ faults' = faults + 1 /\ UNCHANGED file
    /\ open' = Held /\ hot' = Hot(held, cash)
    /\ last' = None
    /\ UNCHANGED <<books, broker, market>>

Approves(t, c) ==
    /\ c.convincing /\ t \notin open
    /\ RiskSize(Equity, hot, c.ev, Correlation(t, c.ev)) > 0

\* write_candidates_jsonl: the rows of the file and the new one, as a new file.
Written(t, ev) == Append(file, [ticker |-> t, at |-> now - ev.age, scan |-> scan])

Emit(t, c) ==
    IF Approves(t, c)
    THEN file' = Written(t, c.ev) /\ open' = open \cup {t}
    ELSE UNCHANGED <<file, open>>

ScanSymbol(t, c) ==
    /\ phase = "scan" /\ left > 0 /\ left' = left - 1
    /\ Emit(t, c)
    /\ UNCHANGED <<phase, scan, hot, broker, books, market, faults, last>>

\* The list ends, or the deadline passes between two symbols.
EndScan ==
    /\ phase = "scan" /\ phase' = "idle" /\ left' = 0
    /\ open' = {} /\ hot' = FALSE
    /\ UNCHANGED <<file, scan, broker, books, market, faults, last>>

-----------------------------------------------------------------------------
(* run_paper_trade                                                         *)

\* Variant: the broker of a run starts from the configured cash.
BeginTradeAnew ==
    /\ phase = "idle"
    /\ phase' = "trade" /\ left' = MaxSymbols
    /\ broker' = [cash |-> Cash, shares |-> Shares(held)]
    /\ open' = Held /\ hot' = Hot(held, cash)
    /\ UNCHANGED <<file, scan, books, market, faults, last>>

BeginTrade ==
    /\ phase = "idle"
    /\ phase' = "trade" /\ left' = MaxSymbols
    /\ broker' = [cash |-> cash, shares |-> Shares(held)]
    /\ open' = Held /\ hot' = Hot(held, cash)
    /\ UNCHANGED <<file, scan, books, market, faults, last>>

\* read_candidate: the first row of the ticker, or None.
Candidate(t) ==
    LET rows == SelectSeq(file, LAMBDA row : row.ticker = t)
    IN IF rows = <<>> THEN None ELSE Head(rows)
Stale(t) == Candidate(t) # None /\ now - Candidate(t).at > MaxCandidateAge

OrderLimitHit == orders >= MaxDailyOrders

Shut(t) == Stale(t) \/ lossHit \/ OrderLimitHit \/ t \in open \/ t \in exited

\* Variant: what is about to be bought is not counted.
SectorFullBefore(t, pending) ==
    /\ SectorShare < 100 /\ Held # {} /\ SectorOf[t] # None
    /\ LET peers == {u \in Held : SectorOf[u] = SectorOf[t]}
       IN Value(Shares(held), peers) * 100 > SectorShare * Equity

\* _sector_concentration_exceeded, which lets the first position in unasked.
SectorFull(t, pending) ==
    /\ SectorShare < 100 /\ Held # {} /\ SectorOf[t] # None
    /\ LET peers == {u \in Held : SectorOf[u] = SectorOf[t]}
       IN (Value(Shares(held), peers) + pending) * 100 > SectorShare * Equity

\* The shares the gates and multipliers leave; 0 is a refusal.
Decided(t, c) ==
    IF Shut(t) \/ ~c.accepted \/ c.ev.allocation = 0 THEN 0
    ELSE LET size == RiskSize(Equity, hot, c.ev, Correlation(t, c.ev))
             final == FinalSize(size, c.ev)
         IN IF size = 0 \/ SectorFull(t, Price * final) \/ broker.cash < Cost(final)
            THEN 0 ELSE final

\* Variant: the ticker counts as open before the order is submitted.
SubmittedOpen(t, ev, decided) == IF t \in open \cup {t} THEN 0 ELSE decided

\* submit_signal_as_order sizes the order once more, without the correlation.
Submitted(t, ev, decided) ==
    IF t \in open THEN 0 ELSE Min({decided, RiskSize(Equity, hot, ev, None)})

\* _portfolio_state_from_broker: whatever the broker holds and the portfolio
\* does not, takes the cost and the stop of this signal.
FromBroker(shares, ev) ==
    [t \in Tickers |->
        IF shares[t] = 0 THEN None
        ELSE [qty |-> shares[t], stop |-> IF held[t] # None THEN held[t].stop ELSE ev.stop]]

Filled(t, qty) ==
    [cash |-> broker.cash - Cost(qty), shares |-> [broker.shares EXCEPT ![t] = @ + qty]]

Order(t, ev, decided, filled) ==
    [ticker |-> t, ev |-> ev, decided |-> decided, filled |-> filled, equity |-> Equity,
     paid |-> IF filled = 0 THEN 0 ELSE Cost(filled)]

\* The fill is in the stores: the portfolio, the open tickers and the heat are anew.
Record(t, ev) ==
    /\ cash' = broker'.cash /\ held' = FromBroker(broker'.shares, ev)
    /\ open' = open \cup {t} /\ orders' = orders + 1 /\ exited' = {}
    /\ hot' = Hot(held', cash')
    /\ UNCHANGED faults

\* The fill transaction fails: the broker keeps the shares, the run goes on.
LoseRecord ==
    /\ faults < MaxFaults /\ faults' = faults + 1
    /\ orders' \in {orders, orders + 1}
    /\ UNCHANGED <<cash, held, open, hot, exited>>

Trade(t, c) ==
    /\ phase = "trade" /\ left > 0 /\ left' = left - 1
    /\ LET decided == Decided(t, c)
           filled == Submitted(t, c.ev, decided)
       IN /\ last' = IF decided = 0 THEN None ELSE Order(t, c.ev, decided, filled)
          /\ IF filled = 0
             THEN UNCHANGED <<cash, held, broker, open, orders, exited, hot, faults>>
             ELSE broker' = Filled(t, filled) /\ (Record(t, c.ev) \/ LoseRecord)
    /\ UNCHANGED <<now, phase, file, scan, lossHit, down>>

EndTrade ==
    /\ phase = "trade" /\ phase' = "idle" /\ left' = 0
    /\ broker' = [cash |-> 0, shares |-> Flat]
    /\ open' = {} /\ hot' = FALSE /\ last' = None
    /\ UNCHANGED <<file, scan, books, market, faults>>

-----------------------------------------------------------------------------
(* Between the runs                                                        *)

Tick ==
    /\ phase = "idle" /\ now < MaxTime
    /\ now' = now + 1 /\ exited' = {}
    /\ down' \in SUBSET Tickers
    /\ UNCHANGED <<phase, left, file, scan, broker, books, open, hot, faults, last>>

\* Left out: an exit whose fee its proceeds and the cash do not pay.
Exit(t) ==
    /\ phase = "idle" /\ t \in Held
    /\ held' = [held EXCEPT ![t] = None]
    /\ LET loss == IF t \in down THEN held[t].stop ELSE 0
       IN cash' = cash + (held[t].qty * (Price - loss - Slippage) - Fee)
    /\ cash' >= 0
    /\ exited' = exited \cup {t}
    /\ lossHit' \in {lossHit, TRUE}
    /\ UNCHANGED <<now, phase, left, file, scan, broker, open, hot, orders, down, faults, last>>

Next ==
    \/ BeginScan \/ EndScan \/ BeginTrade \/ EndTrade \/ Tick
    \/ \E t \in Tickers, c \in Cases : ScanSymbol(t, c) \/ Trade(t, c)
    \/ \E t \in Tickers : Exit(t)

Spec == Init /\ [][Next]_vars

-----------------------------------------------------------------------------
(* Properties                                                              *)

Bought == {t \in Tickers : held[t] = None /\ held'[t] # None}

\* However often the multipliers of an order are rounded up to one share, it
\* risks no more than the share of the equity one trade may, over the distance
\* it was sized by.  What it takes from the broker may exceed the share of one
\* ticker, for the size goes by the quote and no gate counts what the fill costs
\* besides: by the slippage and the fee of the order, and by nothing else.
OrderWithinBudget ==
    last # None =>
        /\ last.filled * Distance(last.ev) * 100 <= RiskShare * last.equity
        /\ last.paid * 100 <= TickerShare * last.equity + (last.filled * Slippage + Fee) * 100

\* What the gates of run_paper_trade approved is what order_manager submits:
\* its second evaluation neither refuses nor cuts the order.
DecisionStands == last # None => last.filled = last.decided

\* The limits a run reads at its start hold through all its fills: buys of one
\* sector, one after the other, stay within its share, but for the slippage of
\* the last, as long as every fill reached the stores; no fill leaves the next one to a heat it has itself pushed
\* past the limit; the day has no more BUY rows than allowed, runs and failed
\* fills together.
SectorHeld(t) ==
    LET peers == {u \in Tickers : SectorOf[u] = SectorOf[t]}
    IN  faults' = 0 /\ SectorOf[t] # None =>
            Value(Shares(held'), peers) * 100 <=
                SectorShare * Equity + held'[t].qty * Slippage * 100
LimitsHeld ==
    [][ /\ \A t \in Bought : SectorHeld(t)
        /\ Bought # {} => ~Hot(held, cash)
        /\ orders' <= MaxDailyOrders ]_vars

\* While every fill reached the stores, the paper broker of a run and the
\* portfolio it is copied into after each fill hold the same.
BrokerIsPortfolio ==
    phase = "trade" /\ faults = 0 => broker = [cash |-> cash, shares |-> Shares(held)]
=============================================================================
