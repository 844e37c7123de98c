------------------------- MODULE SimulatedExchange -------------------------
(***************************************************************************)
(* SimulatedExecutionHandler (src/event_engine/execution.py): MARKET,      *)
(* LIMIT, STOP and ICEBERG orders against the bars of one symbol, the book *)
(* of resting orders, and process_resting, which a runtime calls with each *)
(* later bar.  Impact, spread and commission change the price of a fill    *)
(* and nothing else: a fill is an order, a quantity and the bar.           *)
(***************************************************************************)
EXTENDS Naturals

CONSTANTS
    Orders,         \* the orders of the run, each submitted at most once
    NoOrder,
    Quantities,     \* sizes an order may ask for
    Levels,         \* price levels of bars, limits and stops
    Volumes,        \* share volumes of a bar
    Participation,  \* a bar fills one share in Participation
    MaxBars         \* bound: bars delivered

ASSUME ExchangeAssumption ==
    /\ Quantities \subseteq Nat \ {0}
    /\ Volumes \subseteq Nat
    /\ Levels \subseteq Nat
    /\ Participation \in Nat \ {0}
    /\ MaxBars \in Nat
    /\ NoOrder \notin Nat

VARIABLES
    order,    \* what each submitted order asks for, NoOrder before
    resting,  \* ids of the resting orders
    ahead,    \* for each, those that already rested when it came: the dict keeps
              \* the order of arrival
    filled,   \* shares each order was filled with, by fills that were returned
    fills,    \* number of fills computed per order, returned or not
    bar,      \* the bar at hand
    bars,     \* bars delivered
    raised    \* did the last call raise?

exchangeVars == <<order, resting, ahead, filled, fills, bar, bars, raised>>

Types == {"MARKET", "LIMIT", "STOP", "ICEBERG"}
Order == [type : Types, side : {"BUY", "SELL"}, quantity : Quantities, price : Levels]
ASSUME NoOrderAssumption == NoOrder \notin Order

Bar == {b \in [low : Levels, high : Levels, volume : Volumes] : b.low <= b.high}

ExchangeTypeOK ==
    /\ order \in [Orders -> Order \cup {NoOrder}]
    /\ resting \subseteq Orders
    /\ ahead \in [Orders -> SUBSET Orders]
    /\ filled \in [Orders -> Nat]
    /\ fills \in [Orders -> Nat]
    /\ bar \in Bar
    /\ bars \in 0..MaxBars
    /\ raised \in BOOLEAN

ExchangeInit ==
    /\ order = [o \in Orders |-> NoOrder]
    /\ resting = {}
    /\ ahead = [o \in Orders |-> {}]
    /\ filled = [o \in Orders |-> 0]
    /\ fills = [o \in Orders |-> 0]
    /\ bar \in Bar
    /\ bars = 0
    /\ raised = FALSE
-----------------------------------------------------------------------------
\* _cap_to_volume: a bar without volume raises; a tiny one fills a single share.
NoLiquidity(b) == b.volume = 0
Cap(b) == IF b.volume \div Participation = 0 THEN 1 ELSE b.volume \div Participation
\* Variant: what is left of the bar.
Capped(b, q) == IF q < Cap(b) THEN q ELSE Cap(b)

LimitCrossed(o, b) == IF o.side = "BUY" THEN b.low <= o.price ELSE b.high >= o.price
StopTriggered(o, b) == IF o.side = "SELL" THEN b.low <= o.price ELSE b.high >= o.price

\* What a call does with one order: it raises, rests, or fills some shares.
Raises == [kind |-> "raise", shares |-> 0]
Rests == [kind |-> "rest", shares |-> 0]
Fill(q) == [kind |-> "fill", shares |-> q]

\* _try_fill_limit, which an ICEBERG order shares.
TryFillLimit(o, b) ==
    IF ~LimitCrossed(o, b) THEN Rests
    ELSE IF NoLiquidity(b) THEN Raises
    ELSE Fill(Capped(b, o.quantity))

ExecuteMarket(o, b) == IF NoLiquidity(b) THEN Raises ELSE Fill(Capped(b, o.quantity))

ExecuteStop(o, b) ==
    IF ~StopTriggered(o, b) THEN Rests
    ELSE IF NoLiquidity(b) THEN Raises
    ELSE Fill(Capped(b, o.quantity))

Executed(o, b) ==
    IF o.type = "MARKET" THEN ExecuteMarket(o, b)
    ELSE IF o.type = "STOP" THEN ExecuteStop(o, b)
    ELSE TryFillLimit(o, b)

\* Variant: a stop that rested is filled without asking for its trigger.
ReconsideredUntriggered(o, b) ==
    IF o.type = "LIMIT" THEN TryFillLimit(o, b)
    ELSE IF o.type = "STOP" THEN Fill(o.quantity)
    ELSE Rests

\* process_resting: a triggered stop fills whole, an ICEBERG order is passed over.
Reconsidered(o, b) ==
    IF o.type = "LIMIT" THEN TryFillLimit(o, b)
    ELSE IF o.type = "STOP" /\ StopTriggered(o, b) THEN Fill(o.quantity)
    ELSE Rests
-----------------------------------------------------------------------------
\* execute_order with the bar at hand.
Submit(id, o) ==
    LET done == Executed(o, bar) IN
    /\ order[id] = NoOrder
    /\ order' = [order EXCEPT ![id] = o]
    /\ raised' = (done.kind = "raise")
    /\ resting' = IF done.kind = "rest" THEN resting \cup {id} ELSE resting
    /\ ahead' = [ahead EXCEPT ![id] = IF done.kind = "rest" THEN resting ELSE {}]
    /\ filled' = [filled EXCEPT ![id] = @ + done.shares]
    /\ fills' = [fills EXCEPT ![id] = @ + (IF done.kind = "fill" THEN 1 ELSE 0)]
    /\ UNCHANGED <<bar, bars>>

\* The resting orders that make process_resting raise when it comes to them.
RaisingIds(b) == {id \in resting : Reconsidered(order[id], b).kind = "raise"}

\* The orders process_resting fills, and pops, before it returns or raises.
FilledIds(b) ==
    {id \in resting :
        /\ Reconsidered(order[id], b).kind = "fill"
        /\ ahead[id] \cap RaisingIds(b) = {}}

\* Variant: a filled order is not popped.
RemainingAll(b) == resting

Remaining(b) == resting \ FilledIds(b)

\* The next bar.  If a later order raises, the fills made so far are not returned.
NextBar(b) ==
    LET returns == RaisingIds(b) = {} IN
    /\ bars < MaxBars
    /\ bars' = bars + 1
    /\ bar' = b
    /\ raised' = ~returns
    /\ resting' = Remaining(b)
    /\ fills' = [id \in Orders |-> fills[id] + (IF id \in FilledIds(b) THEN 1 ELSE 0)]
    /\ filled' = [id \in Orders |->
          IF id \in FilledIds(b) /\ returns
          THEN filled[id] + Reconsidered(order[id], b).shares ELSE filled[id]]
    /\ UNCHANGED <<order, ahead>>

ExchangeNext ==
    \/ \E id \in Orders, o \in Order : Submit(id, o)
    \/ \E b \in Bar : NextBar(b)

ExchangeSpec == ExchangeInit /\ [][ExchangeNext]_exchangeVars
-----------------------------------------------------------------------------
(***************************************************************************)
(* An order is filled at most once, for no more than it asks for, and      *)
(* never again after it left the book: whatever raises in between, no fill *)
(* is made twice (execute_order, process_resting).  One fill is also all   *)
(* it gets: what a bar's volume leaves open of a LIMIT or STOP order is    *)
(* dropped with the first fill.  The docstring of the exchange, execution  *)
(* .py:290-295, says otherwise: an order that didn't fully fill on its     *)
(* first tick rests, until it is filled, rejected or cancelled.            *)
(***************************************************************************)
FilledOnce ==
    \A id \in Orders :
        /\ fills[id] <= 1
        /\ fills[id] = 1 => id \notin resting
        /\ order[id] # NoOrder => filled[id] <= order[id].quantity

(***************************************************************************)
(* A resting order leaves the book only on a bar that reaches its price,   *)
(* and its fill reaches the caller unless that same bar made a later       *)
(* order of the book raise for want of volume.                             *)
(***************************************************************************)
LeavesBookFilled ==
    [][\A id \in resting : id \notin resting' =>
          /\ IF order[id].type = "STOP" THEN StopTriggered(order[id], bar')
             ELSE LimitCrossed(order[id], bar')
          /\ filled'[id] > 0 \/ (raised' /\ bar'.volume = 0 /\ order[id].type = "STOP")]_exchangeVars
=============================================================================
