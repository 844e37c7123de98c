---------------------------- MODULE PairedShadow ----------------------------
(***************************************************************************)
(* The paired shadow ledgers of a running canary (shadow.py) and how a     *)
(* trading cycle feeds them (runtime_canary.py).                           *)
(*                                                                         *)
(* Every live fill is first a committed row of the orders table, then a    *)
(* line of the baseline ledger's file, then a line of the candidate's, and *)
(* at last the saved portfolio.  A crash may come between any two, or tear *)
(* the line being written; the next cycle loads both files and replays     *)
(* every row.  Cash, fees and P&L are left out: which SELLs count, and     *)
(* which close a position, is not.                                         *)
(***************************************************************************)
EXTENDS Naturals, Sequences

CONSTANTS
    Tickers,
    MaxQuantity,  \* bound: shares bought by the unmodified (baseline) policy
    MaxOrders,    \* bound: rows of the orders table
    MaxDeaths,    \* bound: process deaths
    MaxTears,     \* bound: deaths that leave half a line behind
    MaxFailures   \* bound: fills whose transaction fails after the row

ASSUME ShadowAssumption ==
    {MaxQuantity, MaxOrders, MaxDeaths, MaxTears, MaxFailures} \subseteq Nat

VARIABLES
    orders,   \* the tagged rows, oldest first; a row's index is its id
    file,     \* the lines of each ledger's shadow-fills.jsonl
    torn,     \* does a file end in half a line?
    book,     \* the ledgers in the memory of the running cycle
    account,  \* the quantities in the saved portfolio
    pc,       \* what the cycle is doing
    row,      \* the row being recorded
    snapshot, \* what the last record_canary_snapshot saved
    deaths, tears, failures

shadowVars == <<orders, file, torn, book, account, pc, row, snapshot, deaths, tears, failures>>
faults == <<deaths, tears, failures>>

Ledgers == {"baseline", "candidate"}
Ids == 1..MaxOrders
Quantities == 1..MaxQuantity
Held == 0..MaxQuantity * MaxOrders

\* An orders row: a BUY carries both sizes, a SELL the candidate's alone.
Row == [side : {"BUY", "SELL"}, ticker : Tickers, candidate : Quantities, baseline : 0..MaxQuantity]

\* shadow.ShadowFill, and a line json.loads rejects.
Fill == [id : Ids, side : {"BUY", "SELL"}, ticker : Tickers, quantity : Nat]
Garbled == [id |-> 0]

\* closed: realized SELLs (metrics().trades); completed: positions sold to zero.
Book == [held : [Tickers -> Held], closed : 0..MaxOrders, completed : 0..MaxOrders,
         ids : SUBSET Ids]
EmptyBook == [held |-> [t \in Tickers |-> 0], closed |-> 0, completed |-> 0, ids |-> {}]
NoBooks == [l \in Ledgers |-> EmptyBook]

Recording == {"replay baseline", "replay candidate", "baseline", "candidate"}

ShadowTypeOK ==
    /\ orders \in Seq(Row) /\ Len(orders) <= MaxOrders
    /\ file \in [Ledgers -> Seq(Fill \cup {Garbled})]
    /\ torn \in [Ledgers -> BOOLEAN]
    /\ book \in [Ledgers -> Book]
    /\ account \in [Tickers -> 0..MaxQuantity]
    /\ pc \in {"idle", "trading", "save"} \cup Recording
    /\ row \in 1..MaxOrders + 1
    /\ snapshot \in [trades : 0..MaxOrders, diverged : BOOLEAN]
    /\ deaths \in 0..MaxDeaths
    /\ tears \in 0..MaxTears
    /\ failures \in 0..MaxFailures

ShadowInit ==
    /\ orders = <<>>
    /\ file = [l \in Ledgers |-> <<>>]
    /\ torn = [l \in Ledgers |-> FALSE]
    /\ book = NoBooks
    /\ account = [t \in Tickers |-> 0]
    /\ pc = "idle"
    /\ row = 1
    /\ snapshot = [trades |-> 0, diverged |-> FALSE]
    /\ deaths = 0
    /\ tears = 0
    /\ failures = 0

-----------------------------------------------------------------------------
(* A ledger                                                                *)

Least(m, n) == IF m <= n THEN m ELSE n

\* Variant: the operation ids are kept but never looked at.
AppliedNever(b, fill) == fill.quantity = 0

Applied(b, fill) == fill.quantity = 0 \/ fill.id \in b.ids

\* _record_in_memory, and the in-memory half of record.
Apply(b, fill) ==
    LET held == b.held[fill.ticker]
        sold == Least(fill.quantity, held)
    IN IF Applied(b, fill) THEN b
       ELSE IF fill.side = "BUY"
       THEN [b EXCEPT !.ids = @ \cup {fill.id}, !.held[fill.ticker] = @ + fill.quantity]
       ELSE [held      |-> [b.held EXCEPT ![fill.ticker] = @ - sold],
             closed    |-> b.closed + (IF sold > 0 THEN 1 ELSE 0),
             completed |-> b.completed + (IF held > 0 /\ sold = held THEN 1 ELSE 0),
             ids       |-> b.ids \cup {fill.id}]

\* _load_state: lines that do not parse are skipped.
Read(b, line) == IF line = Garbled THEN b ELSE Apply(b, line)
Load(lines) ==
    LET after[k \in 0..Len(lines)] == IF k = 0 THEN EmptyBook ELSE Read(after[k - 1], lines[k])
    IN after[Len(lines)]

\* _append_line: a line written after half a line is lost with it.
WithLine(l, line) ==
    /\ file' = [file EXCEPT ![l] = IF torn[l] THEN @ ELSE Append(@, line)]
    /\ torn' = [torn EXCEPT ![l] = FALSE]

\* Variant: the line is not appended.
RecordInMemory(l, fill) ==
    /\ book' = [book EXCEPT ![l] = Apply(@, fill)]
    /\ UNCHANGED <<file, torn>>

\* ShadowLedger.record
Record(l, fill) ==
    IF Applied(book[l], fill)
    THEN UNCHANGED <<book, file, torn>>
    ELSE /\ book' = [book EXCEPT ![l] = Apply(@, fill)]
         /\ WithLine(l, fill)

-----------------------------------------------------------------------------
(* The pair                                                                *)

\* Python's round: to the nearest, halves to even.
Round(n, d) ==
    LET q == n \div d
        r == n % d
    IN IF 2 * r < d THEN q
       ELSE IF 2 * r > d THEN q + 1
       ELSE IF q % 2 = 0 THEN q ELSE q + 1

\* Variant: the baseline sells as many shares as the candidate.
BaselineQuantitySame(books, r) ==
    IF r.side = "BUY" THEN r.baseline
    ELSE IF books["candidate"].held[r.ticker] = 0 THEN 0 ELSE r.candidate

\* record_exit sells the same fraction of the baseline position.
BaselineQuantity(books, r) ==
    LET held(l) == books[l].held[r.ticker]
    IN IF r.side = "BUY" THEN r.baseline
       ELSE IF held("candidate") = 0 THEN 0
       ELSE Round(held("baseline") * r.candidate, held("candidate"))

FillOf(r, id, quantity) ==
    [id |-> id, side |-> r.side, ticker |-> r.ticker, quantity |-> quantity]

QuantityOf(l, books, r) == IF l = "baseline" THEN BaselineQuantity(books, r) ELSE r.candidate

\* The ledgers once the first k rows were recorded exactly once, in order.
Recorded(books, r, id) ==
    [l \in Ledgers |-> Apply(books[l], FillOf(r, id, QuantityOf(l, books, r)))]
Ideal(rows) ==
    LET after[k \in 0..Len(rows)] ==
            IF k = 0 THEN NoBooks ELSE Recorded(after[k - 1], rows[k], k)
    IN after

-----------------------------------------------------------------------------
(* A trading cycle                                                         *)

\* PairedShadowHarness: one ledger each, as its file tells.
Harness == [l \in Ledgers |-> Load(file[l])]

\* begin_runtime_canary builds the harness from its files, then reconciles.
Begin ==
    /\ pc = "idle"
    /\ book' = Harness
    /\ row' = 1
    /\ pc' = IF orders = <<>> THEN "trading" ELSE "replay baseline"
    /\ UNCHANGED <<orders, file, torn, account, snapshot, faults>>

Writing(l) ==
    pc \in IF l = "baseline" THEN {"replay baseline", "baseline"}
          ELSE {"replay candidate", "candidate"}
Pending(l) == FillOf(orders[row], row, QuantityOf(l, book, orders[row]))

\* The first half of record_entry or record_exit.
RecordBaseline ==
    /\ Writing("baseline")
    /\ Record("baseline", Pending("baseline"))
    /\ pc' = IF pc = "baseline" THEN "candidate" ELSE "replay candidate"
    /\ UNCHANGED <<orders, account, row, snapshot, faults>>

RecordCandidate ==
    /\ Writing("candidate")
    /\ Record("candidate", Pending("candidate"))
    /\ \/ pc = "candidate" /\ pc' = "save" /\ UNCHANGED row
       \/ pc # "candidate" /\ row = Len(orders) /\ pc' = "trading" /\ UNCHANGED row
       \/ pc # "candidate" /\ row < Len(orders) /\ pc' = "replay baseline" /\ row' = row + 1
    /\ UNCHANGED <<orders, account, snapshot, faults>>

\* The row is committed before the shadow hears of the fill.
Commit(r) ==
    /\ pc = "trading"
    /\ Len(orders) < MaxOrders
    /\ orders' = Append(orders, r)
    /\ row' = Len(orders) + 1
    /\ pc' = "baseline"
    /\ UNCHANGED <<file, torn, book, account, snapshot, faults>>

\* The entry policy scales down, never below one share; a held ticker is not bought.
Entry(t) ==
    /\ account[t] = 0
    /\ \E b \in Quantities : \E c \in 1..b :
          Commit([side |-> "BUY", ticker |-> t, candidate |-> c, baseline |-> b])

Exit(t) ==
    \E k \in 1..account[t] :
        Commit([side |-> "SELL", ticker |-> t, candidate |-> k, baseline |-> 0])

\* The portfolio is saved when the transaction has run.
Save ==
    /\ pc = "save"
    /\ LET r == orders[row] IN
       account' = [account EXCEPT ![r.ticker] =
                      IF r.side = "BUY" THEN @ + r.candidate ELSE @ - r.candidate]
    /\ pc' = "trading"
    /\ UNCHANGED <<orders, file, torn, book, row, snapshot, faults>>

\* sql_persist or the strategy tracker raises: the caller goes on to the next ticker.
FillFails ==
    /\ pc = "baseline"
    /\ failures < MaxFailures
    /\ failures' = failures + 1
    /\ pc' = "trading"
    /\ UNCHANGED <<orders, file, torn, book, account, row, snapshot, deaths, tears>>

\* closed_trade_counts_match, on the sales each ledger has counted.
CountsMatch == book["candidate"].closed = book["baseline"].closed

\* finish_runtime_canary: record_canary_snapshot, and the process may exit.
FinishCycle ==
    /\ pc = "trading"
    /\ snapshot' = [trades   |-> book["candidate"].closed,
                    diverged |-> ~CountsMatch]
    /\ book' = NoBooks
    /\ pc' = "idle"
    /\ row' = 1
    /\ UNCHANGED <<orders, file, torn, account, faults>>

Died ==
    /\ book' = NoBooks
    /\ pc' = "idle"
    /\ row' = 1
    /\ UNCHANGED <<orders, account, snapshot, failures>>

Die ==
    /\ pc # "idle"
    /\ deaths < MaxDeaths
    /\ deaths' = deaths + 1
    /\ Died
    /\ UNCHANGED <<file, torn, tears>>

\* The process dies inside an append and leaves half a line.
Tear(l) ==
    /\ Writing(l)
    /\ ~Applied(book[l], Pending(l))
    /\ tears < MaxTears
    /\ tears' = tears + 1
    /\ file' = [file EXCEPT ![l] = IF torn[l] THEN @ ELSE Append(@, Garbled)]
    /\ torn' = [torn EXCEPT ![l] = TRUE]
    /\ Died
    /\ UNCHANGED deaths

ShadowNext ==
    \/ Begin
    \/ RecordBaseline
    \/ RecordCandidate
    \/ \E t \in Tickers : Entry(t) \/ Exit(t)
    \/ Save
    \/ FillFails
    \/ FinishCycle
    \/ Die
    \/ \E l \in Ledgers : Tear(l)

ShadowSpec == ShadowInit /\ [][ShadowNext]_shadowVars
-----------------------------------------------------------------------------
(* Properties                                                              *)

\* A row sold what the candidate did not hold: the portfolio missed an earlier row.
Oversold ==
    \E n \in DOMAIN orders :
        /\ orders[n].side = "SELL"
        /\ orders[n].candidate > Ideal(orders)[n - 1]["candidate"].held[orders[n].ticker]

Undisturbed == tears = 0 /\ failures = 0 /\ ~Oversold

(***************************************************************************)
(* _reconcile_durable_orders "backfills the missing rows so the harness    *)
(* state matches the durable ledger": once a cycle trades, both ledgers    *)
(* are what one uninterrupted run would have made of the committed rows.   *)
(***************************************************************************)
BooksMatchOrders == pc = "trading" => book = Ideal(orders)[Len(orders)]

(***************************************************************************)
(* The same after any crash between two steps, as long as no line was      *)
(* torn, no transaction failed half-way and no row sold shares twice.      *)
(***************************************************************************)
UndisturbedBooksMatch == Undisturbed => BooksMatchOrders

(***************************************************************************)
(* A pair opens and closes together: proportional exits, rounded on the    *)
(* baseline side, never leave one ledger with shares and the other         *)
(* without, and realize equally many SELLs (record_exit; so                *)
(* closed_trade_counts_match is no false alarm).                           *)
(***************************************************************************)
PairsCloseTogether ==
    Undisturbed /\ pc = "trading" =>
        /\ \A t \in Tickers :
              book["candidate"].held[t] = 0 <=> book["baseline"].held[t] = 0
        /\ book["candidate"].closed = book["baseline"].closed
        /\ book["candidate"].completed = book["baseline"].completed

(***************************************************************************)
(* The files always load to what the running cycle has in memory, unless a *)
(* line was torn (_load_state against record and _append_line).            *)
(***************************************************************************)
FreshLedgerRebuilds ==
    pc # "idle" /\ tears = 0 => \A l \in Ledgers : Load(file[l]) = book[l]

=============================================================================
