# Verification of the autonomous trading agent

TLA+ modules, TLC runs and TLAPS proofs for the stateful core of the repository:
the stores that a fill must reach, the desk that manages positions under a kill
switch, the tuning experiments with their canary and shadow ledgers, the scripts
around them, and the two backtest engines. Paths are relative to `src/`;
`learning/`, `runtime/`, ... stand for `trading_bot/learning/`, ...

## 1. The system

A paper-trading bot scans tickers, buys what its policy chain approves, manages
the open positions and sells them. Every night it may propose one change to its
own parameters, try it on the live loop as a *canary*, and keep it or roll it
back. All processes are Python programs and shell loops that share files and one
SQLite database; nothing locks across them beyond a single statement,
`os.replace` or the lock directory of one script.

| component | state | operations | hard behaviour |
|---|---|---|---|
| Experiment controller (`learning/experiments/controller.py`) | `current.json`, `<id>/` snapshots, `archived/<id>/`, the live `tuning_overrides.yaml` | propose, evaluate, rollback, finalize_terminal | every operation is several file writes; a crash, an operator or a cycle may come between any two |
| Runtime canary (`runtime_canary.py`) | a copy of the experiment state for one cycle | begin, record_entry, record_exit, snapshot, invalidate, finish | the copy is written back whole; failures roll the experiment back from inside a trade |
| Paired shadow ledgers (`shadow.py`) | two JSONL files, replayed in memory | record, load | two appends per fill, torn lines, rows applied on one side, rounding |
| Fill transaction, trade run, management run (`runtime/fill_transaction.py`, `orchestrator.py`, `position_exit.py`) | the portfolio loaded once, an in-memory broker | buy, sell, partial exit, save | the steps reach different stores, nothing compensates |
| Continuous loop, `run-manager`, safety gate (`continuous_loop.py`, `cli/app.py`, `safety/`) | saved portfolio, kill switch, orders, equity history | trade, manage, halt, resume, reset | stale copies in two processes, breakers asked once a pass |
| Entry pipeline (`orchestrator.py`, `strategy/`, `risk/`) | candidates file, broker of the run, limits read at its start | scan, trade | multipliers and roundings, limits between two symbols |
| Worker swarm (`swarm/`) | shared results, worker states | dispatch, collect, aggregate | pool threads, retries, reuse of the workers |
| Market data (`data/`) | cache files with lifetimes | fetch, put, clean up, evict | late puts, one directory for all callers, frames that lose their times |
| Burn-in script (`scripts/auto-burn-in.sh`) | marker files, lock directory, pid files | loop, watchdog | two shells, `set -e`, kills between any two commands |
| Event queue (`event_engine/queue.py`) | heap, known ids, flag, semaphore | put, get, poison, join | threads between two lock sections |
| Event engine (`event_engine/`) | data cursors, portfolio, resting orders | run, fills, process_resting | ids, reversals, borrow fees, errors in the middle of a bar |
| Historical backtest (`backtest/`) | broker, trade records, windows | replay, walk forward | two accounts of one history, shared boundary days |

`PROJECT.json` lists every component, modelled or not with the reason, and every
hazard with the line where it bites.

The continuous loop begins the canary, runs the trade run and then the
management run with the same context, and finishes the canary in a `finally`.
Both runs end each fill in a fill transaction: orders row, SQL tables, (for a
BUY) the strategy tracker, the shadow ledgers, and then, outside the
transaction, the saved portfolio. The burn-in script calls the same management
as a command, and runs `evaluate` and then `propose` at night.

## 2. Modules

```
ExperimentPromise <- ExperimentLifecycle    controller + canary + operator (refinement)
PairedShadow                                ledgers, reconciliation, the fills of a cycle
PaperTrading                                two runs and the stores of one fill
TradingDesk                                 loop + command + operator over one ledger
Indicators <- SignalEvidence -> EntryDecision   pure: frames -> evidence -> shares
        TradePipeline                       scan and trade over that decision
MarketData    BurnIn    Swarm               cache, script, committee
EventQueue    SimulatedExchange             the queue's threads, the book of orders
BacktestEngine    HistoricalBacktest        the two engines
```

`MC...` modules hold model values, and the symmetry of those that declare it, only
(a run without either checks the module itself); `...Proofs` modules hold
the theorems of section 4 (`ExperimentProofs` those of `ExperimentLifecycle` and
`PairedShadow`, `LedgerProofs` those of `TradingDesk` and `BacktestEngine`,
`ThreadProofs` those of `EventQueue` and `Swarm`, `MarketProofs` those of
`MarketData`, `SimulatedExchange` and `HistoricalBacktest`), and `SetSums` the
lemmas about sums that they share. Every module's header says what it takes from the
code, and `map` in `PROJECT.json` gives the lines of each definition.

**ExperimentLifecycle.** `overrides`, `cur`, `snap`, `archived` are the files,
`proc` the controller command and the cycle that may be running with what each
holds in memory, `shadow` and `position` what the ledgers count. Actions are the
writes of the code in their order (`ProposeSnapshot`, `Arm`, `Activate`,
`RestoreBaseline`, `SaveTerminal`, `MoveState`, ...), and `Crash`,
`EditOverrides`, `EditCandidate`. Verdicts and metrics are any that `_decide` can
give for the counts at hand. `Overlap` says whether a command may run during a
cycle. The script runs `evaluate`, `propose` and the cycles that record fills one
after the other in its main loop, so the run and the theorems take FALSE. What
overlaps all the same is outside them: a rollback typed by hand during a cycle, a
tuning that is under way at 15:55 or later (a late start, a hang), where the
watchdog's `manage-positions`, a canary cycle too, may meet it, and a tuning beside
the commands that a killed script left running.

**PairedShadow.** The orders rows of one canary, both files, both books in
memory and the saved quantities. A fill is four steps (row, baseline side,
candidate side, portfolio); `Begin` reloads and replays; `Die`, `Tear` and
`FillFails` may come anywhere. `Ideal(orders)[k]` is the reference: the first k
rows, each recorded once and in order.

**PaperTrading.** `bought`, `sold` (orders), `db` (open SQL positions), `saved`
(`portfolio_state`), and per run the portfolio and broker in memory. `Buy` and
`Sell` submit; `RecordFill`, `PersistSql`, `TrackEntry`, `SaveFill`,
`ProtectRemainder` are the stores of a fill; `StepFails` is the per-ticker
`except`, `SqlFailsSilently` the exception `_persist_trade_to_db` swallows.
The two runs interleave freely: from 15:55 the watchdog's `manage-positions`
(`auto-burn-in.sh:915`) holds a lock that `paper-trade` (line 1002) never takes.
`overwritten` collects the tickers with a fill that one run saved over without
having seen it, `interrupted` those with a fill that a failure or a crash cut
short; both are history variables that no action reads.
Prices are one and fees zero: cash is only followed from store to store.

**TradingDesk.** Both processes load a copy and go through their tickers
(`Look`): stop, partial profit, other exits, trailing, in the order of the code,
with a save of the whole copy after each. The operator halts, resumes and resets
at any time; a price moves by one level.

**EntryDecision, SignalEvidence, Indicators** are functions, one operator per
rule, over bars and scores in integers; **TradePipeline** calls them per symbol
inside `run_scan` and `run_paper_trade` with sector, heat, cooldown and order
limits, the candidates file and its age, and the copy of the broker into the
portfolio. Sizes and the sector check go by the quote (`Price`), the cash check,
the fill, the saved cost and the equity by the quote and the slippage
(`FillPrice`), a sale by the quote less the slippage. The slippage is a constant:
the dynamic one is switched off in every configuration of the repository.

**Swarm** has the engine's thread and the pool: `Dispatch`, one attempt of a
worker, its store, `BatchDone`, `Aggregate`; a worker computes from the copy of
the results it was started with.

**MarketData.** `Ask`, look into the file, fetch provider by provider, `Put`,
evict, use; `Invalidate`, `ClearExpired` and time run beside it. One SQLite
statement is one step. A pass takes its clock with its first request and judges
the age of every frame by it (`Recent`): five minutes for the exit pass, which
also acts when the age is unknown, `MaxAge` for the command or, while the market
is closed at that clock, `ClosedAge` (a day). Where no provider of a stack has the
interval, yfinance is asked (`Asked`) and its bars are kept under a key without
providers.

**BurnIn.** Each shell's commands in their order, including the lock's `mkdir`,
`echo` and staleness test, and the pass it starts, which outlives its shell. A
day has six slots. `Decide` and `Discover` read the clock one after the other, as
`should_discover` and the main loop do. EOD_FETCH_TIME is taken as 12:00 (the default is 11:30), the
host's clock as Eastern time, process ids are not reused, one burner runs at a
time, no pass lasts past midnight, and one position stands for all.

**EventQueue, SimulatedExchange, BacktestEngine.** A lock section, or a call of
the inner queue or semaphore, is one step of `EventQueue`. The exchange keeps
its book in order of arrival (`ahead`), because a bar that raises half way has
already filled the orders before. `BacktestEngine` drives bars, signals, orders
and fills on one thread, with a shutdown between any two steps. Its money is
counted in parts of a price level (`account.parts`); a fill whose average cost
would fall between two parts cuts each in as many as the cost needs (`Cuts`), so
that no division is rounded. The code's floats and its `_round_money` to four
digits are left out by that.

**HistoricalBacktest.** A replay by daily or intraday bars, alone, over a
training/validation split, or walking forward; a signal is a choice of stop and
target. The split reads the archive, whose daily rows are numbered and not dated
(`Dated`): for its intraday bars every row passes for an earlier day (`Seasoned`).

## 3. Runs

| run | bounds | shows |
|---|---|---|
| `LifecycleNights` | 2 experiments, 1 operator version, 1 fill, crash, edit | three invariants, two action properties, the refinement, every proposal decided |
| `ShadowReconcile` | 1 ticker, 3 shares, 4 rows, 1 crash, 1 torn line, 1 failed fill | undisturbed books match, pairs close together, a reload rebuilds |
| `PaperStores` | 2 tickers, cash for 2 shares, 2 bought of each, 1 failure, 1 crash, both runs at once | the stores agree but where a fill was saved over or cut short; a crash costs one ticker |
| `DeskPasses` | 1 ticker, 4 price levels, 2 losses, 1 failure, two processes | losses after the limit, stops, halts |
| `PipelineEntries` | 2 tickers of one sector, 11 frames, 2 orders a day, slippage and fee, 1 fault | budgets, the second evaluation, broker = portfolio, limits |
| `CommitteeRuns` | all 7 presets, 2 threads, 1 retry, 2 runs | hand-over of results, reproducible decisions, termination |
| `MarketFetches` | 2 processes, 2 providers, 3 intervals, 2 cache rows, 3 requests, 1 clean-up, an open and a closed market | provenance, lifetime and age of bars |
| `BurnInDays` | an evening, a weekday and its night, 2 starts, 1 fault | lock, flat overnight, tuning apart, the EOD pass |
| `QueueThreads` | 2 producers, 2 consumers, bound 1, 2 puts | ids, order, a blocked put |
| `ExchangeOrders` | 3 orders, 2 later bars, volume 0, 1, 4 | one fill per order, what leaves the book |
| `EngineRuns` | 2 symbols with 3 and 2 bars, 2 strategies on both, fresh or used portfolio | conservation of money, termination |
| `BacktestReplays` | 5 days, three shapes of bar, both modes | curve, risk of a trade, windows |

Why the bounds are enough. Two experiments are the fewest for one's candidate to
become another's baseline; one crash or edit may fall at any step, and leaves a
state in which any command may start again. Three shares are the fewest where
rounding to the nearest even, down and up all happen; four rows allow buy,
partial, rest, buy again. Two tickers with cash for two shares let one fill
starve the other, and leave one ticker's failure in the broker when the other is
saved. One ticker in two processes already gives every stale copy, and four
levels hold entry, stop, minimum distance and target apart; two losses and two
processes pass the loss limit. Two symbols of one sector compete for each limit.
Two threads and presets with up to three layers of workers give every hand-over.
Two callers, two rows and one clean-up give each race of look, put and eviction;
two requests of one pass let the second frame be older than its clock says.
Two starts and a fault bring a dead shell's child beside a new script. Two
producers with one id on a queue of one block each other; two consumers overtake.
Two bars after an order let one fill it and the other find it gone. Two symbols
with different ends, and two strategies on both, give reversal, short, partial fill
and the same order id twice; a later call of `run` differs from the first only in
the portfolio it finds, which is why one call from either clock is enough. The nightly run can be small because its properties are proved.

Where a run has `CHECK_DEADLOCK FALSE` its bounds let the system come to rest.
Each bound is a constant named `Max...` (and `Patience`, `Tick`, `Last`,
`FirstSlot`), commented where it is declared.

Each module's `TypeOK` is an invariant of the specification as well; twelve of them
are theorems, and a run spends its properties on what is less evident.

### Fairness

- `ExperimentLifecycle`: a command or cycle that runs takes its next step, and
  the script gets to `evaluate` although cycles keep starting (strong fairness
  of the load, disabled while a cycle runs). Nothing of fills, edits, proposals.
- `EventQueue`: a thread in a call runs on; a consumer calls get again; a getter
  is woken if entries keep coming (strong: others may take them).
- `BacktestEngine`, `Swarm`: the threads take their next step; an attempt of a
  worker that was begun ends (`timeout_seconds` is enforced nowhere).
- `BurnIn`: time passes, and shells go on while they have or want the lock; the
  main loop may hang in anything else.
- `TradingDesk` assumes none: `HaltStopsTheDesk` and `StopHonoured` have the
  passes that must happen in their premises.

## 4. Proofs

For every value of the constants that satisfies the `ASSUME`s of its module:

| module | theorem | assumes | states |
|---|---|---|---|
| `ExperimentProofs` | `TypesHold` | | `TypeOK` |
| | `CandidatesAreOwned`, `BaselineIsKept`, `ArmedBeforeLive` | `~Overlap` | `CandidateNeverOrphaned`, `RollbackAlwaysPossible`, `CandidateLiveIsArmed` |
| | `ArchiveIsFinal`, `KeptAfterGate` | `~Overlap` | `ArchivedIsFinal`, `KeptOnlyAfterGate` |
| | `ImplementsPromise` | `~Overlap` | `KeepsPromise`, the refinement of `ExperimentPromise` |
| | `ShadowTypes`, `LedgersRebuilt`, `BooksFollowOrders`, `PairsClose` | | `ShadowTypeOK`, `FreshLedgerRebuilds`, `UndisturbedBooksMatch`, `PairsCloseTogether` |
| `PaperTradingProofs` | `PaperInvariant`, `PaperTypes`, `CrashesCostOneTicker` | | the inductive invariant, `TypeOK`, `CrashCostsOneTicker` |
| | `StoresTellOneStory` | `PartialMinQuantity > 1` | `StoresAgree` |
| `TradePipelineProofs` | `PipelineTypes`, `OrdersStayWithinBudget`, `ApprovedIsFilled`, `BrokerFollowsPortfolio` | | `TypeOK`, `OrderWithinBudget`, `DecisionStands`, `BrokerIsPortfolio` |
| | `LimitsStayHeld` | `TickerShare <= SectorShare` | `LimitsHeld` |
| `LedgerProofs` | `DeskTypes`, `LossesStayBounded`, `StopsNeverLoosen` | | `TypeOK`, `LossesBounded`, `StopsHold` |
| | `HaltedDeskWindsDown` | | while halted no pass begins, and passes under way only run out |
| | `EngineTypes`, `EngineConserves` | | `EngineTypeOK`, `ValueConserved` |
| | `EngineDrains` | | a run that ends and was not shut down has emptied its queue |
| | `PositionsStayInScale` | | no position is larger than `signal_scale_qty` |
| | `FirstRunTakesFills` | `account.clock = Nothing` | the first run of a portfolio refuses no fill |
| | `LoneStrategiesNeverRaise` | `LoneWatchers` | a run raises only after a shutdown |
| `BurnInProofs` | `BurnInTypes`, `LockExcludes`, `NothingOpenOvernight`, `TuningStaysApart` | | `TypeOK`, `OnePassAtATime`, `FlatOvernight`, `TuningApart` |
| `MarketProofs` | `MarketTypes`, `BarsOfOwnProviders`, `NoBarOutlivesTtl`, `ExitsAreRecent` | | `TypeOK`, `OwnProviders`, `ServedWithinTtl`, `ExitsOnRecentBars` |
| | `ExchangeTypes`, `OrdersFilledOnce`, `BookLeftByFills` | | `ExchangeTypeOK`, `FilledOnce`, `LeavesBookFilled` |
| | `BacktestTypes`, `RiskIsBounded`, `DaysTradedOnce`, `CurveFromRecords` | | `BacktestTypeOK`, `TradeRiskBounded`, `NoDayTradedTwice`, `CurveIsEquity` |
| `ThreadProofs` | `QueueTypes`, `OrdersOnce`, `DropsAreLate` | | `TypeOK`, `OneEventPerOrder`, `DroppedBehindLater` |
| | `SwarmTypes`, `HandoffsComplete`, `DecisionsFollowData` | | `SwarmTypeOK`, `HandoffComplete`, `DecisionsReproducible` |
| | `EveryWorkerEnds` | | at the end each worker finished, failed, or is blocked by one that did not |

`~Overlap` concerns `ExperimentLifecycle` only: with a command during a cycle its
properties fail (hazard at `runtime_canary.py:186`).
The other assumptions are the `ASSUME`s on the constants (numbers are naturals,
`None` is no value, sets that are counted are finite); TLC evaluates them on
every run.

The arguments, by module:

*ExperimentLifecycle.* Whether a restored baseline is legitimate depends on what
a half-finished command holds in memory. `IInv` adds `OneAtATime`,
`ActiveIsOpen` and `ProcessInv(p)`: what a process at each step knows of the state
it keeps. `MoverIsAlone`, `AloneStep` and `Moved` confine a step to the process
that takes it. `KeptAfterGate` needs a second layer, `GateInv`: no copy of the
state counts more sells than the candidate ledger holds (`Counted`), and a
command that finalizes as KEPT holds a copy with `MinTrades` of them (`Settled`).

*PairedShadow.* The books are recursive functions over a file's lines and over the
rows. What they come to is told from a table of the partial results (`Tells`,
`Records`), which exists for every length; one line or row more is then one more
entry (`LoadAppend`, `IdealAppend`), and a fact about every entry is shown at the
least one for which it fails (`LeastBad`). `ShadowTypes` needs that no ledger holds
more than its ids account for (`Accountable`), because the bound on a ledger is
the bound on the rows. `Rebuilt` keeps the files in step with memory.
`FollowsOrders` says how far behind a death may leave a file: the baseline has all
rows or all but the last, the candidate is at most one row behind it. A replayed
row is then either known, and dropped by its id (`ReplayedRow`), or the last, and
recorded against the books an uninterrupted run had (`NextRow`). That an id is
known exactly when its row was recorded, and that the pair closes together, is
`IdealTogether`; it rests on `RoundFacts`: a baseline that holds no fewer shares
than the candidate sells no fewer, keeps no fewer, and sells all when the
candidate does. The code multiplies by a float fraction where `Round` takes the
exact quotient; the bounds of `RoundFacts` are whole numbers, which either keeps.

*PaperTrading.* `Base` has the types and what a run may rely on whatever failed or
overlaps: one run buys and the other sells, its broker is ahead of the portfolio it
holds by the fill under way (`Fits`), and what it sells it has. The story is told
per ticker, for those with no fill cut short or saved over. `Level`: the broker of
a run has what the portfolio of the run has, but for the fill under way. `Tale(t)`:
a run that has seen every saved fill of t holds the position of t as it is saved,
the orders are ahead of it by the fills under way, and the SQL positions by those
that have got that far. Another run's step leaves the tale of t alone unless it is
about t (`Stay`, `TaleAway`); a save either has seen the other run's fill or puts t
among `overwritten`. `Counted` bounds the tickers cut short by the failures and
crashes, each of which interrupts one fill at most. The SQL positions need
`PartialMinQuantity > 1`: with 1, which the settings allow, a partial exit may sell
the last share and leave the SQL position open.
`Paid` follows the money: the portfolio and every broker under way are worth the
starting cash, because a fill moves what it takes from one to the other
(`FilledWorth`) and a save takes both from the broker (`SaveShares`). That a sum
over a set changes with one of its terms (`SumExcept`) is an induction; the
theorem for it takes an operator as a parameter, so each such lemma picks the
smallest subset for which it fails (`Smallest`, from the well-founded order of
the subsets of a finite set) and takes one element out of it. These lemmas are in
`SetSums`.

*TradePipeline.* The sizes are proved first, for any evidence: a size is at most
the floor of both shares (`SizeFacts`), and every multiplier leaves it between one
share and itself (`ScaledFacts`), so that the rounding up to one share never passes
the floor it started from. The fill costs the slippage and the fee besides
(`PriceFacts`), and that is the whole of what an order may exceed its share by.
`DecisionStands` is monotonicity: the second sizing
leaves out the correlation, and without it the size is no smaller (`RiskFacts`).
`Passed` collects what all the gates have seen of an order. The invariant
(`PipeInv`) joins the properties with `HeatRead`: in a trade run the heat verdict is
of the portfolio as it is, which `LimitsHeld` needs for its heat limit. Its sector
limit is a sum over the tickers of the sector, of which only the one bought has
changed (`SectorSum`) and those not held count nothing (`SumWithin`); it was checked
at the quote, so the slippage of that fill comes on top.
`_sector_concentration_exceeded` lets the first position of a portfolio in unasked,
so the limit needs `TickerShare <= SectorShare`; the settings do not enforce that,
their defaults and the three configurations in the repository satisfy it.
`FramesAssumption` restricts the frames to those the code sizes by: a stop above
zero and not above the price, distances that are no negative numbers.

*TradingDesk.* `LossesBounded` is not inductive: it needs how many looks are
still under way. `Losses` says that the streak and the looks under way together
stay under the bound; a pass starts only under the limit, and each losing sale
spends a look. `StopsNeverLoosen` comes from one lemma per way a look may end,
collected in `LookStep`, which says that the stop is no lower than the one
widened to the minimum distance. `HaltedDeskWindsDown` is the part of
`HaltStopsTheDesk` without fairness: a pass asks for the kill switch where it
begins only, so that a halt lets the passes under way place one more round of
orders, each for a ticker that pass does not look at again (`HaltedStep`).

*BacktestEngine.* `EngineInv` is the types, `Conserved` (the cash and the open
positions at cost are the initial cash and what was realised, in parts), `InOrder`
(nothing queued is earlier than what was consumed) and `Drained`. A fill is two
changes: the parts are cut, which multiplies every amount and so both sides of
`Conserved` (`NetsInParts`), and one position is filled. After the cut its average
is exact (`CutsFacts`, `AverageEven`), and by the cases of adding, closing and
crossing zero its cost less what it realised changes by what the cash does
(`LongAddFacts`, `SellFacts`, `FilledFacts`); `OneNet` carries that to the sum over
all symbols. A bar moves the borrow fees from one term to another
(`MarkConserves`). Three more invariants rest on it. `Scaled`: an order is the
difference to the target and its fill no larger, so the position stays between
the two. `Behind`: in the first run the portfolio's clock is not ahead of the time
consumed, at which every fill is. `Fresh`: the ids known are of no bar still
queued, and of the bar at hand only once its one signal is handled; it needs
`LoneWatchers`, because two strategies on a symbol may order the same size at the
same time, and then `put` raises.

*BurnIn.* `Tuning` ties the count of the day to the date file and to `late`, the one
midday refresh that begins after 13:00 and tunes again; `Watches` keeps
the watchdog after 15:55; `Locked` says that, unless a lock was usurped, at most
one shell holds the lock and any pass belongs to it, dead shells' children
included. `Undisturbed` follows a day without a fault: whatever is open is either
excused by a skipped pass or still `Pending` before a pass that will see it.

*MarketData.* Provenance and lifetime are facts about a row (`Stored`), a frame
in a caller's hands (`Held`) and the request's own clock: a frame is put by its
caller at most `Patience` after it was fetched and used at most `Patience` after
the look. `Passes` bounds the time since the clock of a pass by that of its
requests, which is what `ExitsAreRecent` allows above the limit.

*EventQueue.* `Accounted` numbers the accepted entries, which are in the heap, in
a hand, delivered or dropped; `Bounded` counts reserved numbers;
`Ordered` says that the time consumed last is that of an entry that was popped.

*SimulatedExchange.* What rests was never filled, what was never submitted has no
fill, a fill is within its order; `LeavesBookFilled` follows with the order of
arrival, which tells the fills that a raising bar loses.

*Swarm.* `Placed` says what each worker is doing in its state, `Supplied` that
what an attempt was started with is the results of its dependencies at the time
and that these are final, `Earned` that a result is the one its worker computes
from the data and those results; `Settled` says which dependency a blocked worker
misses, and that no batch is empty. The presets enter through one fact (`Orderly`):
every weight is positive, and the consensus of the panel, the only worker that
reads results, waits for workers that wait for nobody. So every result is that of
`Reference`, whatever the interleaving, and the decision, a function of results
and weights, is `FollowsVotes` of it. That the confidence is a percentage needs
that the winners' weights are part of all weights (`SumWithin`).

*HistoricalBacktest.* `TradeRiskBounded` comes from the sizes: whatever is
submitted costs no more than the share of risk per distance to the stop, and a
trade is ended no lower than its stop (`ExitPrice`) or, at the last close, while
its stop was not reached (`Position`). `NoDayTradedTwice` needs that windows
follow one another (`WindowsFollow`), that the first bar of a frame is never
traded where rows are dated or daily (`Inside`), and what the earlier windows left (`Past`). The curve has an invariant of its own,
`CurveInv`: trades are one after another, the open one last (`Turns`); cash and
P&L are those of the records (`Funds`); and every mark is what the curve will
show there, by an ended trade, by the open one, or by the cash between two
(`Curved`). A trade that is opened, a bar, and a trade that is settled each keep
it (`OpenedCurve`, `MarkedCurve`, `HeldCurve`, `SettledCurve`).
`FramesAssumption` has bars in the order of their days, daily bars on different
days, with the low not above the close.

Only model-checked, and why:

- `ProposalsAreDecided`, `BlockedPutGetsIn`, `RunEnds` (of the engine and of the
  swarm), `EodPassHappens`, `HaltStopsTheDesk`, `StopHonoured`: liveness or nested
  temporal formulas. What three of them rest on is proved: `HaltedDeskWindsDown`,
  `EngineDrains`, `EveryWorkerEnds`.

## 5. Where code and documentation part

Met while modelling; the properties are stated for what the code does.

- Diverging ledger counts set the status in place
  (`learning/experiments/controller.py:200`) and restore nothing: the candidate
  stays live until a manual rollback.
- Two management passes at once sell one position twice: the guard at
  `runtime/continuous_loop.py:213` reads the copy loaded at the start.
- A stop raised by the chandelier but not to the entry is widened again by the
  next pass (`continuous_loop.py:262`, `cli/app.py:1042`).
- Exit times, and with them the re-entry cooldown, are lost by any later BUY
  (`orchestrator.py:1770`).
- `join` of the event queue returns after one release of its semaphore; two
  orders of one size on one bar get one id (`event_engine/engine.py:388`).
- The watchdog's failing pass dies by `set -e` holding the lock, although its
  message announces a retry; the last cycle before the close may give way to a
  pass that has loaded the portfolio already.
- The gate of an experiment counts realized SELLs (`controller.py:193`), partial
  exits included; `shadow.py:140-145`, `306-309` and `475-481` say that it keys on
  completed positions, so that partial exits do not advance it. `KeptOnlyAfterGate`
  is about the SELLs: a candidate may be kept with fewer positions.
- A LIMIT or STOP order that a bar fills in part leaves the book with what is still
  open (`event_engine/execution.py:367-369`, `425-445`); its docstring (lines
  290-295) keeps it resting until filled.
- Sizes, the share of a ticker and that of a sector go by the price of the signal,
  while the fill adds slippage and a fee (`execution/paper_broker.py:29-42`): the
  shares are exceeded by as much.
- The offline loader numbers its daily rows (`learning/experiments/replay.py:90`);
  `_daily_frame_before_bar` (`backtest/runner.py:659`), which promises completed
  rows from before the bar, reads the numbers as times of 1970. So intraday bars of
  the shared day are traded in both windows, on signals that see later rows.
- `put` of the event queue blocks while the queue is full; the docstring at
  `event_engine/queue.py:111-112` says that it raises `queue.Full`. The loss streak
  counts `pnl < 0`; the docstring at `portfolio/ledger.py:339-344` says `<= 0`.
- A midday refresh decided before 13:00 and begun after it runs the nightly tuning
  again (`auto-burn-in.sh:363`, `1237`).
- `reset-portfolio` is undone by a pass under way, and leaves the SQL positions.
- The signal's volatility adjustment is called with a daily frame without
  `atr_14` and therefore always takes the market for range-bound.
- One interval that was stored marks the day's archive
  complete (`data/eod_runner.py:258`).
- The daily backtest gives its counter-thesis the whole frame, later bars
  included (`backtest/runner.py:735`), fills stops at their price though the bar
  opened below, and takes no slippage.

## 6. Not modelled, and why

Live broker boundary (read-only), advisory, research and reports (statistics
that change no trading state), the SQL layer and settings (plain storage),
other scripts, the dashboard, event analytics. Inside modelled parts: texts, P&L
of the ledgers, fees and prices except where a property needs them, the Parquet
store, the pattern miner, the health check and confidence gates of the script,
deposits by hand. Each component's note in `PROJECT.json` says more.

## 7. Plan

Done: the modules and runs above. Every invariant and every action property that
a run checks is a theorem, and so are the types of all twelve state machines; the
liveness properties are left to TLC.
Next: the state that section 6 leaves out, first the exit times that a rebuilt
portfolio loses and the marker of the archive, both in section 5.
