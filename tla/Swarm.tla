------------------------------- MODULE Swarm --------------------------------
(***************************************************************************)
(* The multi-agent committee (trading_bot/swarm): an engine sets up the    *)
(* workers of a preset, runs them in dependency order on a thread pool,    *)
(* batch by batch, and merges their votes into one decision per ticker.    *)
(*                                                                         *)
(* A frame is the record of the measures the workers take from the bars of *)
(* a ticker, in whole units: percent for returns, distances and ratios,    *)
(* tenths for volume ratios, hundredths for correlations, scores and       *)
(* weights.  The arithmetic that yields a measure is abstracted; what a    *)
(* worker concludes from it is not.                                        *)
(***************************************************************************)
EXTENDS Integers, Sequences, FiniteSets, FiniteSetsExt, SequencesExt

CONSTANTS
    Presets,        \* the presets the engine may be built with
    Tickers,        \* the symbols of a run
    Frames,         \* the frames a ticker may have
    NoFrame,        \* no valid market data for the ticker
    Contexts,       \* the sentiment contexts a caller may pass
    MaxConcurrent,  \* threads of the pool
    MaxRetries,     \* WorkerConfig.max_retries; every preset leaves it at 0
    MaxRuns         \* bound on the runs of one engine

ASSUME SwarmAssumption ==
    /\ MaxConcurrent \in Nat \ {0}
    /\ MaxRetries \in Nat
    /\ MaxRuns \in Nat

VARIABLES
    preset,      \* the preset the engine was set up with
    frames,      \* the market data of the run, per ticker
    context,     \* the sentiment context of the run
    phase,       \* where the engine's own thread is
    state,       \* the state each worker shows
    batch,       \* the workers submitted and not yet collected
    seen,        \* the results each worker was started with
    attempts,    \* attempts each worker has used
    held,        \* the result a worker has computed and not yet stored
    results,     \* the results the engine has stored, per worker
    decisions,   \* the decisions of the last run that finished
    runs         \* runs started

swarmVars == <<preset, frames, context, phase, state, batch, seen, attempts, held,
          results, decisions, runs>>

-----------------------------------------------------------------------------
(* Presets. *)

Worker(name, weight, deps) == [name |-> name, weight |-> weight, deps |-> deps]

Registered ==
    {"technical_analyst", "risk_manager", "factor_model", "fundamental_analyst",
     "macro_strategist", "sentiment_analyst", "pattern_recognizer",
     "on_chain_analyst", "trend_follower", "mean_reversion", "volume_analyst",
     "technical_consensus"}

Committee ==
    {Worker("technical_analyst", 110, <<>>),
     Worker("fundamental_analyst", 100, <<>>),
     Worker("sentiment_analyst", 90, <<>>),
     Worker("risk_manager", 115,
            <<"technical_analyst", "fundamental_analyst", "sentiment_analyst">>),
     Worker("macro_strategist", 95, <<>>)}

Panelists == <<"trend_follower", "mean_reversion", "volume_analyst", "pattern_recognizer">>

(* A desk of equally weighted analysts and one worker that waits for them all. *)
Desk(analysts, lead) ==
    {Worker(a, 100, <<>>) : a \in ToSet(analysts)} \cup {Worker(lead, 100, analysts)}

AllPresets ==
    [investment_committee |-> Committee,
     technical_analysis_panel |-> Desk(Panelists, "technical_consensus"),
     quant_desk |-> Desk(<<"factor_model", "statistical_arb", "ml_predictor">>, "quant_risk"),
     crypto_desk |->
        Desk(<<"on_chain_analyst", "crypto_technical", "deFi_analyst">>, "crypto_risk"),
     risk_committee |->
        Desk(<<"var_analyst", "correlation_analyst", "liquidity_analyst">>,
             "risk_committee_lead"),
     fundamental_analysis_team |->
        Desk(<<"valuation_expert", "growth_analyst", "balance_sheet_analyst">>,
             "fundamental_consensus"),
     macro_economics_team |->
        Desk(<<"economic_indicator", "monetary_policy", "sector_rotation">>, "macro_outlook")]

ASSUME PresetAssumption == Presets \subseteq DOMAIN AllPresets

(* setup_workers: a worker without a registered class is skipped. *)
Configs(p) == {c \in AllPresets[p] : c.name \in Registered}
ConfigOf(p, w) == CHOOSE c \in Configs(p) : c.name = w
Workers == {c.name : c \in Configs(preset)}
Deps(w) == ConfigOf(preset, w).deps

-----------------------------------------------------------------------------
(* What each worker votes. *)

One(b) == IF b THEN 1 ELSE 0
Band(x, high, low) == IF x > high THEN 1 ELSE IF x < low THEN -1 ELSE 0
Clamp(x, bound) == IF x > bound THEN bound ELSE IF x < -bound THEN -bound ELSE x
TwoSided(score) == IF score >= 2 THEN "BUY" ELSE IF score <= -2 THEN "SELL" ELSE "HOLD"

(* A measure over a window the frame is too short for is zero. *)
Over(f, bars, x) == IF f.bars >= bars THEN x ELSE 0

TechnicalVote(f) ==
    LET trend == Over(f, 50, f.trend)
        drift == Over(f, 20, f.drift)
        rsi == IF f.bars >= 14 THEN f.rsi ELSE 50  \* no window: neither side
    IN  TwoSided((IF trend > 0 THEN 1 ELSE -1)
                 + (IF drift > 0 THEN 1 ELSE -One(drift < 0 /\ trend <= 0))
                 + (IF rsi < 40 THEN 1 ELSE -One(rsi > 60 /\ trend <= 0))
                 + One(f.volume > 15))

FactorVote(f) ==
    TwoSided(Band(Over(f, 63, f.drift), 5, -5)
             + Band(Over(f, 50, -f.above50), 2, -2)
             + Band(Over(f, 20, f.corr), 30, -30))

FundamentalVote(f) ==
    TwoSided(Band(Clamp(Over(f, 61, -f.noise), 100), 30, -30)
             + Band(Clamp(5 * Over(f, 100, -f.aboveLong), 100), 20, -20)
             + Band(Clamp(2 * Over(f, 63, f.growth), 100), 20, -20))

RiskVote(f) ==
    LET risks == One(f.bars > 20 /\ f.sigma > 50) + One(f.thin)
                 + One(f.bars >= 10 /\ f.draw > 15)
    IN  IF risks >= 2 THEN "HOLD" ELSE "BUY"

(* The regime is that of the first symbol with fifty bars. *)
Regime(fs, order) ==
    LET usable == SelectSeq(order, LAMBDA t : fs[t] # NoFrame /\ fs[t].bars >= 50)
        f == fs[usable[1]]
    IN  CASE usable = <<>> -> "unknown"
          [] usable # <<>> /\ f.above50 > 5 /\ f.sigma < 25 -> "bull"
          [] usable # <<>> /\ ~(f.above50 > 5 /\ f.sigma < 25)
                /\ (f.above50 < -5 \/ f.sigma > 40) -> "bear"
          [] OTHER -> "range"

MacroVote(f, regime) ==
    CASE f.bars < 50 -> "HOLD"
      [] f.bars >= 50 /\ regime = "bull" -> IF f.above50 > 0 THEN "BUY" ELSE "HOLD"
      [] f.bars >= 50 /\ regime = "bear" -> IF f.above50 < 0 THEN "SELL" ELSE "HOLD"
      [] OTHER -> IF f.above50 > 3 THEN "SELL" ELSE IF f.above50 < -3 THEN "BUY" ELSE "HOLD"

(* _detect_patterns: triangles need thirty bars, the others forty. *)
PatternsSeen(f) ==
    {p \in f.patterns : f.bars >= IF p \in {"ascending_triangle", "descending_triangle"}
                                  THEN 30 ELSE 40}

PatternVote(f) ==
    LET bull == PatternsSeen(f) \cap {"double_bottom", "ascending_triangle", "bull_flag"}
        bear == PatternsSeen(f) \ bull
    IN  IF Cardinality(bull) > Cardinality(bear) THEN "BUY"
        ELSE IF Cardinality(bear) > Cardinality(bull) THEN "SELL" ELSE "HOLD"

(* The workers below read indicator columns, which read as zero when absent. *)
Column(f, x) == IF f.enriched THEN x ELSE 0

TrendVote(f) ==
    LET aboveEma == ~f.enriched \/ f.aboveEma
        stacked == f.enriched /\ f.aboveEma /\ f.trend > 0
        rsi == Column(f, f.rsi)
        score == 2 * One(stacked) + One(aboveEma) + One(40 < rsi /\ rsi < 70)
                 + One(f.enriched /\ f.volume > 10)
    IN  IF score >= 3 THEN "BUY" ELSE IF score <= 0 THEN "SELL" ELSE "HOLD"

ReversionVote(f) ==
    LET rsi == Column(f, f.rsi)
        band == IF ~f.enriched THEN 0
                ELSE IF f.pctB < 0 THEN 3 ELSE IF f.pctB < 10 THEN 2 ELSE One(f.pctB < 20)
        low == IF rsi < 30 THEN 2 ELSE One(rsi < 35)
    IN  IF band + low >= 3 THEN "BUY" ELSE "HOLD"

VolumeVote(f) ==
    LET surge == IF f.volume > 20 THEN 3 ELSE IF f.volume > 15 THEN 2 ELSE One(f.volume > 10)
    IN  IF surge + One(f.closedUp) >= 3 THEN "BUY"
        ELSE IF f.volume < 5 THEN "SELL" ELSE "HOLD"

OnChainVote(f) ==
    TwoSided(Band(f.accumulation, 50, -50) - Band(f.moneyFlow, 70, 30)
             + One(f.volume > 15) + One(f.smartMoney >= 2))

(* news, fear and breadth in hundredths; the fear of the market is a level of the VIX. *)
Fear(c) == IF c.vix >= 30 THEN -35 ELSE IF c.vix >= 22 THEN -15
           ELSE IF c.vix <= 14 THEN 10 ELSE 0
Sentiment(c) == Clamp(c.news + (IF c.vix = 0 THEN 0 ELSE Fear(c)) + c.breadth, 100)
SentimentVote(c) ==
    IF Sentiment(c) >= 35 THEN "BUY" ELSE IF Sentiment(c) <= -35 THEN "SELL" ELSE "HOLD"

(* The consensus counts the votes of the panel in the results it was given. *)
ConsensusVote(upstream, t) ==
    LET votes == [w \in {v \in ToSet(Panelists) \cap DOMAIN upstream :
                            t \in DOMAIN upstream[v].votes} |-> upstream[w].votes[t]]
        count(a) == Cardinality({w \in DOMAIN votes : votes[w] = a})
    IN  IF count("BUY") > count("SELL") /\ count("BUY") >= 2 THEN "BUY"
        ELSE IF count("SELL") > count("BUY") /\ count("SELL") >= 2 THEN "SELL" ELSE "HOLD"

(* The tickers a worker returns a vote for: sentiment answers for every symbol, the    *)
(* consensus for those a panelist voted on, volume needs its average, and the others   *)
(* need a frame.                                                                       *)
VotedOn(w, fs, upstream) ==
    IF w = "technical_consensus"
    THEN {t \in Tickers : \E v \in ToSet(Panelists) \cap DOMAIN upstream :
                              t \in DOMAIN upstream[v].votes}
    ELSE IF w = "sentiment_analyst" THEN Tickers
    ELSE {t \in Tickers : fs[t] # NoFrame /\ (w = "volume_analyst" => fs[t].enriched)}

Symbols == SetToSeq(Tickers)

OwnVote(w, t, fs, c) ==
    CASE w = "technical_analyst" -> TechnicalVote(fs[t])
      [] w = "fundamental_analyst" -> FundamentalVote(fs[t])
      [] w = "sentiment_analyst" -> SentimentVote(c)
      [] w = "risk_manager" -> RiskVote(fs[t])
      [] w = "macro_strategist" -> MacroVote(fs[t], Regime(fs, Symbols))
      [] w = "factor_model" -> FactorVote(fs[t])
      [] w = "on_chain_analyst" -> OnChainVote(fs[t])
      [] w = "trend_follower" -> TrendVote(fs[t])
      [] w = "mean_reversion" -> ReversionVote(fs[t])
      [] w = "volume_analyst" -> VolumeVote(fs[t])
      [] w = "pattern_recognizer" -> PatternVote(fs[t])

VoteOf(w, t, fs, c, upstream) ==
    IF w = "technical_consensus" THEN ConsensusVote(upstream, t) ELSE OwnVote(w, t, fs, c)

Executed(w, fs, c, upstream) ==
    [state |-> "done",
     votes |-> [t \in VotedOn(w, fs, upstream) |-> VoteOf(w, t, fs, c, upstream)]]

Failure == [state |-> "failed", votes |-> <<>>]

-----------------------------------------------------------------------------
(* The engine. *)

SwarmTypeOK ==
    /\ preset \in Presets
    /\ frames \in [Tickers -> Frames \cup {NoFrame}]
    /\ context \in Contexts
    /\ phase \in {"idle", "dispatch", "batch", "aggregate", "done"}
    /\ state \in [Workers -> {"waiting", "running", "retrying", "done", "failed", "blocked"}]
    /\ batch \subseteq Workers
    /\ DOMAIN results \subseteq Workers
    /\ runs \in 0..MaxRuns

SwarmInit ==
    /\ preset \in Presets
    /\ frames = [t \in Tickers |-> NoFrame]
    /\ context \in Contexts
    /\ phase = "idle"
    /\ state = [w \in Workers |-> "waiting"]
    /\ attempts = [w \in Workers |-> 0]
    /\ batch = {} /\ seen = <<>> /\ held = <<>> /\ results = <<>>
    /\ decisions = <<>>
    /\ runs = 0

(* A plausible bug: the results of the run before are kept. *)
StartRunOnTop ==
    /\ phase \in {"idle", "done"}
    /\ runs < MaxRuns
    /\ \E fs \in [Tickers -> Frames \cup {NoFrame}] :
        /\ \E t \in Tickers : fs[t] # NoFrame
        /\ frames' = fs
    /\ state' = [w \in Workers |-> "waiting"]
    /\ attempts' = [w \in Workers |-> 0]
    /\ seen' = <<>>
    /\ phase' = "dispatch"
    /\ runs' = runs + 1
    /\ decisions' = <<>>
    /\ UNCHANGED <<preset, context, batch, held, results>>

(* run: every worker and result of an earlier run is reset, and the market data of the *)
(* new run may differ.  The command gives up when no ticker has a valid frame.  The    *)
(* vote log the run appends to is never read back and is left out.                     *)
StartRun ==
    /\ phase \in {"idle", "done"}
    /\ runs < MaxRuns
    /\ \E fs \in [Tickers -> Frames \cup {NoFrame}] :
        /\ \E t \in Tickers : fs[t] # NoFrame
        /\ frames' = fs
    /\ results' = <<>>
    /\ state' = [w \in Workers |-> "waiting"]
    /\ attempts' = [w \in Workers |-> 0]
    /\ seen' = <<>>
    /\ phase' = "dispatch"
    /\ runs' = runs + 1
    /\ decisions' = <<>>
    /\ UNCHANGED <<preset, context, batch, held>>

(* _get_ready_workers reads the dependencies in order up to the first that is not done. *)
Met(d) == d \in Workers /\ state[d] = "done"
Ready(w) == state[w] = "waiting" /\ \A d \in ToSet(Deps(w)) : Met(d)
DepFailed(w) ==
    /\ state[w] = "waiting"
    /\ \E i \in DOMAIN Deps(w) :
          /\ \A j \in 1..(i - 1) : Met(Deps(w)[j])
          /\ Deps(w)[i] \in Workers /\ state[Deps(w)[i]] = "failed"

(* A batch is submitted whole.  With nothing ready the loop ends, and what still waits *)
(* is blocked.                                                                         *)
Dispatch ==
    /\ phase = "dispatch"
    /\ LET ready == {w \in Workers : Ready(w)}
       IN  /\ batch' = ready
           /\ phase' = IF ready = {} THEN "aggregate" ELSE "batch"
           /\ state' = [w \in Workers |->
                          IF \/ DepFailed(w)
                             \/ ready = {} /\ state[w] = "waiting" THEN "blocked"
                          ELSE state[w]]
    /\ UNCHANGED <<preset, frames, context, attempts, seen, held, results, decisions, runs>>

OnThread == {w \in batch : w \in DOMAIN seen /\ w \notin DOMAIN results}

(* A pool thread takes a submitted worker: it copies the results under the lock, then *)
(* runs the worker.  No vote looks at another worker's result unless the worker       *)
(* depends on it, so the copy keeps these alone.                                      *)
Upstream(w) == Restrict(results, ToSet(Deps(w)) \cap DOMAIN results)
Extended(f, w, x) == [v \in DOMAIN f \cup {w} |-> IF v = w THEN x ELSE f[v]]

Begin(w) ==
    /\ w \in batch
    /\ w \notin DOMAIN seen
    /\ Cardinality(OnThread) < MaxConcurrent
    /\ seen' = Extended(seen, w, Upstream(w))
    /\ state' = [state EXCEPT ![w] = "running"]
    /\ UNCHANGED <<preset, frames, context, phase, batch, attempts, held, results,
                   decisions, runs>>

Executing(w) == w \in OnThread /\ w \notin DOMAIN held

Succeed(w) ==
    /\ Executing(w)
    /\ held' = Extended(held, w, Executed(w, frames, context, seen[w]))
    /\ state' = [state EXCEPT ![w] = "done"]
    /\ UNCHANGED <<preset, frames, context, phase, batch, seen, attempts, results,
                   decisions, runs>>

(* execute raises: the attempt is repeated while retries are left. *)
Raise(w) ==
    /\ Executing(w)
    /\ attempts' = [attempts EXCEPT ![w] = @ + 1]
    /\ IF attempts[w] < MaxRetries
       THEN state' = [state EXCEPT ![w] = "retrying"] /\ held' = held
       ELSE state' = [state EXCEPT ![w] = "failed"] /\ held' = Extended(held, w, Failure)
    /\ UNCHANGED <<preset, frames, context, phase, batch, seen, results, decisions, runs>>

(* The thread stores the result under the lock; the engine sees the future complete. *)
Store(w) ==
    /\ w \in DOMAIN held
    /\ results' = Extended(results, w, held[w])
    /\ held' = Restrict(held, DOMAIN held \ {w})
    /\ UNCHANGED <<preset, frames, context, phase, state, batch, seen, attempts,
                   decisions, runs>>

(* Plausible bugs: the engine looks for ready workers after the first future, or takes *)
(* a failed worker for one that has not ended.                                         *)
BatchDoneAtFirst ==
    /\ phase = "batch"
    /\ batch \cap DOMAIN results # {}
    /\ phase' = "dispatch"
    /\ UNCHANGED <<preset, frames, context, state, batch, seen, attempts, held, results,
                   decisions, runs>>
BatchSucceeded ==
    /\ phase = "batch"
    /\ \A w \in batch : w \in DOMAIN results /\ results[w].state = "done"
    /\ batch' = {}
    /\ phase' = "dispatch"
    /\ UNCHANGED <<preset, frames, context, state, seen, attempts, held, results,
                   decisions, runs>>

(* as_completed: the engine waits for the whole batch before it looks for ready workers. *)
BatchDone ==
    /\ phase = "batch"
    /\ batch \subseteq DOMAIN results
    /\ state' = [w \in Workers |-> IF w \in batch THEN results[w].state ELSE state[w]]
    /\ batch' = {}
    /\ phase' = "dispatch"
    /\ UNCHANGED <<preset, frames, context, seen, attempts, held, results, decisions, runs>>

-----------------------------------------------------------------------------
(* _aggregate_decisions. *)

Weights == [w \in Workers |-> ConfigOf(preset, w).weight]
WeightOf(weights, ws) == MapThenSumSet(LAMBDA w : weights[w], ws)
Weight(ws) == WeightOf(Weights, ws)

VotersFor(t, action) ==
    {w \in DOMAIN results : t \in DOMAIN results[w].votes /\ results[w].votes[t] = action}

Outcome(for, against) ==
    IF Weight(for) > Weight(against) THEN "BUY"
    ELSE IF Weight(against) > Weight(for) THEN "SELL" ELSE "HOLD"

(* confidence: the winning side's share, in hundredths, of the weight of all workers; an *)
(* undecided committee gives the share that abstained.                                   *)
Decision(t) ==
    LET for == VotersFor(t, "BUY")
        against == VotersFor(t, "SELL")
        action == Outcome(for, against)
        winners == IF action = "BUY" THEN for
                   ELSE IF action = "SELL" THEN against ELSE Workers \ (for \cup against)
    IN  [action |-> action,
         confidence |-> IF Workers = {} THEN 0
                        ELSE (100 * Weight(winners)) \div Weight(Workers),
         for |-> Cardinality(for), against |-> Cardinality(against),
         abstain |-> Cardinality(Workers) - Cardinality(for) - Cardinality(against)]

Aggregate ==
    /\ phase = "aggregate"
    /\ decisions' = [t \in Tickers |-> Decision(t)]
    /\ phase' = "done"
    /\ UNCHANGED <<preset, frames, context, state, batch, seen, attempts, held, results, runs>>

Step(w) == Begin(w) \/ Succeed(w) \/ Raise(w) \/ Store(w)
SwarmNext == StartRun \/ Dispatch \/ BatchDone \/ Aggregate \/ \E w \in Workers : Step(w)

SwarmSpec == SwarmInit /\ [][SwarmNext]_swarmVars

(* The engine's thread and the pool's threads go on while they can, and an attempt    *)
(* that was begun ends: nothing enforces timeout_seconds on one that does not.        *)
SwarmFairSpec ==
    /\ SwarmSpec
    /\ WF_swarmVars(Dispatch \/ BatchDone \/ Aggregate)
    /\ WF_swarmVars(\E w \in Workers : Step(w))

-----------------------------------------------------------------------------
(* Properties. *)

(* A worker that waits for others starts from the finished result of each of them: the *)
(* copy it takes under the lock is complete, whatever order the threads ran in.        *)
HandoffComplete ==
    \A w \in DOMAIN seen :
        \A d \in ToSet(Deps(w)) :
            d \in DOMAIN seen[w] /\ seen[w][d].state = "done" /\ seen[w][d] = results[d]

(* The votes the market data alone determines, given which workers finished. *)
Finished == {w \in Workers : state[w] = "done"}
FirstHand ==
    [w \in {v \in Finished : Deps(v) = <<>>} |-> Executed(w, frames, context, <<>>)]
Reference == [w \in Finished |-> Executed(w, frames, context, FirstHand)]

Cast(t, action) ==
    {w \in Finished : t \in DOMAIN Reference[w].votes /\ Reference[w].votes[t] = action}
FollowsVotes(decision, t) ==
    LET margin == Weight(Cast(t, "BUY")) - Weight(Cast(t, "SELL"))
    IN  /\ decision.action =
              (IF margin > 0 THEN "BUY" ELSE IF margin < 0 THEN "SELL" ELSE "HOLD")
        /\ decision.for = Cardinality(Cast(t, "BUY"))
        /\ decision.against = Cardinality(Cast(t, "SELL"))
        /\ decision.confidence \in 0..100

(* The decision on a ticker depends on the data and on which workers finished, and on  *)
(* nothing else: not on the order of the threads, the copies they took, or the runs    *)
(* the engine did before.  A worker that failed or was blocked weighs as an abstention. *)
DecisionsReproducible ==
    phase = "done" => \A t \in Tickers : FollowsVotes(decisions[t], t)

(* Every run ends in decisions, also when workers fail and others wait for them. *)
RunEnds == phase = "dispatch" ~> phase = "done"
=============================================================================
