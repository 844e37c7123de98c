----------------------------- MODULE MarketData -----------------------------
(***************************************************************************)
(* The bars the program works on: data/market_data.py asks the providers   *)
(* of a caller's stack in turn and keeps what the first one answers in a   *)
(* cache file; data/validation.py judges a frame; the age checks of the    *)
(* exits and of `manage-positions` decide whether its last bar is recent.  *)
(*                                                                         *)
(* Callers with settings share the configured file; one without (the       *)
(* counter-thesis) asks yfinance alone and keeps its bars in a file of its *)
(* own.  Several processes work on the files; one statement of SQLite is   *)
(* one step.  Times are in seconds.                                        *)
(*                                                                         *)
(* An answer of a provider is a frame:                                     *)
(*   bars     the last of them is of the time `at`, or None: unreadable    *)
(*   by       the provider                                                 *)
(*   column   its timestamps are times or, once restored, text             *)
(*   index    the same times, or row numbers, or those read as of 1970     *)
(***************************************************************************)
EXTENDS Integers, FiniteSetsExt, SequencesExt

CONSTANTS
    Procs, Requests, None,
    Supports,          \* the intervals of a provider
    Priority,          \* intraday_priority of a provider
    Ready,             \* the providers that can be set up
    Answers,           \* the bars a provider may answer with, and the lag of the last;
                       \* None: its time cannot be read
    Hours,             \* the times at which the market is open
    MinBars,           \* min_bars_for_signal
    MaxJump,           \* max_price_jump_pct and max_volume_jump_pct
    MaxAge,            \* max_data_age_minutes
    ClosedAge,         \* the minutes allowed while the market is closed
    MaxEntries,
    Patience,          \* no request takes longer, with what is made of its answer
    PassRequests,      \* no pass makes more requests
    Tick, MaxTime, MaxClears,
    MaxAsks            \* bounds the requests of a behaviour

\* A request: the ticker, the interval and the provider_stack of its caller, who
\* has settings or not, and what becomes of the frame: "exit" is the exit pass
\* of the loop, "manage" the command, "signal" and "select" the search for a
\* signal of V2.5 and of V3, "thesis" the counter-thesis.
ASSUME RequestAssumption ==
    \A r \in Requests :
        /\ r.use \in {"exit", "manage", "signal", "select", "thesis"}
        /\ r.use = "thesis" => r.stack = <<"yfinance">>
        /\ Range(r.stack) \subseteq DOMAIN Supports
        /\ r.interval.unit \in {"m", "h", "d"} /\ r.interval.value \in Nat
ASSUME MarketAssumption ==
    /\ {MinBars, MaxJump, MaxAge, ClosedAge, MaxEntries, Patience, Tick, MaxTime, MaxClears,
        PassRequests, MaxAsks} \subseteq Nat
    /\ PassRequests > 0 /\ Hours \subseteq Nat
    /\ None \notin [use : {r.use : r \in Requests}, clock : Nat, made : Nat, until : Nat]
    /\ Ready \subseteq DOMAIN Supports /\ "yfinance" \in DOMAIN Supports
    /\ DOMAIN Priority = DOMAIN Supports /\ DOMAIN Answers = DOMAIN Supports
    /\ \A p \in DOMAIN Answers : \A answer \in Answers[p] : answer.lag \in Nat \cup {None}

VARIABLES
    now, clears, asks,
    cache,             \* cache[file][key]: a row, or no such key
    pass,              \* pass[p]: the pass p is in, with its clock, or None
    call,              \* call[p]: the request of it that p is at, or None
    last               \* what the last step made of a frame, or None

vars == <<now, clears, asks, cache, pass, call, last>>

-----------------------------------------------------------------------------
(* Providers and keys                                                      *)

Intraday(interval) == interval.unit \in {"m", "h"}

\* order_provider_names
Ordered(r) ==
    LET eligible == SelectSeq(r.stack, LAMBDA p : r.interval \in Supports[p])
    IN IF Intraday(r.interval)
       THEN SortSeq(eligible, LAMBDA p, q : Priority[p] < Priority[q]) ELSE r.stack

File(r) == IF r.use = "thesis" THEN "default" ELSE "configured"

\* Variant: bars of one stack are served to another.
KeyOfSymbol(r) == << <<>>, r.ticker, r.interval>>

\* The stack of _fallback_fetch: where no provider of the caller has the interval,
\* yfinance is asked.
Asked(r) == IF Ordered(r) = <<>> THEN <<"yfinance">> ELSE Ordered(r)

\* _make_cache_key: the caller's providers for the interval are part of it, so that
\* the callers who have none share the bars of yfinance.
Key(r) == <<Ordered(r), r.ticker, r.interval>>

\* _interval_to_ttl_seconds
Ttl(interval) ==
    CASE interval.unit = "m" -> Max({30 * interval.value, 60})
      [] interval.unit = "h" -> Max({1800 * interval.value, 300})
      [] interval.unit = "d" -> Max({43200 * interval.value, 3600})

-----------------------------------------------------------------------------
(* Validation                                                              *)

\* The last value is over the one before by more than MaxJump percent of it.
Jumps(values) ==
    LET n == Len(values) IN
    /\ n >= 2 /\ values[n - 1] > 0
    /\ Max({values[n] - values[n - 1], values[n - 1] - values[n]}) * 100 > MaxJump * values[n - 1]

Column(bars, name) == [i \in DOMAIN bars |-> bars[i][name]]

PriceSane(bars) ==
    /\ bars # <<>> /\ \A bar \in Range(bars) : bar.close > 0
    /\ ~Jumps(Column(bars, "close"))
Coherent(bars) ==
    \A bar \in Range(bars) :
        /\ bar.low <= bar.high
        /\ {bar.open, bar.close} \subseteq bar.low..bar.high
VolumeSane(bars) ==
    /\ \A bar \in Range(bars) : bar.volume >= 0
    /\ ~Jumps(Column(bars, "volume"))

\* validate_market_data
Valid(frame) ==
    /\ Len(frame.bars) >= MinBars
    /\ PriceSane(frame.bars) /\ Coherent(frame.bars) /\ VolumeSane(frame.bars)

-----------------------------------------------------------------------------
Init ==
    /\ now = 0 /\ clears = 0 /\ asks = 0 /\ last = None
    /\ cache = [f \in {"configured", "default"} |-> <<>>]
    /\ pass = [p \in Procs |-> None]
    /\ call = [p \in Procs |-> None]

At(p, step) == call[p] # None /\ call[p].step = step
Goto(p, step) == call' = [call EXCEPT ![p].step = step]

Clocked(p, use, clock, made) ==
    pass' = [pass EXCEPT ![p] = [use |-> use, clock |-> clock, made |-> made,
                                 until |-> now + Patience]]

\* A pass takes its clock once, before it asks for the bars of its first position,
\* and asks for those of the others one after the other; the counter-thesis asks in
\* between.
Ask(p, r) ==
    /\ call[p] = None /\ asks < MaxAsks
    /\ asks' = asks + 1
    /\ \/ pass[p] = None /\ Clocked(p, r.use, now, 1)
       \/ /\ pass[p] # None /\ pass[p].made < PassRequests
          /\ r.use \in {pass[p].use, "thesis"}
          /\ Clocked(p, pass[p].use, pass[p].clock, pass[p].made + 1)
    /\ call' = [call EXCEPT ![p] = [step |-> "look", req |-> r, asked |-> now,
                                    tried |-> 0, frame |-> None]]
    /\ last' = None
    /\ UNCHANGED <<now, clears, cache>>

\* The request is dealt with: another follows in this pass, or none.
Done(p) ==
    /\ call' = [call EXCEPT ![p] = None]
    /\ \/ pass[p].made < PassRequests /\ UNCHANGED pass
       \/ pass' = [pass EXCEPT ![p] = None]

\* Text for the times, and times for the row numbers.
Restored(frame) ==
    [frame EXCEPT !.column = "text", !.index = IF @ = "numbers" THEN "1970" ELSE @]

\* Variant: a row lives on from every time it is asked for.
LookSliding(p) ==
    /\ At(p, "look")
    /\ LET r == call[p].req
           rows == cache[File(r)]
       IN  IF Key(r) \in DOMAIN rows /\ rows[Key(r)].expires > now
           THEN /\ call' = [call EXCEPT ![p].step = "use", ![p].frame = Restored(rows[Key(r)].frame)]
                /\ cache' = [cache EXCEPT ![File(r)][Key(r)].expires = now + Ttl(r.interval)]
           ELSE Goto(p, "fetch") /\ UNCHANGED cache
    /\ last' = None
    /\ UNCHANGED <<now, clears, asks, pass>>

\* get: a row is served until it expires.
Look(p) ==
    /\ At(p, "look")
    /\ LET r == call[p].req
           rows == cache[File(r)]
       IN  IF Key(r) \in DOMAIN rows /\ rows[Key(r)].expires > now
           THEN call' = [call EXCEPT ![p].step = "use", ![p].frame = Restored(rows[Key(r)].frame)]
           ELSE Goto(p, "fetch")
    /\ last' = None
    /\ UNCHANGED <<now, clears, asks, cache, pass>>

\* _fallback_fetch: the next provider answers, or fails and the one after it is
\* asked; one that cannot be set up or does not have the interval fails.
Names(p) == Asked(call[p].req)
Turn(p) == call[p].tried + 1
Answer(p) ==
    /\ At(p, "fetch") /\ Turn(p) \in DOMAIN Names(p)
    /\ LET name == Names(p)[Turn(p)] IN
        /\ name \in Ready /\ call[p].req.interval \in Supports[name]
        /\ \E answer \in Answers[name] :
            call' = [call EXCEPT ![p].step = "put",
                ![p].frame = [bars |-> answer.bars,
                              at |-> IF answer.lag = None THEN None ELSE now - answer.lag,
                              by |-> name, fetched |-> now,
                              column |-> "times",
                              index |-> IF name = "yfinance" THEN "times" ELSE "numbers"]]
    /\ last' = None
    /\ UNCHANGED <<now, clears, asks, cache, pass>>
Fail(p) ==
    /\ At(p, "fetch") /\ Turn(p) \in DOMAIN Names(p)
    /\ call' = [call EXCEPT ![p].tried = @ + 1]
    /\ last' = None
    /\ UNCHANGED <<now, clears, asks, cache, pass>>

\* All providers failed: the caller skips the ticker.
GiveUp(p) ==
    /\ At(p, "fetch") /\ Turn(p) \notin DOMAIN Names(p)
    /\ Done(p)
    /\ last' = None
    /\ UNCHANGED <<now, clears, asks, cache>>

Replace(rows, k, row) == [x \in DOMAIN rows \cup {k} |-> IF x = k THEN row ELSE rows[x]]

\* put, up to its first commit: the row replaces that of its key.
Put(p) ==
    /\ At(p, "put")
    /\ LET r == call[p].req
           row == [frame |-> call[p].frame, expires |-> now + Ttl(r.interval)]
       IN cache' = [cache EXCEPT ![File(r)] = Replace(@, Key(r), row)]
    /\ Goto(p, "evict")
    /\ last' = None
    /\ UNCHANGED <<now, clears, asks, pass>>

\* _evict_old: over the limit the rows that expire first go, down to half of it.
\* Its count and its delete are taken as one step.
Evicted(rows) ==
    IF Cardinality(DOMAIN rows) <= MaxEntries THEN {rows}
    ELSE {Restrict(rows, kept) : kept \in
            {S \in SUBSET DOMAIN rows :
                /\ Cardinality(S) = MaxEntries \div 2
                /\ \A k \in S, gone \in DOMAIN rows \ S : rows[gone].expires <= rows[k].expires}}
Evict(p) ==
    /\ At(p, "evict")
    /\ \E rows \in Evicted(cache[File(call[p].req)]) :
        cache' = [cache EXCEPT ![File(call[p].req)] = rows]
    /\ Goto(p, "use")
    /\ last' = None
    /\ UNCHANGED <<now, clears, asks, pass>>

\* Variant: the age of the answer.
AgeOfAnswer(p) == pass[p].clock - call[p].frame.fetched

\* The age of the last bar by the clock of the pass.
Age(p) == Max({0, pass[p].clock - call[p].frame.at})

\* An exit is decided on a bar of five minutes, or of an age it cannot tell; a
\* position is managed on a bar of MaxAge minutes, and while the market is closed on
\* one of ClosedAge minutes, a day.
Recent(p) ==
    LET use == call[p].req.use
        readable == call[p].frame.at # None
    IN  /\ use = "exit" => ~readable \/ Age(p) <= 300
        /\ use = "manage" =>
             /\ readable
             /\ Age(p) <= 60 * MaxAge \/ (pass[p].clock \notin Hours /\ Age(p) <= 60 * ClosedAge)

\* The frame is acted on: it is valid and recent where that is asked; a V2.5 signal
\* needs its bar's time as one, a V3 signal makes do with the index; the
\* counter-thesis takes what it gets.
Acts(p) ==
    LET use == call[p].req.use
        frame == call[p].frame
    IN  /\ use \in {"exit", "signal", "select"} => Valid(frame)
        /\ Recent(p)
        /\ use = "signal" => frame.column = "times"
        /\ use = "select" => frame.index # "1970"
Use(p) ==
    /\ At(p, "use")
    /\ last' = [req |-> call[p].req, frame |-> call[p].frame, clock |-> pass[p].clock,
                acted |-> Acts(p)]
    /\ Done(p)
    /\ UNCHANGED <<now, clears, asks, cache>>

\* clear_cache of the default file: one ticker, or what has expired.
Clear(kept) ==
    /\ clears < MaxClears
    /\ clears' = clears + 1
    /\ cache' = [cache EXCEPT !.default = Restrict(@, kept)]
    /\ last' = None
    /\ UNCHANGED <<now, asks, pass, call>>
Invalidate(ticker) == Clear({k \in DOMAIN cache.default : k[2] # ticker})
ClearExpired == Clear({k \in DOMAIN cache.default : cache.default[k].expires > now})

\* Time passes, but no request and what is made of its answer takes longer than
\* Patience.
Pass ==
    /\ now + Tick <= MaxTime
    /\ \A p \in Procs : pass[p] # None => now + Tick <= pass[p].until
    /\ now' = now + Tick
    /\ last' = None
    /\ UNCHANGED <<clears, asks, cache, pass, call>>

Step(p) == Look(p) \/ Answer(p) \/ Fail(p) \/ GiveUp(p) \/ Put(p) \/ Evict(p) \/ Use(p)
Next ==
    \/ \E p \in Procs, r \in Requests : Ask(p, r)
    \/ \E p \in Procs : Step(p)
    \/ \E r \in Requests : Invalidate(r.ticker)
    \/ ClearExpired
    \/ Pass

Spec == Init /\ [][Next]_vars

-----------------------------------------------------------------------------
(* Properties                                                              *)

Frame == [bars : {answer.bars : answer \in UNION Range(Answers)}, at : Int \cup {None}, by : DOMAIN Supports, fetched : 0..MaxTime,
          column : {"times", "text"}, index : {"times", "numbers", "1970"}]
Row == [frame : Frame, expires : Nat]

\* Every row and every frame at hand is one (fetch_bars and its cache).
TypeOK ==
    /\ now \in 0..MaxTime /\ clears \in 0..MaxClears /\ asks \in 0..MaxAsks
    /\ \A f \in DOMAIN cache : \A k \in DOMAIN cache[f] : cache[f][k] \in Row
    /\ \A p \in Procs : pass[p] = None \/
        pass[p] \in [use : {r.use : r \in Requests}, clock : 0..now, made : 1..PassRequests,
                    until : Nat]
    /\ \A p \in Procs : call[p] = None \/
        /\ call[p].req \in Requests /\ call[p].asked \in 0..now
        /\ call[p].step \in {"look", "fetch", "put", "evict", "use"}
        /\ call[p].frame \in Frame \cup {None}
    /\ last = None \/ (last.frame \in Frame /\ last.acted \in BOOLEAN)

\* No caller is given the bars of a provider that does not have the interval, or that
\* it would not itself have asked, whoever put them into the file it shares with
\* callers of other settings.  Its own providers are asked, or yfinance where none of
\* them has the interval (_cache_namespace, order_provider_names, _fallback_fetch).
OwnProviders ==
    last # None =>
        LET own == Range(Ordered(last.req))
            by == last.frame.by
        IN  /\ by \in own \/ (own = {} /\ by = "yfinance")
            /\ last.req.interval \in Supports[by]

\* Bars that are given to a caller were got from a provider no longer ago than
\* the cache keeps them, and as long as a slow caller takes to put and another
\* one to use them: neither asking for them again nor a late put of older bars
\* over newer ones prolongs that (MarketDataCache.get and put).
ServedWithinTtl ==
    last # None => now - last.frame.fetched <= Ttl(last.req.interval) + 2 * Patience

\* Whatever the cache and a lagging provider do, a position is exited or managed on a
\* bar no older than the limit, but for the time its pass takes: the clock that the
\* age is judged by is that of its beginning.  While the market was closed then, the
\* limit of the command is a day.  The exit pass acts also on a bar whose time cannot
\* be read, the command never (the age checks of run_exit_pass and manage-positions).
ExitsOnRecentBars ==
    LET age == now - last.frame.at
        late == PassRequests * Patience
        limit == IF last.clock \in Hours THEN 60 * MaxAge ELSE 60 * Max({MaxAge, ClosedAge})
    IN  last # None /\ last.acted =>
            /\ last.req.use = "exit" => last.frame.at = None \/ age <= 300 + late
            /\ last.req.use = "manage" => last.frame.at # None /\ age <= limit + late
=============================================================================
