---------------------------- MODULE MarketProofs ----------------------------
(***************************************************************************)
(* Theorems about the market as the program sees it: the bars that callers *)
(* are given, for every set of processes, requests and providers; the      *)
(* simulated exchange, for every set of orders, all price levels, volumes  *)
(* and participation rates; and the replay of history, for all frames of   *)
(* bars, all plans, signals, fees and slippages.                           *)
(***************************************************************************)
EXTENDS MarketData, SimulatedExchange, HistoricalBacktest, SetSums, SequenceTheorems,
        NaturalsInduction

-----------------------------------------------------------------------------
(* Market data: operators                                                  *)

\* The greater of two numbers is one of them and below neither.
LEMMA MaxOfTwo ==
    \A a, b \in Int : Max({a, b}) \in {a, b} /\ Max({a, b}) >= a /\ Max({a, b}) >= b
  <1> SUFFICES ASSUME NEW a \in Int, NEW b \in Int
               PROVE  Max({a, b}) \in {a, b} /\ \A y \in {a, b} : Max({a, b}) >= y
    OBVIOUS
  <1>1. \E x \in {a, b} : \A y \in {a, b} : x >= y
    OBVIOUS
  <1> QED BY <1>1 DEF Max

LEMMA MaxOfInts ==
    \A a, b \in Int : Max({a, b}) \in Int /\ Max({a, b}) >= a /\ Max({a, b}) >= b
  BY MaxOfTwo
LEMMA MaxWithZero == \A d \in Int : Max({0, d}) \in Int /\ Max({0, d}) >= d
  BY MaxOfInts
LEMMA MaxOfNats ==
    \A a, b \in Nat : Max({a, b}) \in Nat /\ Max({a, b}) >= a /\ Max({a, b}) >= b
  BY MaxOfTwo

\* Every interval that is asked for has a lifetime.
LEMMA TtlType == \A r \in Requests : Ttl(r.interval) \in Nat
  <1> SUFFICES ASSUME NEW r \in Requests PROVE Ttl(r.interval) \in Nat
    OBVIOUS
  <1>1. r.interval.value \in Nat /\ r.interval.unit \in {"m", "h", "d"}
    BY RequestAssumption
  <1>2. /\ Max({30 * r.interval.value, 60}) \in Nat
        /\ Max({1800 * r.interval.value, 300}) \in Nat
        /\ Max({43200 * r.interval.value, 3600}) \in Nat
    <2>1. /\ 30 * r.interval.value \in Nat /\ 1800 * r.interval.value \in Nat
          /\ 43200 * r.interval.value \in Nat
      BY <1>1
    <2>a. \A a, b \in Nat : Max({a, b}) \in Nat
      BY MaxOfTwo
    <2> QED BY <2>1, <2>a
  <1>3. CASE r.interval.unit = "m"
    BY <1>2, <1>3 DEF Ttl
  <1>4. CASE r.interval.unit = "h"
    BY <1>2, <1>4 DEF Ttl
  <1>5. CASE r.interval.unit = "d"
    BY <1>2, <1>5 DEF Ttl
  <1> QED BY <1>1, <1>3, <1>4, <1>5

-----------------------------------------------------------------------------
(* Market data: the invariant                                              *)

Files == {"configured", "default"}
Steps == {"look", "fetch", "put", "evict", "use"}
Framed == {"put", "evict", "use"}
Call == [step : Steps, req : Requests, asked : Nat, tried : Nat, frame : Frame \cup {None}]

\* The provider is one of a stack, or yfinance for the stack without any, and has the
\* interval.
Own(stack, interval, by) ==
    /\ by \in Range(stack) \/ (Range(stack) = {} /\ by = "yfinance")
    /\ interval \in Supports[by]

\* A row is of a provider its key stands for and expires before its bars are older
\* than the lifetime of their interval and the slowest put.
Kept(k, row) ==
    /\ row \in Row
    /\ Own(k[1], k[3], row.frame.by)
    /\ row.expires <= row.frame.fetched + Ttl(k[3]) + Patience
Stored ==
    /\ cache = [f \in Files |-> cache[f]]
    /\ \A f \in Files : \A k \in DOMAIN cache[f] : Kept(k, cache[f][k])

\* The frame at hand was served by a row that had not expired when the caller asked,
\* or was fetched since.
Fits(c) ==
    /\ c.frame \in Frame
    /\ Own(Ordered(c.req), c.req.interval, c.frame.by)
    /\ c.asked <= c.frame.fetched + Ttl(c.req.interval) + Patience
Timely(c) ==
    /\ c.asked <= now /\ now <= c.asked + Patience
    /\ c.step \in Framed => Fits(c)
    /\ c.step = "put" => c.frame.fetched >= c.asked
Held ==
    /\ call \in [Procs -> Call \cup {None}]
    /\ \A p \in Procs : call[p] # None => Timely(call[p])

\* A request is one of a pass, and the pass has taken no longer than its requests may.
PassRecord == [use : {r.use : r \in Requests}, clock : Nat, made : 1..PassRequests, until : Nat]
InTime(a) ==
    /\ a.clock <= now /\ now <= a.until
    /\ a.until <= a.clock + a.made * Patience
Passes ==
    /\ pass \in [Procs -> PassRecord \cup {None}]
    /\ \A p \in Procs : pass[p] # None => InTime(pass[p])
    /\ \A p \in Procs :
        call[p] # None => pass[p] # None /\ pass[p].until = call[p].asked + Patience

Clocks == now \in 0..MaxTime /\ clears \in 0..MaxClears /\ asks \in 0..MaxAsks
Reported == last = None \/ (last.frame \in Frame /\ last.acted \in BOOLEAN)
Served == OwnProviders /\ ServedWithinTtl /\ ExitsOnRecentBars

MarketInv == Clocks /\ Stored /\ Held /\ Passes

LEMMA MarketInit == Init => MarketInv
  <1> SUFFICES ASSUME Init PROVE MarketInv
    OBVIOUS
  <1>1. Clocks
    BY MarketAssumption DEF Init, Clocks
  <1>2. Stored
    BY DEF Init, Stored, Files
  <1>3. Held
    BY DEF Init, Held
  <1>4. Passes
    BY DEF Init, Passes
  <1> QED BY <1>1, <1>2, <1>3, <1>4 DEF MarketInv

\* What p is at is a call, and the others keep theirs.
LEMMA CallFacts ==
    Held => \A p \in Procs : call[p] # None => call[p] \in Call /\ Timely(call[p])
  BY DEF Held

LEMMA StoredStep == MarketInv /\ [Next]_vars => Stored'
  <1> SUFFICES ASSUME MarketInv, [Next]_vars PROVE Stored'
    OBVIOUS
  <1> USE DEF MarketInv
  <1>1. ASSUME UNCHANGED cache PROVE Stored'
    BY <1>1 DEF Stored, Kept
  <1>2. ASSUME NEW p \in Procs, Put(p) PROVE Stored'
    <2> DEFINE r == call[p].req
               row == [frame |-> call[p].frame, expires |-> now + Ttl(r.interval)]
    <2>1. /\ call[p] \in Call /\ r \in Requests /\ call[p].frame \in Frame
          /\ Own(Ordered(r), r.interval, call[p].frame.by)
          /\ call[p].frame.fetched \in Nat /\ call[p].frame.fetched >= call[p].asked
          /\ call[p].asked \in Nat /\ now <= call[p].asked + Patience /\ now \in Nat
      BY <1>2, CallFacts DEF Put, At, Timely, Fits, Framed, Call, Frame, Clocks
    <2>2. Ttl(r.interval) \in Nat /\ Patience \in Nat
      BY <2>1, TtlType, MarketAssumption
    <2>3. row \in Row
      BY <2>1, <2>2 DEF Row
    <2>4. Key(r)[1] = Ordered(r) /\ Key(r)[3] = r.interval
      BY DEF Key
    <2>5. row.expires <= row.frame.fetched + Ttl(r.interval) + Patience
      BY <2>1, <2>2
    <2>6. Kept(Key(r), row)
      BY <2>1, <2>3, <2>4, <2>5 DEF Kept
    <2>7. File(r) \in Files
      BY DEF File, Files
    <2>8. cache' = [cache EXCEPT ![File(r)] = Replace(cache[File(r)], Key(r), row)]
      BY <1>2 DEF Put
    <2>9. ASSUME NEW f \in Files, NEW k \in DOMAIN cache'[f] PROVE Kept(k, cache'[f][k])
      <3>1. CASE f # File(r)
        BY <2>8, <2>9, <3>1 DEF Stored
      <3>2. CASE f = File(r)
        <4>1. cache'[f] = Replace(cache[f], Key(r), row)
          BY <2>7, <2>8, <3>2 DEF Stored
        <4>2. CASE k = Key(r)
          <5>1. cache'[f][k] = row
            BY <4>1, <4>2, <2>9 DEF Replace
          <5> QED BY <5>1, <4>2, <2>6
        <4>3. CASE k # Key(r)
          <5>1. k \in DOMAIN cache[f] /\ cache'[f][k] = cache[f][k]
            BY <4>1, <4>3, <2>9 DEF Replace
          <5> QED BY <5>1 DEF Stored
        <4> QED BY <4>2, <4>3
      <3> QED BY <3>1, <3>2
    <2>10. cache' = [f \in Files |-> cache'[f]]
      BY <2>8 DEF Stored
    <2> QED BY <2>9, <2>10 DEF Stored, Kept
  <1>3. ASSUME NEW g \in Files, NEW kept \in SUBSET DOMAIN cache[g],
               cache' = [cache EXCEPT ![g] = Restrict(cache[g], kept)]
        PROVE  Stored'
    <2>1. ASSUME NEW f \in Files, NEW k \in DOMAIN cache'[f]
          PROVE  k \in DOMAIN cache[f] /\ cache'[f][k] = cache[f][k]
      <3>1. CASE f = g
        <4>1. cache'[f] = Restrict(cache[f], kept)
          BY <1>3, <3>1 DEF Stored
        <4> QED BY <2>1, <3>1, <4>1 DEF Restrict
      <3>2. CASE f # g
        BY <1>3, <2>1, <3>2 DEF Stored
      <3> QED BY <3>1, <3>2
    <2>2. cache' = [f \in Files |-> cache'[f]]
      BY <1>3 DEF Stored
    <2> QED BY <2>1, <2>2 DEF Stored, Kept
  <1>4. ASSUME NEW p \in Procs, Evict(p) PROVE Stored'
    <2>1. File(call[p].req) \in Files
      BY DEF File, Files
    <2>2. PICK rows \in Evicted(cache[File(call[p].req)]) :
                 cache' = [cache EXCEPT ![File(call[p].req)] = rows]
      BY <1>4 DEF Evict
    <2>3. CASE rows = cache[File(call[p].req)]
      <3>1. cache' = cache
        BY <2>1, <2>2, <2>3 DEF Stored
      <3> QED BY <1>1, <3>1
    <2>4. CASE rows # cache[File(call[p].req)]
      <3>1. \E kept \in SUBSET DOMAIN cache[File(call[p].req)] :
                 rows = Restrict(cache[File(call[p].req)], kept)
        BY <2>2, <2>4 DEF Evicted
      <3> QED BY <1>3, <2>1, <2>2, <3>1
    <2> QED BY <2>3, <2>4
  <1>5. ASSUME NEW kept \in SUBSET DOMAIN cache.default, Clear(kept) PROVE Stored'
    <2>1. cache' = [cache EXCEPT !["default"] = Restrict(cache["default"], kept)]
      BY <1>5 DEF Clear
    <2> QED BY <1>3, <2>1 DEF Files
  <1>6. CASE \E r \in Requests : Invalidate(r.ticker)
    BY <1>5, <1>6 DEF Invalidate
  <1>7. CASE ClearExpired
    BY <1>5, <1>7 DEF ClearExpired
  <1>8. CASE \E p \in Procs : Step(p)
    BY <1>1, <1>2, <1>4, <1>8 DEF Step, Look, Answer, Fail, GiveUp, Use
  <1>9. CASE \E p \in Procs, r \in Requests : Ask(p, r)
    BY <1>1, <1>9 DEF Ask
  <1>10. CASE Pass \/ UNCHANGED vars
    BY <1>1, <1>10 DEF Pass, vars
  <1> QED BY <1>6, <1>7, <1>8, <1>9, <1>10 DEF Next

LEMMA HeldStep == MarketInv /\ [Next]_vars => Held'
  <1> SUFFICES ASSUME MarketInv, [Next]_vars PROVE Held'
    OBVIOUS
  <1> USE DEF MarketInv
  <1>0. now \in Nat /\ Patience \in Nat /\ call \in [Procs -> Call \cup {None}]
    BY MarketAssumption DEF Clocks, Held
  \* One call changes while the time stays.
  <1>a. ASSUME NEW p \in Procs, NEW c \in Call \cup {None}, call' = [call EXCEPT ![p] = c],
               now' = now, c # None => Timely(c)
        PROVE  Held'
    <2>1. call' \in [Procs -> Call \cup {None}]
      BY <1>0, <1>a
    <2>2. ASSUME NEW q \in Procs, call'[q] # None PROVE Timely(call'[q])
      <3>1. CASE q = p
        BY <1>0, <1>a, <2>2, <3>1
      <3>2. CASE q # p
        BY <1>0, <1>a, <2>2, <3>2 DEF Held
      <3> QED BY <3>1, <3>2
    <2>3. \A q \in Procs : call'[q] # None => Timely(call[q])'
      BY <1>a, <2>2 DEF Timely
    <2> QED BY <2>1, <2>3 DEF Held
  <1>1. ASSUME NEW p \in Procs, NEW r \in Requests, Ask(p, r) PROVE Held'
    <2> DEFINE c == [step |-> "look", req |-> r, asked |-> now, tried |-> 0, frame |-> None]
    <2>1. c \in Call
      BY <1>0 DEF Call, Steps
    <2>2. Timely(c)
      BY <1>0 DEF Timely, Framed
    <2> QED BY <1>1, <1>a, <2>1, <2>2 DEF Ask
  <1>2. ASSUME NEW p \in Procs, NEW c \in Call, c.req = call[p].req, c.asked = call[p].asked,
               call[p] # None, call' = [call EXCEPT ![p] = c], now' = now,
               c.step \in Framed => Fits(c), c.step = "put" => c.frame.fetched >= c.asked
        PROVE  Held'
    BY <1>2, <1>a, CallFacts DEF Timely
  <1>3. ASSUME NEW p \in Procs, Look(p) PROVE Held'
    <2> DEFINE r == call[p].req
               rows == cache[File(r)]
    <2>1. /\ call[p] \in Call /\ r \in Requests /\ call[p] # None
          /\ call[p].asked \in Nat /\ call[p].asked <= now
      BY <1>3, CallFacts DEF Look, At, Call, Timely
    <2>2. CASE Key(r) \in DOMAIN rows /\ rows[Key(r)].expires > now
      <3> DEFINE row == rows[Key(r)]
                 c == [call[p] EXCEPT !.step = "use", !.frame = Restored(row.frame)]
      <3>1. Kept(Key(r), row)
        BY <2>2 DEF Stored, File, Files
      <3>2. Key(r)[1] = Ordered(r) /\ Key(r)[3] = r.interval
        BY DEF Key
      <3>3. /\ row.frame \in Frame /\ row.expires \in Nat
            /\ Own(Ordered(r), r.interval, row.frame.by)
            /\ row.expires <= row.frame.fetched + Ttl(r.interval) + Patience
        BY <3>1, <3>2 DEF Kept, Row
      <3>4. /\ Restored(row.frame) \in Frame /\ Restored(row.frame).by = row.frame.by
            /\ Restored(row.frame).fetched = row.frame.fetched
        BY <3>3 DEF Restored, Frame
      <3>5. c \in Call /\ c.req = r /\ c.asked = call[p].asked /\ c.frame = Restored(row.frame)
            /\ c.step = "use"
        BY <2>1, <3>4 DEF Call, Steps
      <3>6. Ttl(r.interval) \in Nat /\ row.frame.fetched \in Nat /\ row.expires \in Nat
        <4>1. row.frame.fetched \in 0..MaxTime
          BY <3>3 DEF Frame
        <4> QED BY <2>1, <3>3, <4>1, TtlType
      <3>7. c.asked <= c.frame.fetched + Ttl(c.req.interval) + Patience
        <4>1. /\ c.asked = call[p].asked /\ c.req = r
              /\ c.frame.fetched = row.frame.fetched
          BY <3>4, <3>5
        <4>2. PICK ttl, fetched : ttl = Ttl(r.interval) /\ fetched = row.frame.fetched
          OBVIOUS
        <4>3. PICK expires : expires = row.expires
          OBVIOUS
        <4>4. /\ call[p].asked <= now /\ now < expires
              /\ expires <= fetched + ttl + Patience
          BY <2>1, <2>2, <3>3, <4>2, <4>3
        <4>5. ttl \in Nat /\ fetched \in Nat /\ expires \in Nat
          BY <3>6, <4>2, <4>3
        <4>6. call[p].asked <= fetched + ttl + Patience
          BY <1>0, <2>1, <4>4, <4>5
        <4> QED BY <4>1, <4>2, <4>6
      <3>8. Fits(c)
        BY <3>3, <3>4, <3>5, <3>7 DEF Fits
      <3>9. call' = [call EXCEPT ![p] = c] /\ now' = now
        BY <1>3, <1>0, <2>2 DEF Look
      <3> QED BY <1>2, <2>1, <3>5, <3>8, <3>9
    <2>3. CASE ~(Key(r) \in DOMAIN rows /\ rows[Key(r)].expires > now)
      <3> DEFINE c == [call[p] EXCEPT !.step = "fetch"]
      <3>1. call' = [call EXCEPT ![p] = c] /\ now' = now
        BY <1>3, <1>0, <2>3 DEF Look, Goto
      <3>2. c \in Call /\ c.req = r /\ c.asked = call[p].asked /\ c.step = "fetch"
        BY <2>1 DEF Call, Steps
      <3> QED BY <1>2, <2>1, <3>1, <3>2 DEF Framed
    <2> QED BY <2>2, <2>3
  <1>4. ASSUME NEW p \in Procs, Answer(p) PROVE Held'
    <2> DEFINE r == call[p].req
               name == Names(p)[Turn(p)]
    <2>1. /\ call[p] \in Call /\ r \in Requests /\ call[p] # None
          /\ call[p].asked \in Nat /\ call[p].asked <= now
      BY <1>4, CallFacts DEF Answer, At, Call, Timely
    <2>2. name \in Ready /\ r.interval \in Supports[name] /\ Own(Ordered(r), r.interval, name)
      <3>1. name \in Ready /\ r.interval \in Supports[name] /\ Turn(p) \in DOMAIN Asked(r)
        BY <1>4 DEF Answer, Names
      <3>2. CASE Ordered(r) = <<>>
        <4>1. name = "yfinance" /\ Range(Ordered(r)) = {}
          BY <3>1, <3>2 DEF Names, Asked, Range
        <4> QED BY <3>1, <4>1 DEF Own
      <3>3. CASE Ordered(r) # <<>>
        <4>1. name \in Range(Ordered(r))
          BY <3>1, <3>3 DEF Names, Asked, Range
        <4> QED BY <3>1, <4>1 DEF Own
      <3> QED BY <3>2, <3>3
    <2>3. name \in DOMAIN Supports /\ name \in DOMAIN Answers
      BY <2>2, MarketAssumption
    <2> DEFINE at(answer) == IF answer.lag = None THEN None ELSE now - answer.lag
               fetched(answer) == [bars |-> answer.bars, at |-> at(answer), by |-> name, fetched |-> now,
                                 column |-> "times",
                                 index |-> IF name = "yfinance" THEN "times" ELSE "numbers"]
    <2>4. PICK answer \in Answers[name] :
            call' = [call EXCEPT ![p].step = "put", ![p].frame = fetched(answer)]
      BY <1>4 DEF Answer
    <2> DEFINE got == fetched(answer)
               c == [call[p] EXCEPT !.step = "put", !.frame = got]
    <2>5. got \in Frame
      <3>1. answer \in UNION Range(Answers)
        BY <2>3 DEF Range
      <3>2. answer.lag \in Nat \cup {None}
        BY <2>3, MarketAssumption
      <3>3. at(answer) \in Int \cup {None}
        BY <1>0, <3>2
      <3>4. answer.bars \in {x.bars : x \in UNION Range(Answers)}
        BY <3>1
      <3> HIDE DEF at
      <3> QED BY <1>0, <2>3, <3>3, <3>4 DEF Frame, Clocks
    <2>6. c \in Call /\ c.req = r /\ c.asked = call[p].asked /\ c.frame = got /\ c.step = "put"
      BY <2>1, <2>5 DEF Call, Steps
    <2>7. Ttl(r.interval) \in Nat /\ got.fetched = now /\ got.by = name
      BY <2>1, TtlType
    <2>8. c.asked <= c.frame.fetched + Ttl(c.req.interval) + Patience /\ c.frame.fetched >= c.asked
      BY <1>0, <2>1, <2>6, <2>7
    <2>9. Fits(c)
      BY <2>2, <2>5, <2>6, <2>7, <2>8 DEF Fits
    <2>10. call' = [call EXCEPT ![p] = c] /\ now' = now
      BY <1>4, <1>0, <2>1, <2>4 DEF Answer
    <2> QED BY <1>2, <2>1, <2>6, <2>8, <2>9, <2>10
  <1>5. ASSUME NEW p \in Procs, Fail(p) PROVE Held'
    <2> DEFINE c == [call[p] EXCEPT !.tried = @ + 1]
    <2>1. call[p] \in Call /\ call[p] # None /\ call[p].step = "fetch"
      BY <1>5, CallFacts DEF Fail, At
    <2>2. c \in Call /\ c.req = call[p].req /\ c.asked = call[p].asked /\ c.step = "fetch"
      BY <2>1 DEF Call
    <2>3. call' = [call EXCEPT ![p] = c] /\ now' = now
      BY <1>5, <1>0 DEF Fail
    <2> QED BY <1>2, <2>1, <2>2, <2>3 DEF Framed
  <1>6. ASSUME NEW p \in Procs, GiveUp(p) \/ Use(p) PROVE Held'
    BY <1>6, <1>a DEF GiveUp, Use, Done
  <1>7. ASSUME NEW p \in Procs, NEW step \in {"evict", "use"}, call[p] # None,
               call[p].step \in Framed, Goto(p, step), now' = now
        PROVE  Held'
    <2> DEFINE c == [call[p] EXCEPT !.step = step]
    <2>1. call[p] \in Call /\ Fits(call[p])
      BY <1>7, CallFacts DEF Timely
    <2>2. c \in Call /\ c.req = call[p].req /\ c.asked = call[p].asked /\ c.step # "put"
          /\ c.frame = call[p].frame
      BY <2>1 DEF Call, Steps
    <2>3. Fits(c)
      BY <2>1, <2>2 DEF Fits
    <2>4. call' = [call EXCEPT ![p] = c]
      BY <1>7, <1>0 DEF Goto
    <2> QED BY <1>2, <1>7, <2>2, <2>3, <2>4
  <1>8. ASSUME NEW p \in Procs, Put(p) \/ Evict(p) PROVE Held'
    BY <1>7, <1>8 DEF Put, Evict, At, Framed
  <1>9. CASE Pass
    <2>1. call' = call /\ now' \in Nat /\ now' >= now
      BY <1>0, <1>9, MarketAssumption DEF Pass
    <2>2. ASSUME NEW p \in Procs, call'[p] # None PROVE Timely(call[p])'
      <3>1. call[p] \in Call /\ Timely(call[p]) /\ now' <= call[p].asked + Patience
        BY <1>9, <2>1, <2>2, CallFacts DEF Pass, Passes
      <3> QED BY <1>0, <2>1, <3>1 DEF Timely, Fits, Call
    <2> QED BY <1>0, <2>1, <2>2 DEF Held
  <1>10. CASE (\E r \in Requests : Invalidate(r.ticker)) \/ ClearExpired \/ UNCHANGED vars
    BY <1>10 DEF Invalidate, ClearExpired, Clear, vars, Held, Timely, Fits
  <1> QED
    BY <1>1, <1>3, <1>4, <1>5, <1>6, <1>8, <1>9, <1>10 DEF Next, Step

\* A pass under way is bounded by the requests it has made.
LEMMA PassesStep == MarketInv /\ [Next]_vars => Passes'
  <1> SUFFICES ASSUME MarketInv, [Next]_vars PROVE Passes'
    OBVIOUS
  <1> USE DEF MarketInv
  <1>0. /\ now \in Nat /\ Patience \in Nat /\ PassRequests \in Nat /\ PassRequests > 0
        /\ call \in [Procs -> Call \cup {None}] /\ pass \in [Procs -> PassRecord \cup {None}]
    BY MarketAssumption DEF Clocks, Held, Passes
  <1>1. ASSUME UNCHANGED <<now, pass>>,
               \A p \in Procs :
                  call'[p] # None => call[p] # None /\ call'[p].asked = call[p].asked
        PROVE  Passes'
    BY <1>1 DEF Passes, InTime
  <1>3. ASSUME NEW p \in Procs, NEW a \in PassRecord \cup {None},
               pass' = [pass EXCEPT ![p] = a], now' = now, a # None => InTime(a),
               \A q \in Procs \ {p} : call'[q] = call[q],
               call'[p] # None => a # None /\ a.until = call'[p].asked + Patience
        PROVE  Passes'
    <2>1. pass' \in [Procs -> PassRecord \cup {None}]
      BY <1>0, <1>3
    <2>2. ASSUME NEW q \in Procs
          PROVE  /\ pass'[q] # None => InTime(pass[q])'
                 /\ call'[q] # None =>
                        pass'[q] # None /\ pass'[q].until = call'[q].asked + Patience
      <3>1. CASE q = p
        <4>1. pass'[q] = a
          BY <1>0, <1>3, <3>1
        <4> QED BY <1>3, <3>1, <4>1 DEF InTime
      <3>2. CASE q # p
        <4>1. pass'[q] = pass[q] /\ call'[q] = call[q]
          BY <1>0, <1>3, <3>2
        <4> QED BY <1>3, <4>1 DEF Passes, InTime
      <3> QED BY <3>1, <3>2
    <2> QED BY <2>1, <2>2 DEF Passes
  <1>4. ASSUME NEW p \in Procs, NEW r \in Requests, Ask(p, r) PROVE Passes'
    <2>1. /\ now' = now /\ call' = [call EXCEPT ![p] = [step |-> "look", req |-> r,
                                        asked |-> now, tried |-> 0, frame |-> None]]
      BY <1>4 DEF Ask
    <2>2. call'[p].asked = now /\ \A q \in Procs \ {p} : call'[q] = call[q]
      BY <1>0, <2>1
    <2>3. ASSUME NEW use \in {x.use : x \in Requests}, NEW clock \in Nat,
                 NEW made \in 1..PassRequests, Clocked(p, use, clock, made),
                 clock <= now, now + Patience <= clock + made * Patience
          PROVE  Passes'
      <3> DEFINE a == [use |-> use, clock |-> clock, made |-> made, until |-> now + Patience]
      <3>1. a \in PassRecord /\ pass' = [pass EXCEPT ![p] = a]
        BY <1>0, <2>3 DEF PassRecord, Clocked
      <3>2. InTime(a)
        BY <1>0, <2>3 DEF InTime
      <3>3. a.until = call'[p].asked + Patience /\ a # None
        <4>1. a.until = call'[p].asked + Patience
          BY <2>2
        <4>2. a \in [use : {x.use : x \in Requests}, clock : Nat, made : Nat, until : Nat]
          BY <1>0, <2>3
        <4> QED BY <4>1, <4>2, MarketAssumption
      <3> HIDE DEF a
      <3> QED BY <1>3, <2>1, <2>2, <3>1, <3>2, <3>3
    <2>4. CASE pass[p] = None /\ Clocked(p, r.use, now, 1)
      <3>1. now + Patience <= now + 1 * Patience
        BY <1>0
      <3> QED BY <1>0, <2>3, <2>4, <3>1
    <2>5. CASE /\ pass[p] # None /\ pass[p].made < PassRequests
               /\ Clocked(p, pass[p].use, pass[p].clock, pass[p].made + 1)
      <3>1. /\ pass[p] \in PassRecord /\ InTime(pass[p])
        BY <1>0, <2>5 DEF Passes
      <3>2. PICK clock, made, until :
                /\ clock = pass[p].clock /\ made = pass[p].made /\ until = pass[p].until
        OBVIOUS
      <3>3. /\ clock \in Nat /\ made \in 1..PassRequests /\ until \in Nat
            /\ pass[p].use \in {x.use : x \in Requests}
        BY <3>1, <3>2 DEF PassRecord
      <3>4. clock <= now /\ now <= until /\ until <= clock + made * Patience
        BY <3>1, <3>2 DEF InTime
      <3>5. made + 1 \in 1..PassRequests
        <4>1. made < PassRequests
          BY <2>5, <3>2
        <4> QED BY <1>0, <3>3, <4>1
      <3>6. (made + 1) * Patience = made * Patience + Patience /\ made * Patience \in Nat
        BY <1>0, <3>3
      <3>7. now + Patience <= clock + (made + 1) * Patience
        BY <1>0, <3>3, <3>4, <3>6
      <3> QED BY <2>3, <2>5, <3>2, <3>3, <3>4, <3>5, <3>7
    <2> QED BY <1>4, <2>4, <2>5 DEF Ask
  <1>5. ASSUME NEW p \in Procs, GiveUp(p) \/ Use(p) PROVE Passes'
    <2>1. now' = now /\ call' = [call EXCEPT ![p] = None]
      BY <1>5 DEF GiveUp, Use, Done
    <2>2. call'[p] = None /\ \A q \in Procs \ {p} : call'[q] = call[q]
      BY <1>0, <2>1
    <2>3. CASE pass' = pass
      BY <1>1, <2>1, <2>2, <2>3
    <2>4. CASE pass' = [pass EXCEPT ![p] = None]
      BY <1>3, <2>1, <2>2, <2>4
    <2> QED BY <1>5, <2>3, <2>4 DEF GiveUp, Use, Done
  <1>6. ASSUME NEW p \in Procs, Look(p) \/ Answer(p) \/ Fail(p) \/ Put(p) \/ Evict(p)
        PROVE  Passes'
    <2>1. UNCHANGED <<now, pass>> /\ call[p] # None
      BY <1>6 DEF Look, Answer, Fail, Put, Evict, At
    <2>2. call[p] \in Call
      BY <1>0, <2>1
    <2>3. PICK c : call' = [call EXCEPT ![p] = c] /\ c.asked = call[p].asked
      <3>1. /\ \A step : [call[p] EXCEPT !.step = step].asked = call[p].asked
            /\ [call[p] EXCEPT !.tried = @ + 1].asked = call[p].asked
        BY <2>2 DEF Call
      <3>2. CASE Look(p)
        <4> DEFINE r == call[p].req
                   rows == cache[File(r)]
        <4>1. CASE Key(r) \in DOMAIN rows /\ rows[Key(r)].expires > now
          <5>1. PICK given : call' = [call EXCEPT ![p].step = "use", ![p].frame = given]
            BY <3>2, <4>1 DEF Look
          <5>2. call' = [call EXCEPT ![p] = [call[p] EXCEPT !.step = "use", !.frame = given]]
            BY <1>0, <5>1
          <5>3. [call[p] EXCEPT !.step = "use", !.frame = given].asked = call[p].asked
            BY <2>2 DEF Call
          <5> QED BY <5>2, <5>3
        <4>2. CASE ~(Key(r) \in DOMAIN rows /\ rows[Key(r)].expires > now)
          <5>1. call' = [call EXCEPT ![p] = [call[p] EXCEPT !.step = "fetch"]]
            BY <1>0, <3>2, <4>2 DEF Look, Goto
          <5> QED BY <3>1, <5>1
        <4> QED BY <4>1, <4>2
      <3>3. CASE Answer(p)
        <4>1. PICK given : call' = [call EXCEPT ![p].step = "put", ![p].frame = given]
          BY <3>3 DEF Answer
        <4>2. call' = [call EXCEPT ![p] = [call[p] EXCEPT !.step = "put", !.frame = given]]
          BY <1>0, <4>1
        <4>3. [call[p] EXCEPT !.step = "put", !.frame = given].asked = call[p].asked
          BY <2>2 DEF Call
        <4> QED BY <4>2, <4>3
      <3>4. CASE Fail(p)
        BY <1>0, <3>1, <3>4 DEF Fail
      <3>5. CASE Put(p)
        BY <1>0, <3>1, <3>5 DEF Put, Goto
      <3>6. CASE Evict(p)
        BY <1>0, <3>1, <3>6 DEF Evict, Goto
      <3> QED BY <1>6, <3>2, <3>3, <3>4, <3>5, <3>6
    <2>4. call'[p].asked = call[p].asked /\ \A q \in Procs \ {p} : call'[q] = call[q]
      BY <1>0, <2>3
    <2> QED BY <1>1, <2>1, <2>4
  <1>7. CASE Pass
    <2>1. call' = call /\ pass' = pass /\ now' \in Nat /\ now' >= now
      BY <1>0, <1>7, MarketAssumption DEF Pass
    <2>2. \A p \in Procs : pass[p] # None => now' <= pass[p].until
      BY <1>7 DEF Pass
    <2>3. \A p \in Procs : pass[p] # None => pass[p].clock \in Nat
      BY <1>0 DEF PassRecord
    <2> QED BY <1>0, <2>1, <2>2, <2>3 DEF Passes, InTime
  <1>8. CASE (\E r \in Requests : Invalidate(r.ticker)) \/ ClearExpired \/ UNCHANGED vars
    BY <1>8 DEF Invalidate, ClearExpired, Clear, vars, Passes, InTime
  <1> QED BY <1>4, <1>5, <1>6, <1>7, <1>8 DEF Next, Step

\* Only a frame that is acted on is reported, and it is the one at hand.
LEMMA ServedStep == MarketInv /\ Served /\ Reported /\ [Next]_vars => Served' /\ Reported'
  <1> SUFFICES ASSUME MarketInv, Served, Reported, [Next]_vars PROVE Served' /\ Reported'
    OBVIOUS
  <1> USE DEF MarketInv
  <1>1. ASSUME last' = None PROVE Served' /\ Reported'
    BY <1>1 DEF Served, OwnProviders, ServedWithinTtl, ExitsOnRecentBars, Reported
  <1>2. ASSUME NEW p \in Procs, Use(p) PROVE Served' /\ Reported'
    <2> DEFINE r == call[p].req
               got == call[p].frame
    <2>1. /\ last' = [req |-> r, frame |-> got, clock |-> pass[p].clock, acted |-> Acts(p)]
          /\ now' = now
      BY <1>2 DEF Use
    <2>2. /\ call[p] \in Call /\ Timely(call[p]) /\ Fits(call[p])
      BY <1>2, CallFacts DEF Use, At, Timely, Framed
    <2>3. /\ r \in Requests /\ call[p].asked \in Nat /\ got \in Frame
          /\ got.fetched \in Nat /\ got.at \in Int \cup {None}
          /\ now \in Nat /\ now <= call[p].asked + Patience
          /\ call[p].asked <= got.fetched + Ttl(r.interval) + Patience
      BY <1>2, <2>2 DEF Use, At, Call, Timely, Fits, Frame, Clocks
    <2>4. /\ Ttl(r.interval) \in Nat /\ Patience \in Nat /\ MaxAge \in Nat
          /\ ClosedAge \in Nat /\ PassRequests \in Nat
      BY <2>3, TtlType, MarketAssumption
    <2>5. OwnProviders'
      BY <2>1, <2>2 DEF OwnProviders, Fits, Own
    <2>6. now - got.fetched <= Ttl(r.interval) + 2 * Patience
      BY <2>3, <2>4
    <2>7. ServedWithinTtl'
      BY <2>1, <2>6 DEF ServedWithinTtl
    <2> DEFINE late == PassRequests * Patience
               limit == IF pass[p].clock \in Hours THEN 60 * MaxAge ELSE 60 * Max({MaxAge, ClosedAge})
    <2>8. late \in Nat /\ pass[p].clock \in Nat /\ now <= pass[p].clock + late
      <3>1. pass[p] \in PassRecord /\ InTime(pass[p])
        BY <1>2 DEF Use, At, Passes
      <3>2. PICK clock, made, until :
                /\ clock = pass[p].clock /\ made = pass[p].made /\ until = pass[p].until
        OBVIOUS
      <3>3. clock \in Nat /\ made \in 1..PassRequests /\ until \in Nat
        BY <3>1, <3>2 DEF PassRecord
      <3>4. now <= until /\ until <= clock + made * Patience
        BY <3>1, <3>2 DEF InTime
      <3>5. made * Patience <= PassRequests * Patience /\ made * Patience \in Nat /\ late \in Nat
        BY <2>4, <3>3
      <3> HIDE DEF late
      <3>6. made * Patience <= late
        BY <3>5 DEF late
      <3> QED BY <2>3, <3>2, <3>3, <3>4, <3>5, <3>6
    <2>9. got.at # None => Age(p) \in Int /\ Age(p) >= pass[p].clock - got.at
      <3> SUFFICES ASSUME got.at # None
                   PROVE  Age(p) \in Int /\ Age(p) >= pass[p].clock - got.at
        OBVIOUS
      <3> DEFINE d == pass[p].clock - got.at
      <3>1. d \in Int /\ Age(p) = Max({0, d})
        BY <2>3, <2>8 DEF Age
      <3> HIDE DEF d
      <3>2. Max({0, d}) \in Int /\ Max({0, d}) >= d
        BY <3>1, MaxWithZero
      <3>3. Age(p) \in Int /\ Age(p) >= d
        BY <3>1, <3>2
      <3> QED BY <3>3 DEF d
    <2>10. \A bound \in Nat : got.at # None /\ Age(p) <= bound => now - got.at <= bound + late
      BY <2>3, <2>8, <2>9
    <2>11. /\ Acts(p) /\ r.use = "exit" => got.at = None \/ now - got.at <= 300 + late
           /\ Acts(p) /\ r.use = "manage" => got.at # None /\ now - got.at <= limit + late
      <3>1. ASSUME Acts(p), r.use = "exit" PROVE got.at = None \/ now - got.at <= 300 + late
        <4>1. got.at = None \/ Age(p) <= 300
          BY <3>1 DEF Acts, Recent
        <4> QED BY <2>10, <4>1
      <3>2. ASSUME Acts(p), r.use = "manage"
            PROVE  got.at # None /\ now - got.at <= limit + late
        <4>1. /\ got.at # None
              /\ \/ Age(p) <= 60 * MaxAge
                 \/ pass[p].clock \notin Hours /\ Age(p) <= 60 * ClosedAge
          BY <3>2 DEF Acts, Recent
        <4>2. PICK most : most = Max({MaxAge, ClosedAge})
          OBVIOUS
        <4>3. most \in Nat /\ most >= MaxAge /\ most >= ClosedAge
          BY <2>4, <4>2, MaxOfNats
        <4>4. limit \in Nat /\ Age(p) <= limit
          BY <2>4, <2>9, <4>1, <4>2, <4>3
        <4> HIDE DEF limit, late
        <4> QED BY <2>10, <4>1, <4>4
      <3> QED BY <3>1, <3>2
    <2>b. ExitsOnRecentBars'
      BY <2>1, <2>11 DEF ExitsOnRecentBars
    <2>12. Acts(p) \in BOOLEAN
      BY DEF Acts
    <2> QED BY <2>1, <2>3, <2>5, <2>7, <2>b, <2>12 DEF Served, Reported
  <1>3. ASSUME UNCHANGED vars PROVE Served' /\ Reported'
    BY <1>3 DEF vars, Served, OwnProviders, ServedWithinTtl, ExitsOnRecentBars, Reported
  <1>4. CASE \E p \in Procs : Step(p)
    BY <1>1, <1>2, <1>4 DEF Step, Look, Answer, Fail, GiveUp, Put, Evict
  <1>5. CASE \/ \E p \in Procs, r \in Requests : Ask(p, r)
             \/ \E r \in Requests : Invalidate(r.ticker)
             \/ ClearExpired \/ Pass
    BY <1>1, <1>5 DEF Ask, Invalidate, ClearExpired, Clear, Pass
  <1> QED BY <1>3, <1>4, <1>5 DEF Next

LEMMA ClocksStep == Clocks /\ [Next]_vars => Clocks'
  <1> SUFFICES ASSUME Clocks, [Next]_vars PROVE Clocks'
    OBVIOUS
  <1>1. {Tick, MaxTime, MaxClears, MaxAsks} \subseteq Nat
    BY MarketAssumption
  <1>2. CASE \E p \in Procs : Step(p)
    BY <1>2 DEF Step, Look, Answer, Fail, GiveUp, Put, Evict, Use, Clocks
  <1>3. CASE \E p \in Procs, r \in Requests : Ask(p, r)
    BY <1>1, <1>3 DEF Ask, Clocks
  <1>4. CASE (\E r \in Requests : Invalidate(r.ticker)) \/ ClearExpired
    <2>1. clears < MaxClears /\ clears' = clears + 1 /\ now' = now /\ asks' = asks
      BY <1>4 DEF Invalidate, ClearExpired, Clear
    <2> QED BY <1>1, <2>1 DEF Clocks
  <1>5. CASE Pass \/ UNCHANGED vars
    BY <1>1, <1>5 DEF Pass, vars, Clocks
  <1> QED BY <1>2, <1>3, <1>4, <1>5 DEF Next

-----------------------------------------------------------------------------
(* Market data: theorems                                                   *)

\* The invariant of the cache and of the requests under way, with what the last step
\* reported (MarketDataCache, fetch_bars).
THEOREM MarketInvariant == Spec => [](MarketInv /\ Served /\ Reported)
  <1>1. Init => MarketInv /\ Served /\ Reported
    BY MarketInit DEF Init, Served, OwnProviders, ServedWithinTtl, ExitsOnRecentBars, Reported
  <1>2. MarketInv /\ Served /\ Reported /\ [Next]_vars => (MarketInv /\ Served /\ Reported)'
    BY ClocksStep, StoredStep, HeldStep, PassesStep, ServedStep DEF MarketInv
  <1> QED BY <1>1, <1>2, PTL DEF Spec

\* Every row of a cache file and every frame at hand is well-formed (fetch_bars).
THEOREM MarketTypes == Spec => []TypeOK
  <1>1. MarketInv /\ Reported => TypeOK
    <2> SUFFICES ASSUME MarketInv, Reported PROVE TypeOK
      OBVIOUS
    <2>1. \A f \in DOMAIN cache : \A k \in DOMAIN cache[f] : cache[f][k] \in Row
      BY DEF MarketInv, Stored, Kept
    <2>2. \A p \in Procs : call[p] = None \/
        /\ call[p].req \in Requests /\ call[p].asked \in 0..now
        /\ call[p].step \in {"look", "fetch", "put", "evict", "use"}
        /\ call[p].frame \in Frame \cup {None}
      BY CallFacts DEF MarketInv, Clocks, Call, Steps, Timely
    <2>3. ASSUME NEW p \in Procs, pass[p] # None
          PROVE  pass[p] \in [use : {r.use : r \in Requests}, clock : 0..now,
                              made : 1..PassRequests, until : Nat]
      BY <2>3 DEF MarketInv, Passes, InTime, PassRecord, Clocks
    <2> QED BY <2>1, <2>2, <2>3 DEF TypeOK, MarketInv, Clocks, Reported
  <1> QED BY <1>1, MarketInvariant, PTL

\* However many processes of however many settings share the cache file, a caller is
\* given bars of its own providers only (_make_cache_key, _cache_namespace).
THEOREM BarsOfOwnProviders == Spec => []OwnProviders
  BY MarketInvariant, PTL DEF Served

\* Neither asking again nor a late put prolongs the life of bars beyond the lifetime of
\* their interval and the two requests that put and use them (MarketDataCache.get, put).
THEOREM NoBarOutlivesTtl == Spec => []ServedWithinTtl
  BY MarketInvariant, PTL DEF Served

\* An exit and a managed position are decided on recent bars whatever a provider's lag
\* is and whatever the cache holds (the age checks of the exits and manage-positions).
THEOREM ExitsAreRecent == Spec => []ExitsOnRecentBars
  BY MarketInvariant, PTL DEF Served

-----------------------------------------------------------------------------
(* Exchange: what a call does with one order                               *)


LEMMA Sizes ==
    /\ \A q \in Quantities : q \in Nat /\ 0 < q
    /\ \A v \in Volumes : v \in Nat
    /\ Participation \in Nat /\ 0 < Participation
  <1>1. Participation \in Nat \ {0} /\ Quantities \subseteq Nat \ {0} /\ Volumes \subseteq Nat
    BY ExchangeAssumption
  <1>2. \A q \in Quantities : q \in Nat \ {0}
    BY <1>1
  <1> QED BY <1>1, <1>2

LEMMA CapFacts ==
    ASSUME NEW b \in Bar, NEW q \in Quantities
    PROVE  Capped(b, q) \in Nat /\ 0 < Capped(b, q) /\ Capped(b, q) <= q
  <1>1. b.volume \in Nat /\ q \in Nat /\ 0 < q /\ Participation \in Nat /\ 0 < Participation
    <2>1. b.volume \in Volumes
      BY DEF Bar
    <2> QED BY <2>1, Sizes
  <1>2. b.volume \div Participation \in Nat
    BY <1>1, SMTT(30)
  <1>3. PICK n \in Nat : n = b.volume \div Participation
    BY <1>2
  <1>4. Cap(b) = IF n = 0 THEN 1 ELSE n
    BY <1>3 DEF Cap
  <1>5. Cap(b) \in Nat /\ 0 < Cap(b)
    BY <1>4
  <1> QED BY <1>1, <1>5 DEF Capped

\* A fill is of at least one share and of no more than the order asks for.
Legal(done, o) ==
    /\ done.kind \in {"raise", "rest", "fill"}
    /\ done.shares \in Nat /\ done.shares <= o.quantity
    /\ done.kind = "fill" <=> 0 < done.shares

LEMMA LimitFacts ==
    ASSUME NEW o \in Order, NEW b \in Bar
    PROVE  /\ Legal(TryFillLimit(o, b), o)
           /\ TryFillLimit(o, b).kind = "fill" => LimitCrossed(o, b) /\ b.volume # 0
           /\ TryFillLimit(o, b).kind = "raise" => b.volume = 0
  <1>1. o.quantity \in Quantities /\ o.quantity \in Nat
    BY ExchangeAssumption DEF Order
  <1>2. Capped(b, o.quantity) \in Nat /\ 0 < Capped(b, o.quantity) /\ Capped(b, o.quantity) <= o.quantity
    BY <1>1, CapFacts
  <1> QED BY <1>1, <1>2 DEF TryFillLimit, Legal, Rests, Raises, Fill, NoLiquidity

LEMMA ExecutedFacts ==
    ASSUME NEW o \in Order, NEW b \in Bar
    PROVE  /\ Legal(Executed(o, b), o)
           /\ Executed(o, b).kind = "rest" => o.type # "MARKET"
  <1>1. o.quantity \in Quantities /\ o.quantity \in Nat
    BY ExchangeAssumption DEF Order
  <1>2. Capped(b, o.quantity) \in Nat /\ 0 < Capped(b, o.quantity) /\ Capped(b, o.quantity) <= o.quantity
    BY <1>1, CapFacts
  <1>3. CASE o.type = "MARKET"
    BY <1>1, <1>2, <1>3 DEF Executed, ExecuteMarket, Legal, Raises, Fill
  <1>4. CASE o.type = "STOP"
    BY <1>1, <1>2, <1>4 DEF Executed, ExecuteStop, Legal, Raises, Rests, Fill
  <1>5. CASE o.type \notin {"MARKET", "STOP"}
    BY <1>5, LimitFacts DEF Executed
  <1> QED BY <1>3, <1>4, <1>5

LEMMA ReconsideredFacts ==
    ASSUME NEW o \in Order, NEW b \in Bar
    PROVE  /\ Legal(Reconsidered(o, b), o)
           /\ Reconsidered(o, b).kind = "raise" => b.volume = 0
           /\ Reconsidered(o, b).kind = "fill" =>
                \/ o.type = "STOP" /\ StopTriggered(o, b)
                \/ o.type = "LIMIT" /\ LimitCrossed(o, b) /\ b.volume # 0
  <1>1. o.quantity \in Nat /\ 0 < o.quantity
    <2>1. o.quantity \in Quantities
      BY DEF Order
    <2> QED BY <2>1, Sizes
  <1>2. CASE o.type = "LIMIT"
    BY <1>2, LimitFacts DEF Reconsidered
  <1>3. CASE o.type = "STOP"
    BY <1>1, <1>3 DEF Reconsidered, Legal, Rests, Fill
  <1>4. CASE o.type \notin {"LIMIT", "STOP"}
    BY <1>1, <1>4 DEF Reconsidered, Legal, Rests
  <1> QED BY <1>2, <1>3, <1>4

-----------------------------------------------------------------------------
(* Exchange: the inductive invariant                                       *)

\* What was never submitted was never filled; what rests was not filled yet.
Untouched == \A id \in Orders : order[id] = NoOrder => id \notin resting /\ fills[id] = 0 /\ filled[id] = 0
Unfilled == \A id \in resting : fills[id] = 0 /\ filled[id] = 0
Within ==
    \A id \in Orders :
        /\ fills[id] <= 1
        /\ order[id] # NoOrder => filled[id] <= order[id].quantity

ExchangeInv == ExchangeTypeOK /\ Untouched /\ Unfilled /\ Within

\* A later bar fills what was in the book.
LEMMA BarFacts ==
    ASSUME ExchangeInv, NEW b \in Bar, NextBar(b)
    PROVE  /\ resting' = resting \ FilledIds(b) /\ FilledIds(b) \subseteq resting
           /\ UNCHANGED order
           /\ \A id \in resting : order[id] \in Order
           /\ \A id \in Orders \ FilledIds(b) : fills'[id] = fills[id] /\ filled'[id] = filled[id]
           /\ \A id \in FilledIds(b) :
                /\ fills'[id] = 1
                /\ filled'[id] \in {0, Reconsidered(order[id], b).shares}
                /\ ~raised' => filled'[id] = Reconsidered(order[id], b).shares
  <1>1. /\ order \in [Orders -> Order \cup {NoOrder}] /\ resting \subseteq Orders
        /\ filled \in [Orders -> Nat] /\ fills \in [Orders -> Nat]
        /\ Untouched /\ Unfilled
    BY DEF ExchangeInv, ExchangeTypeOK
  <1>2. FilledIds(b) \subseteq resting
    BY DEF FilledIds
  <1>3. \A id \in resting : order[id] \in Order
    BY <1>1 DEF Untouched
  <1>4. /\ fills' = [id \in Orders |-> fills[id] + (IF id \in FilledIds(b) THEN 1 ELSE 0)]
        /\ filled' = [id \in Orders |->
              IF id \in FilledIds(b) /\ RaisingIds(b) = {}
              THEN filled[id] + Reconsidered(order[id], b).shares ELSE filled[id]]
        /\ raised' = ~(RaisingIds(b) = {})
    BY DEF NextBar
  <1>5. \A id \in Orders \ FilledIds(b) : fills'[id] = fills[id] /\ filled'[id] = filled[id]
    BY <1>1, <1>4
  <1>6. ASSUME NEW id \in FilledIds(b)
        PROVE  /\ fills'[id] = 1
               /\ filled'[id] \in {0, Reconsidered(order[id], b).shares}
               /\ ~raised' => filled'[id] = Reconsidered(order[id], b).shares
    <2>1. id \in Orders /\ fills[id] = 0 /\ filled[id] = 0 /\ order[id] \in Order
      BY <1>1, <1>2, <1>3 DEF Unfilled
    <2>2. Reconsidered(order[id], b).shares \in Nat
      BY <2>1, ReconsideredFacts DEF Legal
    <2>3. fills'[id] = 1
      BY <1>4, <1>6, <2>1
    <2>4. PICK n \in Nat : n = Reconsidered(order[id], b).shares
      BY <2>2
    <2>5. filled'[id] = IF RaisingIds(b) = {} THEN 0 + n ELSE 0
      BY <1>4, <1>6, <2>1, <2>4
    <2>6. filled'[id] = IF RaisingIds(b) = {} THEN n ELSE 0
      BY <2>4, <2>5
    <2>7. ~raised' => RaisingIds(b) = {}
      BY <1>4
    <2> QED BY <2>3, <2>4, <2>6, <2>7
  <1> QED BY <1>2, <1>3, <1>5, <1>6 DEF NextBar, Remaining

LEMMA ExchangeStep == ExchangeInv /\ [ExchangeNext]_exchangeVars => ExchangeInv'
  <1> SUFFICES ASSUME ExchangeInv, [ExchangeNext]_exchangeVars PROVE ExchangeInv'
    OBVIOUS
  <1>0. /\ order \in [Orders -> Order \cup {NoOrder}] /\ resting \subseteq Orders
        /\ ahead \in [Orders -> SUBSET Orders]
        /\ filled \in [Orders -> Nat] /\ fills \in [Orders -> Nat]
        /\ bar \in Bar /\ bars \in 0..MaxBars /\ raised \in BOOLEAN
        /\ Untouched /\ Unfilled /\ Within
    BY DEF ExchangeInv, ExchangeTypeOK
  <1>1. ASSUME NEW id \in Orders, NEW o \in Order, Submit(id, o) PROVE ExchangeInv'
    <2> DEFINE done == Executed(o, bar)
    <2>1. Legal(done, o)
      BY <1>0, ExecutedFacts
    <2>2. /\ order[id] = NoOrder /\ order' = [order EXCEPT ![id] = o]
          /\ raised' = (done.kind = "raise")
          /\ resting' = IF done.kind = "rest" THEN resting \cup {id} ELSE resting
          /\ ahead' = [ahead EXCEPT ![id] = IF done.kind = "rest" THEN resting ELSE {}]
          /\ filled' = [filled EXCEPT ![id] = @ + done.shares]
          /\ fills' = [fills EXCEPT ![id] = @ + (IF done.kind = "fill" THEN 1 ELSE 0)]
          /\ UNCHANGED <<bar, bars>>
      BY <1>1 DEF Submit
    <2> HIDE DEF done
    <2>3. id \notin resting /\ fills[id] = 0 /\ filled[id] = 0
      BY <1>0, <2>2 DEF Untouched
    <2>4. /\ fills'[id] = (IF done.kind = "fill" THEN 1 ELSE 0)
          /\ filled'[id] = done.shares /\ order'[id] = o
          /\ \A x \in Orders \ {id} : fills'[x] = fills[x] /\ filled'[x] = filled[x] /\ order'[x] = order[x]
      BY <1>0, <2>1, <2>2, <2>3 DEF Legal
    <2>5. done.shares \in Nat /\ done.shares <= o.quantity /\ (done.kind # "fill" => done.shares = 0)
      BY <2>1 DEF Legal
    <2>6. ExchangeTypeOK'
      <3>1. order' \in [Orders -> Order \cup {NoOrder}] /\ resting' \subseteq Orders
        BY <1>0, <2>2
      <3>2. ahead' \in [Orders -> SUBSET Orders]
        BY <1>0, <2>2
      <3>3. filled' \in [Orders -> Nat] /\ fills' \in [Orders -> Nat]
        BY <1>0, <2>2, <2>5
      <3>4. raised' \in BOOLEAN
        BY <2>2
      <3> QED BY <1>0, <2>2, <3>1, <3>2, <3>3, <3>4 DEF ExchangeTypeOK
    <2>7. Untouched'
      <3> SUFFICES ASSUME NEW x \in Orders, order'[x] = NoOrder
                   PROVE  x \notin resting' /\ fills'[x] = 0 /\ filled'[x] = 0
        BY DEF Untouched
      <3>1. x # id
        BY <2>4, NoOrderAssumption
      <3> QED BY <1>0, <2>2, <2>4, <3>1 DEF Untouched
    <2>8. Unfilled'
      <3> SUFFICES ASSUME NEW x \in resting' PROVE fills'[x] = 0 /\ filled'[x] = 0
        BY DEF Unfilled
      <3>1. CASE x = id
        BY <2>2, <2>3, <2>4, <2>5, <3>1
      <3>2. CASE x # id
        BY <1>0, <2>2, <2>4, <3>2 DEF Unfilled
      <3> QED BY <3>1, <3>2
    <2>9. Within'
      BY <1>0, <2>4, <2>5 DEF Within
    <2> QED BY <2>6, <2>7, <2>8, <2>9 DEF ExchangeInv
  <1>2. ASSUME NEW b \in Bar, NextBar(b) PROVE ExchangeInv'
    <2>1. /\ resting' = resting \ FilledIds(b) /\ FilledIds(b) \subseteq resting
          /\ UNCHANGED order
          /\ \A id \in resting : order[id] \in Order
          /\ \A id \in Orders \ FilledIds(b) : fills'[id] = fills[id] /\ filled'[id] = filled[id]
          /\ \A id \in FilledIds(b) :
               fills'[id] = 1 /\ filled'[id] \in {0, Reconsidered(order[id], b).shares}
      BY <1>2, BarFacts
    <2>2. \A id \in FilledIds(b) : filled'[id] \in Nat /\ filled'[id] <= order[id].quantity
      <3> SUFFICES ASSUME NEW id \in FilledIds(b)
                   PROVE  filled'[id] \in Nat /\ filled'[id] <= order[id].quantity
        OBVIOUS
      <3>1. order[id] \in Order /\ order[id].quantity \in Nat
        BY <2>1, ExchangeAssumption DEF Order
      <3>2. Legal(Reconsidered(order[id], b), order[id])
        BY <3>1, ReconsideredFacts
      <3> QED BY <2>1, <3>1, <3>2 DEF Legal
    <2>3. ExchangeTypeOK'
      <3>1. filled' \in [Orders -> Nat] /\ fills' \in [Orders -> Nat]
        <4>1. \A id \in Orders : filled'[id] \in Nat /\ fills'[id] \in Nat
          BY <1>0, <2>1, <2>2
        <4>2. /\ filled' = [id \in Orders |-> filled'[id]]
              /\ fills' = [id \in Orders |-> fills'[id]]
          BY <1>2 DEF NextBar
        <4> QED BY <4>1, <4>2
      <3>2. bar' \in Bar /\ bars' \in 0..MaxBars /\ raised' \in BOOLEAN /\ ahead' = ahead
        BY <1>0, <1>2, ExchangeAssumption DEF NextBar
      <3> QED BY <1>0, <2>1, <3>1, <3>2 DEF ExchangeTypeOK
    <2>4. Untouched' /\ Unfilled' /\ Within'
      BY <1>0, <2>1, <2>2 DEF Untouched, Unfilled, Within
    <2> QED BY <2>3, <2>4 DEF ExchangeInv
  <1>3. CASE UNCHANGED exchangeVars
    BY <1>3 DEF exchangeVars, ExchangeInv, ExchangeTypeOK, Untouched, Unfilled, Within
  <1> QED BY <1>1, <1>2, <1>3 DEF ExchangeNext

(***************************************************************************)
(* The book of SimulatedExecutionHandler: an order that was never          *)
(* submitted was never filled, one that rests was not filled yet, and      *)
(* nothing is filled twice or beyond its size.                             *)
(***************************************************************************)
THEOREM ExchangeInvariant == ExchangeSpec => []ExchangeInv
  <1>1. ExchangeInit => ExchangeInv
    <2> SUFFICES ASSUME ExchangeInit PROVE ExchangeInv
      OBVIOUS
    <2>1. 0 \in 0..MaxBars
      BY ExchangeAssumption
    <2>2. ExchangeTypeOK
      BY <2>1 DEF ExchangeInit, ExchangeTypeOK
    <2>3. Untouched /\ Unfilled /\ Within
      BY DEF ExchangeInit, Untouched, Unfilled, Within
    <2> QED BY <2>2, <2>3 DEF ExchangeInv
  <1> QED BY <1>1, ExchangeStep, PTL DEF ExchangeSpec

(***************************************************************************)
(* Orders, book, fills and bars keep their types.                          *)
(***************************************************************************)
THEOREM ExchangeTypes == ExchangeSpec => []ExchangeTypeOK
  <1>1. ExchangeInv => ExchangeTypeOK
    BY DEF ExchangeInv
  <1> QED BY <1>1, ExchangeInvariant, PTL

(***************************************************************************)
(* execute_order and process_resting fill an order at most once, with at   *)
(* most what it asks for, and never after it left the book.                *)
(***************************************************************************)
THEOREM OrdersFilledOnce == ExchangeSpec => []FilledOnce
  <1>1. ExchangeInv => FilledOnce
    <2> SUFFICES ASSUME ExchangeInv, NEW id \in Orders
                 PROVE  /\ fills[id] <= 1
                        /\ fills[id] = 1 => id \notin resting
                        /\ order[id] # NoOrder => filled[id] <= order[id].quantity
      BY DEF FilledOnce
    <2>1. fills[id] = 1 => id \notin resting
      BY DEF ExchangeInv, Unfilled
    <2> QED BY <2>1 DEF ExchangeInv, Within
  <1> QED BY <1>1, ExchangeInvariant, PTL

(***************************************************************************)
(* A resting order leaves the book on a bar that reaches its price, and    *)
(* only a triggered stop on a bar without volume can lose its fill.        *)
(***************************************************************************)
THEOREM BookLeftByFills == ExchangeSpec => LeavesBookFilled
  <1> DEFINE Leaves ==
        \A id \in resting : id \notin resting' =>
          /\ IF order[id].type = "STOP" THEN StopTriggered(order[id], bar')
             ELSE LimitCrossed(order[id], bar')
          /\ filled'[id] > 0 \/ (raised' /\ bar'.volume = 0 /\ order[id].type = "STOP")
  <1>1. ExchangeInv /\ [ExchangeNext]_exchangeVars => [Leaves]_exchangeVars
    <2> SUFFICES ASSUME ExchangeInv, [ExchangeNext]_exchangeVars, NEW id \in resting, id \notin resting'
                 PROVE  /\ IF order[id].type = "STOP" THEN StopTriggered(order[id], bar')
                           ELSE LimitCrossed(order[id], bar')
                        /\ filled'[id] > 0 \/ (raised' /\ bar'.volume = 0 /\ order[id].type = "STOP")
      OBVIOUS
    <2>1. PICK b \in Bar : NextBar(b)
      BY DEF ExchangeNext, Submit, exchangeVars
    <2>2. /\ bar' = b /\ id \in FilledIds(b) /\ order[id] \in Order
          /\ ~raised' => filled'[id] = Reconsidered(order[id], b).shares
      BY <2>1, BarFacts DEF NextBar
    <2>3. Reconsidered(order[id], b).kind = "fill"
      BY <2>2 DEF FilledIds
    <2>4. \/ order[id].type = "STOP" /\ StopTriggered(order[id], b)
          \/ order[id].type = "LIMIT" /\ LimitCrossed(order[id], b) /\ b.volume # 0
      BY <2>2, <2>3, ReconsideredFacts
    <2>5. CASE raised'
      <3>1. RaisingIds(b) # {}
        BY <2>1, <2>5 DEF NextBar
      <3>2. PICK x \in resting : Reconsidered(order[x], b).kind = "raise"
        BY <3>1 DEF RaisingIds
      <3>3. order[x] \in Order
        BY <2>1, BarFacts
      <3>4. b.volume = 0
        BY <3>2, <3>3, ReconsideredFacts
      <3> QED BY <2>2, <2>4, <2>5, <3>4
    <2>6. CASE ~raised'
      <3>1. filled'[id] > 0
        BY <2>2, <2>3, <2>6, ReconsideredFacts DEF Legal
      <3> QED BY <2>2, <2>4, <3>1
    <2> QED BY <2>5, <2>6
  <1> QED BY <1>1, ExchangeInvariant, PTL DEF ExchangeSpec, LeavesBookFilled

-----------------------------------------------------------------------------
(* Backtest: the least and the greatest of a set                           *)

LEMMA LeastOf ==
    ASSUME NEW S, S \subseteq Nat, S # {}
    PROVE  Min(S) \in S /\ \A x \in S : Min(S) <= x
  <1>1. IsWellFoundedOn(OpToRel(<, Nat), Nat)
    BY NatLessThanWellFounded
  <1>2. \E x \in S : \A y \in S : ~(<<y, x>> \in OpToRel(<, Nat))
    BY <1>1, WFMin
  <1>3. \E x \in S : \A y \in S : x <= y
    <2>1. PICK x \in S : \A y \in S : ~(<<y, x>> \in OpToRel(<, Nat))
      BY <1>2
    <2>2. \A y \in S : ~(y < x)
      BY <2>1 DEF OpToRel
    <2> QED BY <2>2
  <1> QED BY <1>3 DEF Min

LEMMA GreatestOf ==
    ASSUME NEW n \in Nat, NEW S, S \subseteq 0..n, S # {}
    PROVE  Max(S) \in S /\ \A x \in S : x <= Max(S)
  <1> DEFINE R == {n - x : x \in S}
  <1>1. R \subseteq Nat /\ R # {}
    <2>1. \A x \in S : x \in 0..n
      OBVIOUS
    <2>2. \A x \in S : n - x \in Nat
      BY <2>1
    <2> QED BY <2>2
  <1>2. Min(R) \in R /\ \A y \in R : Min(R) <= y
    BY <1>1, LeastOf
  <1>3. PICK x \in S : Min(R) = n - x
    BY <1>2
  <1>4. \A y \in S : n - x <= n - y
    BY <1>2, <1>3
  <1>5. \E z \in S : \A y \in S : z >= y
    BY <1>4
  <1>6. Max(S) \in S /\ \A y \in S : Max(S) >= y
    BY <1>5 DEF Max
  <1> QED BY <1>6

LEMMA LeastOfTwo == \A a, b \in Int : Min({a, b}) = IF a <= b THEN a ELSE b
  <1> SUFFICES ASSUME NEW a \in Int, NEW b \in Int
               PROVE  Min({a, b}) = IF a <= b THEN a ELSE b
    OBVIOUS
  <1>1. \E x \in {a, b} : \A y \in {a, b} : x =< y
    OBVIOUS
  <1>2. Min({a, b}) \in {a, b} /\ \A y \in {a, b} : Min({a, b}) =< y
    BY <1>1 DEF Min
  <1> QED BY <1>2

LEMMA GreatestOfTwo == \A a, b \in Int : Max({a, b}) = IF a <= b THEN b ELSE a
  <1> SUFFICES ASSUME NEW a \in Int, NEW b \in Int
               PROVE  Max({a, b}) = IF a <= b THEN b ELSE a
    OBVIOUS
  <1>1. \E x \in {a, b} : \A y \in {a, b} : x >= y
    OBVIOUS
  <1>2. Max({a, b}) \in {a, b} /\ \A y \in {a, b} : Max({a, b}) >= y
    BY <1>1 DEF Max
  <1> QED BY <1>2

-----------------------------------------------------------------------------
(* Backtest: the parameters                                                *)

LEMMA Parameters ==
    /\ MinWindow \in Nat /\ 0 < MinWindow /\ Warmup \in Nat /\ 0 < Warmup
    /\ HoldDays \in Nat /\ 0 < HoldDays /\ RiskShare \in Nat /\ 0 < RiskShare
    /\ TickerShare \in Nat /\ 0 < TickerShare
    /\ StartCash \in Nat /\ Fee \in Nat /\ Slippage \in Nat /\ MinReward \in Nat
    /\ \A s \in Stops : s \in Nat /\ 0 < s
    /\ \A t \in Targets : t \in Nat /\ 0 < t
    /\ \A m \in Multipliers : m \in Nat /\ 0 < m
  <1>1. /\ {MinWindow, Warmup, HoldDays, RiskShare, TickerShare} \subseteq Nat \ {0}
        /\ {StartCash, Fee, Slippage, MinReward} \subseteq Nat
        /\ Stops \cup Targets \cup Multipliers \subseteq Nat \ {0}
    BY BacktestAssumption
  <1>2. \A n \in Nat \ {0} : n \in Nat /\ 0 < n
    OBVIOUS
  <1> QED BY <1>1, <1>2

LEMMA PlanType ==
    ASSUME plan \in Plans
    PROVE  /\ plan.kind \in {"once", "offline", "walk"} /\ plan.mode \in {"daily", "intraday"}
           /\ plan.total \in Nat /\ plan.windows \in Nat /\ 0 < plan.windows
  <1>1. plan \in [kind : {"once", "offline", "walk"}, mode : {"daily", "intraday"},
                  total : Nat, windows : Nat \ {0}]
    BY BacktestAssumption
  <1> QED BY <1>1

LEMMA SlipType == Slip \in Nat
  BY Parameters DEF Slip

-----------------------------------------------------------------------------
(* Backtest: windows                                                       *)

\* The windows of a plan follow one another: one ends no later than the next begins.
LEMMA CountFacts ==
    ASSUME plan \in Plans
    PROVE  Count \in Nat /\ 1 <= Count /\ Size \in Nat /\ 1 <= Size
  <1>1. plan.total \in Nat /\ plan.windows \in Nat /\ 0 < plan.windows
    BY PlanType
  <1>2. PICK q \in Nat : q = plan.total \div MinWindow
    BY <1>1, Parameters
  <1>3. Count \in Nat /\ 1 <= Count
    <2>1. Max({1, q}) = IF 1 <= q THEN q ELSE 1
      BY GreatestOfTwo
    <2> QED BY <1>1, <1>2, <2>1 DEF Count
  <1>4. PICK c \in Nat : c = Count /\ 1 <= c
    BY <1>3
  <1>5. PICK s \in Nat : s = plan.total \div c
    BY <1>1, <1>4
  <1>6. Max({1, s}) = IF 1 <= s THEN s ELSE 1
    BY GreatestOfTwo
  <1> QED BY <1>3, <1>4, <1>5, <1>6 DEF Size

LEMMA WindowsFollow ==
    ASSUME plan \in Plans
    PROVE  /\ Len(Windows) \in Nat
           /\ \A k \in 1..Len(Windows) : Windows[k].from \in Int /\ Windows[k].to \in Int
           /\ \A k, l \in 1..Len(Windows) : k < l => Windows[k].to <= Windows[l].from
  <1>1. plan.total \in Nat /\ plan.kind \in {"once", "offline", "walk"}
    BY PlanType
  <1>2. CASE plan.kind = "once"
    <2>1. Windows = <<[from |-> 0, to |-> plan.total]>>
      BY <1>2 DEF Windows
    <2> QED BY <1>1, <2>1
  <1>3. CASE plan.kind = "offline"
    <2>1. Windows = [w \in 1..2 |-> Split(w)]
      BY <1>3 DEF Windows
    <2>2. Len(Windows) = 2 /\ Windows[1] = Split(1) /\ Windows[2] = Split(2)
      BY <2>1
    <2>3. TrainEnd \in Int
      BY <1>1 DEF TrainEnd
    <2> QED BY <1>1, <2>2, <2>3 DEF Split
  <1>4. CASE plan.kind = "walk"
    <2>1. PICK n \in Nat : n = (IF plan.total < 1 THEN 0 ELSE Count)
      BY <1>1, CountFacts
    <2>2. Windows = [w \in 1..n |-> WalkForward(w)]
      BY <1>4, <2>1 DEF Windows
    <2>3. Len(Windows) = n /\ \A w \in 1..n : Windows[w] = WalkForward(w)
      BY <2>2
    <2>4. PICK c, s \in Nat : c = Count /\ s = Size /\ 1 <= s
      BY CountFacts
    <2>5. \A w \in 1..n : /\ Windows[w].from = (w - 1) * s
                          /\ Windows[w].to = IF w < c THEN w * s ELSE plan.total
      BY <2>3, <2>4 DEF WalkForward
    <2>6. ASSUME NEW k \in 1..n, NEW l \in 1..n, k < l
          PROVE  Windows[k].to <= Windows[l].from
      <3>1. k < c
        BY <2>1, <2>4, <2>6
      <3>2. PICK d \in Nat : l - 1 = k + d
        BY <2>6
      <3>3. (l - 1) * s = k * s + d * s /\ d * s \in Nat /\ k * s \in Nat
        BY <2>4, <3>2
      <3> QED BY <2>5, <3>1, <3>3
    <2>7. \A w \in 1..n : (w - 1) * s \in Int /\ w * s \in Int
      BY <2>4
    <2> QED BY <1>1, <2>3, <2>5, <2>6, <2>7
  <1> QED BY <1>1, <1>2, <1>3, <1>4

\* The bars of a window are in the order of their days, and of its days.
Chronological(series, daily) ==
    \A i, j \in 1..Len(series) : i < j =>
        series[i].day <= series[j].day /\ (daily => series[i].day < series[j].day)
Stretch(series, window, daily) ==
    /\ series \in Seq(PriceBar)
    /\ Chronological(series, daily)
    /\ \A i \in 1..Len(series) : /\ series[i].low <= series[i].close
                               /\ window.from <= series[i].day /\ series[i].day <= window.to

LEMMA BarType ==
    ASSUME NEW series \in Seq(PriceBar), NEW i \in 1..Len(series)
    PROVE  /\ series[i].day \in Nat /\ series[i].open \in Nat /\ series[i].low \in Nat
           /\ series[i].high \in Nat /\ series[i].close \in Nat
  <1>1. series[i] \in PriceBar
    OBVIOUS
  <1> QED BY <1>1 DEF PriceBar

LEMMA FrameFacts ==
    ASSUME plan \in Plans, market \in Frames[plan.mode],
           NEW window, window.from \in Int, window.to \in Int, NEW latest \in Int, latest <= window.to
    PROVE  Stretch(Between(window, latest), window, Daily)
  <1>1. /\ market \in Seq(PriceBar)
        /\ \A i \in DOMAIN market : market[i].low <= market[i].close
        /\ \A i, j \in DOMAIN market : i < j =>
              market[i].day <= market[j].day /\ (plan.mode = "daily" => market[i].day < market[j].day)
    BY PlanType, FramesAssumption
  <1>2. PICK n \in Nat : n = Len(market) /\ DOMAIN market = 1..n
    BY <1>1, LenProperties
  <1>3. \A i \in 1..n : market[i] \in PriceBar /\ market[i].day \in Nat
    BY <1>1, <1>2, BarType
  <1> DEFINE kept == {i \in DOMAIN market : window.from <= market[i].day /\ market[i].day <= latest}
  <1>4. CASE kept = {}
    <2>1. Between(window, latest) = <<>>
      BY <1>4 DEF Between
    <2> QED BY <2>1 DEF Stretch, Chronological
  <1>5. CASE kept # {}
    <2>1. Min(kept) \in kept /\ \A x \in kept : Min(kept) <= x
      <3>1. kept \subseteq Nat
        BY <1>2
      <3> HIDE DEF kept
      <3> QED BY <1>5, <3>1, LeastOf
    <2>2. Max(kept) \in kept /\ \A x \in kept : x <= Max(kept)
      <3>1. kept \subseteq 0..n
        BY <1>2
      <3> HIDE DEF kept
      <3> QED BY <1>5, <3>1, GreatestOf
    <2>3. PICK a \in 1..n, b \in 1..n : a = Min(kept) /\ b = Max(kept)
      BY <1>2, <2>1, <2>2
    <2>4. a <= b /\ window.from <= market[a].day /\ market[b].day <= latest
      BY <2>1, <2>2, <2>3
    <2>5. PICK series : series = SubSeq(market, a, b)
      OBVIOUS
    <2>6. /\ series \in Seq(PriceBar) /\ Len(series) = b - a + 1
          /\ \A i \in 1..(b - a + 1) : series[i] = market[a + i - 1] /\ a + i - 1 \in a..b
      <3>1. \A i \in a..b : market[i] \in PriceBar
        BY <1>3
      <3> QED BY <2>4, <2>5, <3>1, SubSeqProperties
    <2>7. \A i \in a..b : window.from <= market[i].day /\ market[i].day <= window.to
      <3> SUFFICES ASSUME NEW i \in a..b
                   PROVE  window.from <= market[i].day /\ market[i].day <= window.to
        OBVIOUS
      <3>1. i \in 1..n /\ market[i].day \in Nat /\ market[a].day \in Nat /\ market[b].day \in Nat
        BY <1>3
      <3>2. i = a \/ a < i
        OBVIOUS
      <3>3. market[a].day <= market[i].day
        BY <1>1, <1>2, <3>1, <3>2
      <3>4. i = b \/ i < b
        OBVIOUS
      <3>5. market[i].day <= market[b].day
        BY <1>1, <1>2, <3>1, <3>4
      <3> QED BY <1>3, <2>4, <3>1, <3>3, <3>5
    <2>8. Between(window, latest) = series
      BY <1>5, <2>3, <2>5 DEF Between
    <2>9. Chronological(series, Daily)
      <3> SUFFICES ASSUME NEW i \in 1..Len(series), NEW j \in 1..Len(series), i < j
                   PROVE  series[i].day <= series[j].day /\ (Daily => series[i].day < series[j].day)
        BY DEF Chronological
      <3>1. a + i - 1 \in 1..n /\ a + j - 1 \in 1..n /\ a + i - 1 < a + j - 1
        BY <2>6
      <3> QED BY <1>1, <1>2, <2>6, <3>1 DEF Daily
    <2>10. \A i \in 1..Len(series) : /\ series[i].low <= series[i].close
                                   /\ window.from <= series[i].day /\ series[i].day <= window.to
      <3> SUFFICES ASSUME NEW i \in 1..Len(series)
                   PROVE  /\ series[i].low <= series[i].close
                          /\ window.from <= series[i].day /\ series[i].day <= window.to
        OBVIOUS
      <3>1. series[i] = market[a + i - 1] /\ a + i - 1 \in a..b /\ a + i - 1 \in 1..n
        BY <2>6
      <3> QED BY <1>1, <1>2, <2>7, <3>1
    <2> QED BY <2>6, <2>8, <2>9, <2>10 DEF Stretch
  <1> QED BY <1>4, <1>5

-----------------------------------------------------------------------------
(* Backtest: sizes                                                         *)

LEMMA Times ==
    ASSUME NEW n \in Nat, NEW q \in Nat, NEW r \in Nat, n <= q
    PROVE  n * r <= q * r
  <1>1. PICK d \in Nat : q = n + d
    OBVIOUS
  <1>2. q * r = n * r + d * r /\ d * r \in Nat /\ n * r \in Nat
    BY <1>1
  <1> QED BY <1>2

LEMMA Scaled ==
    ASSUME NEW n \in Nat, NEW c \in Nat, NEW a \in Int, NEW b \in Int, a <= b
    PROVE  n * a * c <= n * b * c
  <1>1. PICK d \in Nat : b = a + d
    OBVIOUS
  <1>2. n * b = n * a + n * d /\ n * d \in Nat /\ n * a \in Int
    BY <1>1
  <1>3. PICK e \in Nat, f \in Int : e = n * d /\ f = n * a
    BY <1>2
  <1>4. (f + e) * c = f * c + e * c /\ e * c \in Nat
    OBVIOUS
  <1> QED BY <1>2, <1>3, <1>4

\* A signal that an order can be made of.
Sound(g) == g \in Signal /\ g.stop < g.entry

\* What a size puts at risk is no more than its share of the equity.
LEMMA SizeFacts ==
    ASSUME NEW g, Sound(g), NEW equity \in Nat
    PROVE  /\ SizeOf(g, equity) \in Nat
           /\ SizeOf(g, equity) * (g.entry - g.stop) * RiskShare <= equity
  <1>1. PICK risk \in Nat : risk = g.entry - g.stop /\ 0 < risk
    BY DEF Sound, Signal
  <1>2. PICK r \in Nat : r = RiskShare * risk /\ 0 < r
    <2>1. RiskShare * risk \in Nat /\ 0 < RiskShare * risk
      BY <1>1, Parameters
    <2> QED BY <2>1
  <1>3. PICK t \in Nat : t = TickerShare * g.entry /\ 0 < t
    <2>1. TickerShare * g.entry \in Nat /\ 0 < TickerShare * g.entry
      BY Parameters DEF Sound, Signal
    <2> QED BY <2>1
  <1>4. PICK q \in Nat : q = equity \div r /\ q * r <= equity
    BY <1>2
  <1>5. PICK p \in Nat : p = equity \div t
    BY <1>3
  <1>6. PICK size \in Nat : size = Min({q, p}) /\ size <= q
    <2>1. Min({q, p}) = IF q <= p THEN q ELSE p
      BY LeastOfTwo
    <2> QED BY <2>1
  <1>7. PICK n \in Nat : n = SizeOf(g, equity) /\ n <= size
    <2>1. SizeOf(g, equity) = IF g.target - g.entry < MinReward * risk \/ size = 0 THEN 0
                              ELSE IF g.weak THEN Max({1, size \div 2}) ELSE size
      BY <1>1, <1>2, <1>3, <1>4, <1>5, <1>6 DEF SizeOf, Sound, Signal
    <2>2. PICK h \in Nat : h = size \div 2 /\ h <= size
      OBVIOUS
    <2>3. Max({1, h}) = IF 1 <= h THEN h ELSE 1
      BY GreatestOfTwo
    <2> QED BY <2>1, <2>2, <2>3
  <1>8. n * r <= q * r
    <2>1. n <= q
      BY <1>6, <1>7
    <2> QED BY <2>1, Times
  <1>9. n * risk * RiskShare = n * r
    BY <1>2, Parameters
  <1>10. n * r \in Nat /\ q * r \in Nat
    OBVIOUS
  <1> QED BY <1>1, <1>4, <1>7, <1>8, <1>9, <1>10

LEMMA QuantityType ==
    ASSUME NEW g, Sound(g), NEW equity \in Int
    PROVE  Quantity(g, equity) \in Int
  <1>1. PICK risk \in Nat : risk = g.entry - g.stop /\ 0 < risk
    BY DEF Sound, Signal
  <1>2. RiskShare * risk \in Nat /\ 0 < RiskShare * risk
    BY <1>1, Parameters
  <1>3. TickerShare * g.entry \in Nat /\ 0 < TickerShare * g.entry
    BY Parameters DEF Sound, Signal
  <1>4. PICK q \in Int : q = equity \div (RiskShare * risk)
    BY <1>2
  <1>5. PICK p \in Int : p = equity \div (TickerShare * g.entry)
    BY <1>3
  <1>6. PICK size \in Int : size = Min({q, p})
    BY LeastOfTwo
  <1>7. PICK h \in Int : h = size \div 2
    OBVIOUS
  <1>8. Max({1, h}) \in Int
    BY GreatestOfTwo
  <1>9. PICK n \in Int : n = SizeOf(g, equity)
    <2>1. SizeOf(g, equity) = IF g.target - g.entry < MinReward * risk \/ size = 0 THEN 0
                              ELSE IF g.weak THEN Max({1, h}) ELSE size
      BY <1>1, <1>4, <1>5, <1>6, <1>7 DEF SizeOf
    <2> QED BY <1>6, <1>8, <2>1
  <1>10. g.size # Nothing => Min({g.size, n}) \in Int
    BY LeastOfTwo DEF Sound, Signal
  <1> QED BY <1>9, <1>10 DEF Quantity

LEMMA QuantityFacts ==
    ASSUME NEW g, Sound(g), NEW equity \in Nat
    PROVE  /\ Quantity(g, equity) \in Nat
           /\ Quantity(g, equity) * (g.entry - g.stop) * RiskShare <= equity
  <1>1. PICK size \in Nat : /\ size = SizeOf(g, equity)
                            /\ size * (g.entry - g.stop) * RiskShare <= equity
    BY SizeFacts
  <1>2. PICK n \in Nat : n = Quantity(g, equity) /\ n <= size
    <2>1. CASE g.size = Nothing
      BY <1>1, <2>1 DEF Quantity
    <2>2. CASE g.size # Nothing
      <3>1. g.size \in Nat
        BY <2>2 DEF Sound, Signal
      <3>2. Min({g.size, size}) = IF g.size <= size THEN g.size ELSE size
        BY <3>1, LeastOfTwo
      <3> QED BY <1>1, <2>2, <3>1, <3>2 DEF Quantity
    <2> QED BY <2>1, <2>2
  <1>3. PICK risk \in Nat : risk = g.entry - g.stop
    BY DEF Sound, Signal
  <1>4. n * risk * RiskShare <= size * risk * RiskShare
    <2>1. PICK c \in Nat : c = risk * RiskShare
      BY Parameters
    <2>2. n * risk * RiskShare = n * c /\ size * risk * RiskShare = size * c
      BY <2>1, Parameters
    <2>3. n * c <= size * c
      BY <1>2, Times
    <2> QED BY <2>2, <2>3
  <1>5. n * risk * RiskShare \in Int /\ size * risk * RiskShare \in Int
    BY Parameters
  <1> QED BY <1>1, <1>2, <1>3, <1>4, <1>5

-----------------------------------------------------------------------------
(* Backtest: the invariant                                                 *)

\* A trade puts no more at risk than its share of the equity, and a closed one
\* has lost no more than it put at risk and its costs.
Sized(t, slip) ==
    t.stop < t.target /\ t.shares * (t.entry - slip - t.stop) * RiskShare <= t.equity
Bounded(r, slip) == r.shares * (r.entry - r.exit - 2 * slip) * RiskShare <= r.equity

\* It is entered on a day after the first of its window, unless the bars are intraday
\* and the daily rows numbered.
Apart == Daily \/ Dated
Inside(series, i, apart) == i \in 1..Len(series) /\ (apart => series[1].day < series[i].day)
Placed(r, series, apart) == Inside(series, r.from, apart) /\ r.to \in 1..Len(series)

Position ==
    /\ pc # "window" =>
         /\ Len(results) < Len(Windows)
         /\ Stretch(frame, Windows[Len(results) + 1], Daily)
    /\ pc = "window" => records = <<>>
    /\ pc = "bar" => cursor \in First..Len(frame)
    /\ pc = "close" => /\ ~Daily /\ 1 <= Len(frame)
                       /\ open # Nothing => open.stop < frame[Len(frame)].low
    /\ pc \in {"window", "report"} \/ Daily => open = Nothing

Holding ==
    /\ broker.shares = IF open = Nothing THEN 0 ELSE open.shares
    /\ open # Nothing => Sized(open, Slip) /\ Inside(frame, open.from, Apart)

Waiting ==
    pending # Nothing =>
        /\ open = Nothing /\ Sound(pending)
        /\ pc = "bar" => 2 <= cursor /\ Inside(frame, cursor - 1, Apart)

Closed ==
    \A k \in 1..Len(records) : Bounded(records[k], Slip) /\ Placed(records[k], frame, Apart)

Past ==
    /\ Len(results) <= Len(Windows)
    /\ \A k \in 1..Len(results) : \A d \in results[k].days :
          /\ Windows[k].from <= d /\ d <= Windows[k].to
          /\ Apart => Windows[k].from < d

BacktestInv == BacktestTypeOK /\ Position /\ Holding /\ Waiting /\ Closed /\ Past

-----------------------------------------------------------------------------
(* Backtest: trades                                                        *)

LEMMA SignalFacts ==
    ASSUME frame \in Seq(PriceBar), NEW i \in 1..Len(frame), NEW g \in Signals(i)
    PROVE  Sound(g) /\ g.stop < g.target
  <1>1. PICK c \in Nat : c = frame[i].close
    BY BarType
  <1>2. PICK s \in Stops, t \in Targets :
            g.entry = c /\ g.stop = c - s /\ g.target = c + t /\ g.weak \in BOOLEAN /\ g.size = Nothing
    BY <1>1 DEF Signals
  <1>3. g.stop > 0 /\ g = [entry |-> g.entry, stop |-> g.stop, target |-> g.target,
                           weak |-> g.weak, size |-> g.size]
    BY DEF Signals
  <1>4. s \in Nat /\ 0 < s /\ t \in Nat /\ 0 < t
    BY Parameters
  <1>5. g.stop \in Nat /\ g.target \in Nat /\ g.stop < g.entry /\ g.stop < g.target
    BY <1>2, <1>3, <1>4
  <1> QED BY <1>2, <1>3, <1>5 DEF Sound, Signal

LEMMA QueuedFacts ==
    ASSUME frame \in Seq(PriceBar), NEW i \in 1..Len(frame), NEW g \in Queued(i)
    PROVE  Sound(g)
  <1>1. CASE g \in Signals(i)
    BY <1>1, SignalFacts
  <1>2. CASE g \in UNION {Cut(h) : h \in Signals(i)}
    <2>1. PICK h \in Signals(i) : g \in Cut(h)
      BY <1>2
    <2>2. Sound(h)
      BY SignalFacts
    <2>3. PICK size \in Nat : size = SizeOf(h, StartCash)
      BY <2>2, SizeFacts, Parameters
    <2>4. PICK m \in Multipliers : g = [h EXCEPT !.size = Max({1, (size * m) \div 100})]
      BY <2>1, <2>3 DEF Cut
    <2>5. PICK n \in Nat : n = (size * m) \div 100
      <3>1. size * m \in Nat
        BY Parameters
      <3> QED BY <3>1
    <2>6. Max({1, n}) \in Nat
      BY GreatestOfTwo
    <2> QED BY <2>2, <2>4, <2>5, <2>6 DEF Sound, Signal
  <1> QED BY <1>1, <1>2 DEF Queued

LEMMA TradeFacts ==
    ASSUME NEW g, Sound(g), g.stop < g.target, NEW equity \in Nat, NEW at \in Nat
    PROVE  /\ Trade(g, equity, at) \in OpenTrade /\ Trade(g, equity, at) # Nothing
           /\ Sized(Trade(g, equity, at), Slip)
           /\ Trade(g, equity, at).from = at
           /\ Trade(g, equity, at).shares = Quantity(g, equity)
  <1>1. PICK n \in Nat : /\ n = Quantity(g, equity)
                         /\ n * (g.entry - g.stop) * RiskShare <= equity
    BY QuantityFacts
  <1>2. g.entry \in Nat /\ g.stop \in Nat /\ g.target \in Nat
    BY DEF Sound, Signal
  <1>3. (g.entry + Slip) - Slip - g.stop = g.entry - g.stop
    BY <1>2, SlipType
  <1>4. Trade(g, equity, at) \in OpenTrade
    BY <1>1, <1>2, SlipType DEF Trade, OpenTrade
  <1> QED BY <1>1, <1>3, <1>4, NothingAssumption DEF Trade, Sized

LEMMA RecordFacts ==
    ASSUME NEW t \in OpenTrade, Sized(t, Slip), NEW at \in Nat, NEW price \in Nat, t.stop <= price
    PROVE  /\ Record(t, at, price) \in ClosedTrade
           /\ Bounded(Record(t, at, price), Slip)
           /\ Record(t, at, price).from = t.from /\ Record(t, at, price).to = at
           /\ Record(t, at, price).shares = t.shares
  <1>1. /\ t.shares \in Nat /\ t.entry \in Nat /\ t.stop \in Nat /\ t.equity \in Nat
        /\ RiskShare \in Nat
    BY Parameters DEF OpenTrade
  <1>2. PICK s \in Nat : s = Slip
    BY SlipType
  <1>3. t.entry - (price - s) - 2 * s = t.entry - s - price
    BY <1>1, <1>2
  <1>4. PICK a \in Int, b \in Int : a = t.entry - s - price /\ b = t.entry - s - t.stop /\ a <= b
    BY <1>1, <1>2
  <1>5. t.shares * a * RiskShare <= t.shares * b * RiskShare
    BY <1>1, <1>4, Scaled
  <1>6. t.shares * b * RiskShare <= t.equity
    BY <1>2, <1>4 DEF Sized
  <1>7. t.shares * a * RiskShare \in Int /\ t.shares * b * RiskShare \in Int
    BY <1>1
  <1>8. t.shares * a * RiskShare <= t.equity
    BY <1>1, <1>5, <1>6, <1>7
  <1>9. Record(t, at, price) \in ClosedTrade
    BY <1>1, <1>2 DEF Record, ClosedTrade, OpenTrade
  <1>10. Bounded(Record(t, at, price), Slip)
    BY <1>2, <1>3, <1>4, <1>8 DEF Bounded, Record
  <1> QED BY <1>9, <1>10 DEF Record

\* A trade that a bar ends is ended no lower than its stop.
LEMMA ExitFacts ==
    ASSUME NEW t \in OpenTrade, t.stop < t.target, NEW quote \in PriceBar
    PROVE  ExitPrice(t, quote) \in Nat /\ t.stop <= ExitPrice(t, quote)
  BY DEF OpenTrade, PriceBar, ExitPrice

-----------------------------------------------------------------------------
(* Backtest: the steps                                                     *)

LEMMA SamePlan ==
    plan' = plan =>
        Windows' = Windows /\ Daily' = Daily /\ Apart' = Apart /\ (Slip)' = Slip /\ First' = First
  <1> SUFFICES ASSUME plan' = plan
               PROVE  Windows' = Windows /\ Daily' = Daily /\ Apart' = Apart /\ (Slip)' = Slip /\ First' = First
    OBVIOUS
  <1>1. Daily' = Daily /\ Apart' = Apart /\ Count' = Count /\ TrainEnd' = TrainEnd
    BY DEF Daily, Apart, Dated, Count, TrainEnd
  <1>2. Size' = Size
    BY <1>1 DEF Size
  <1>3. \A w : WalkForward(w)' = WalkForward(w) /\ Split(w)' = Split(w)
    BY <1>1, <1>2 DEF WalkForward, Split
  <1>4. Windows' = Windows
    BY <1>1, <1>3 DEF Windows
  <1> QED BY <1>1, <1>4 DEF Slip, First

LEMMA FirstFacts == First \in Nat /\ 1 <= First /\ (Daily => 2 <= First)
  BY Parameters DEF First

LEMMA BacktestStarts == BacktestInit => BacktestInv
  <1> SUFFICES ASSUME BacktestInit PROVE BacktestInv
    OBVIOUS
  <1>1. Len(Windows) \in Nat
    BY WindowsFollow DEF BacktestInit
  <1>2. BacktestTypeOK
    BY Parameters DEF BacktestInit, BacktestTypeOK, Fresh
  <1>3. Position /\ Holding /\ Waiting /\ Closed /\ Past
    BY <1>1 DEF BacktestInit, Position, Holding, Waiting, Closed, Past, Fresh
  <1> QED BY <1>2, <1>3 DEF BacktestInv

LEMMA BeginWindowStep == BacktestInv /\ BeginWindow => BacktestInv'
  <1> SUFFICES ASSUME BacktestInv, BeginWindow PROVE BacktestInv'
    OBVIOUS
  <1> USE DEF BacktestInv
  <1>1. plan \in Plans /\ market \in Frames[plan.mode]
    BY DEF BacktestTypeOK
  <1>2. /\ plan' = plan /\ market' = market /\ results' = results
        /\ Windows' = Windows /\ Daily' = Daily /\ Apart' = Apart /\ (Slip)' = Slip /\ First' = First
    BY SamePlan DEF BeginWindow
  <1>3. Len(results) \in Nat /\ Len(results) < Len(Windows)
    BY DEF BacktestTypeOK, BeginWindow
  <1>4. PICK n \in 1..Len(Windows) : n = Len(results) + 1
    BY <1>1, <1>3, WindowsFollow
  <1>5. PICK window : window = Windows[n] /\ window.from \in Int /\ window.to \in Int
    BY <1>1, WindowsFollow
  <1>6. PICK latest \in {window.to - 1, window.to} : frame' = Between(window, latest)
    BY <1>4, <1>5 DEF BeginWindow
  <1>7. Stretch(frame', window, Daily)
    <2>1. latest \in Int /\ latest <= window.to
      BY <1>5, <1>6
    <2> QED BY <1>1, <1>5, <1>6, <2>1, FrameFacts
  <1>8. frame' \in Seq(PriceBar) /\ Len(frame') \in Nat
    BY <1>7 DEF Stretch
  <1>9. marks' \in Seq(Int)
    <2>1. First - 1 \in Nat
      BY FirstFacts
    <2>2. PICK m \in Nat : m = Min({First - 1, Len(frame')})
      BY <1>8, <2>1, LeastOfTwo
    <2>3. marks' = [i \in 1..m |-> StartCash]
      BY <2>2 DEF BeginWindow
    <2> QED BY <2>3, Parameters
  <1>10. BacktestTypeOK'
    BY <1>1, <1>2, <1>8, <1>9, FirstFacts, Parameters DEF BacktestTypeOK, BeginWindow, Fresh
  <1>11. Position'
    <2>1. Len(results') < Len(Windows') /\ Stretch(frame', Windows'[Len(results') + 1], Daily')
      BY <1>2, <1>3, <1>4, <1>5, <1>7
    <2>2. pc' = "bar" => cursor' \in First'..Len(frame')
      BY <1>2, <1>8, FirstFacts DEF BeginWindow
    <2> QED BY <2>1, <2>2 DEF Position, BeginWindow
  <1>12. Holding' /\ Waiting' /\ Closed'
    BY DEF Holding, Waiting, Closed, BeginWindow, Fresh
  <1>13. Past'
    BY <1>2 DEF Past
  <1> QED BY <1>10, <1>11, <1>12, <1>13

LEMMA PassDayStep == BacktestInv /\ PassDay => BacktestInv'
  <1> SUFFICES ASSUME BacktestInv, PassDay PROVE BacktestInv'
    OBVIOUS
  <1> USE DEF BacktestInv
  <1>1. /\ plan' = plan /\ market' = market /\ results' = results /\ frame' = frame
        /\ broker' = broker /\ open' = open /\ pending' = pending /\ records' = records
        /\ pnl' = pnl /\ cursor' = cursor + 1
        /\ pc' = (IF cursor = Len(frame) THEN "report" ELSE "bar") /\ Daily /\ pc = "bar"
        /\ Windows' = Windows /\ Daily' = Daily /\ Apart' = Apart /\ (Slip)' = Slip /\ First' = First
    BY SamePlan DEF PassDay
  <1>2. PICK n \in Nat : n = Len(frame) /\ cursor \in First..n /\ First \in Nat /\ 1 <= First
    BY <1>1, FirstFacts DEF BacktestTypeOK, Position
  <1>3. marks' \in Seq(Int)
    <2>1. frame[cursor].close \in Nat
      BY <1>2, BarType DEF BacktestTypeOK
    <2>2. Value(broker, frame[cursor].close) \in Int
      BY <2>1 DEF BacktestTypeOK, Value
    <2> QED BY <2>2 DEF PassDay, BacktestTypeOK
  <1>4. BacktestTypeOK'
    BY <1>1, <1>2, <1>3 DEF BacktestTypeOK
  <1>5. open = Nothing
    BY <1>1 DEF Position
  <1>6. Position'
    <2>1. pc' = "bar" => cursor' \in First'..Len(frame')
      BY <1>1, <1>2
    <2>2. pc' \in {"report", "bar"}
      BY <1>1
    <2> QED BY <1>1, <1>5, <2>1, <2>2 DEF Position
  <1>7. Waiting'
    <2> SUFFICES ASSUME pending # Nothing, cursor # n
                 PROVE  2 <= cursor + 1 /\ Inside(frame, cursor, Apart)
      BY <1>1, <1>2, <1>5 DEF Waiting
    <2>1. 2 <= cursor /\ cursor \in 1..n
      BY <1>1, <1>2, FirstFacts
    <2>2. frame[1].day < frame[cursor].day
      BY <1>1, <1>2, <2>1 DEF Position, Stretch, Chronological
    <2> QED BY <1>2, <2>1, <2>2 DEF Inside
  <1>8. Holding' /\ Closed' /\ Past'
    BY <1>1 DEF Holding, Closed, Past
  <1> QED BY <1>4, <1>6, <1>7, <1>8

LEMMA ReportStep == BacktestInv /\ Report => BacktestInv'
  <1> SUFFICES ASSUME BacktestInv, Report PROVE BacktestInv'
    OBVIOUS
  <1> USE DEF BacktestInv
  <1>1. /\ plan' = plan /\ market' = market /\ frame' = <<>> /\ cursor' = 0 /\ broker' = Fresh
        /\ open' = Nothing /\ pending' = Nothing /\ records' = <<>> /\ pnl' = 0 /\ marks' = <<>>
        /\ pc' = "window" /\ pc = "report"
        /\ Windows' = Windows /\ Daily' = Daily /\ Apart' = Apart /\ (Slip)' = Slip /\ First' = First
    BY SamePlan DEF Report
  <1>2. PICK n \in Nat : n = Len(results) /\ n < Len(Windows) /\ Len(Windows) \in Nat
    BY <1>1, WindowsFollow DEF Position, BacktestTypeOK
  <1>3. PICK window : /\ window = Windows[n + 1] /\ window.from \in Int /\ window.to \in Int
                      /\ Stretch(frame, window, Daily)
    <2>1. plan \in Plans /\ n + 1 \in 1..Len(Windows)
      BY <1>2 DEF BacktestTypeOK
    <2> QED BY <1>1, <1>2, <2>1, WindowsFollow DEF Position
  <1>4. PICK len \in Nat : len = Len(frame)
    BY DEF BacktestTypeOK
  <1>5. PICK days : days = UNION {{frame[i].day : i \in records[k].from..records[k].to} :
                                    k \in DOMAIN records}
    OBVIOUS
  <1>6. \A d \in days : d \in Nat /\ window.from <= d /\ d <= window.to /\ (Apart => window.from < d)
    <2> SUFFICES ASSUME NEW d \in days
                 PROVE  d \in Nat /\ window.from <= d /\ d <= window.to /\ (Apart => window.from < d)
      OBVIOUS
    <2>1. PICK k \in DOMAIN records : \E i \in records[k].from..records[k].to : d = frame[i].day
      BY <1>5
    <2>2. Placed(records[k], frame, Apart)
      BY <2>1 DEF Closed, BacktestTypeOK
    <2>3. PICK from \in 1..len, to \in 1..len :
              /\ from = records[k].from /\ to = records[k].to
              /\ Apart => frame[1].day < frame[from].day
      BY <1>4, <2>2 DEF Placed, Inside
    <2>4. PICK i \in from..to : d = frame[i].day
      BY <2>1, <2>3
    <2>5. i \in 1..len /\ 1 \in 1..len
      BY <2>3, <2>4
    <2>6. frame[i].day \in Nat /\ frame[1].day \in Nat /\ frame[from].day \in Nat
      BY <1>4, <2>3, <2>5, BarType DEF BacktestTypeOK
    <2>7. window.from <= frame[1].day /\ window.from <= frame[i].day /\ frame[i].day <= window.to
      BY <1>3, <1>4, <2>5 DEF Stretch
    <2>8. frame[from].day <= frame[i].day
      <3>1. CASE i = from
        BY <2>6, <3>1
      <3>2. CASE i # from
        <4>1. from < i
          BY <2>3, <2>4, <3>2
        <4> QED BY <1>3, <1>4, <2>3, <2>5, <4>1 DEF Stretch, Chronological
      <3> QED BY <3>1, <3>2
    <2>9. Apart => window.from < d
      BY <1>3, <2>3, <2>4, <2>6, <2>7, <2>8
    <2> QED BY <1>3, <2>4, <2>6, <2>7, <2>8, <2>9
  <1>7. PICK result \in [pnl : Int, days : SUBSET Nat] :
            result.days = days /\ results' = Append(results, result)
    <2>1. [pnl |-> pnl, days |-> days] \in [pnl : Int, days : SUBSET Nat]
      BY <1>6 DEF BacktestTypeOK
    <2>2. results' = Append(results, [pnl |-> pnl, days |-> days])
      BY <1>5 DEF Report
    <2> QED BY <2>1, <2>2
  <1>8. /\ results' \in Seq([pnl : Int, days : SUBSET Nat]) /\ Len(results') = n + 1
        /\ \A k \in 1..n : results'[k] = results[k]
        /\ results'[n + 1] = result
    BY <1>2, <1>7, AppendProperties DEF BacktestTypeOK
  <1>9. BacktestTypeOK'
    BY <1>1, <1>8, Parameters DEF BacktestTypeOK, Fresh
  <1>10. Position' /\ Holding' /\ Waiting' /\ Closed'
    BY <1>1 DEF Position, Holding, Waiting, Closed, Fresh
  <1>11. Past'
    <2>1. Len(results') <= Len(Windows')
      BY <1>1, <1>2, <1>8
    <2>2. ASSUME NEW k \in 1..n + 1, NEW d \in results'[k].days
          PROVE  Windows[k].from <= d /\ d <= Windows[k].to /\ (Apart => Windows[k].from < d)
      <3>1. CASE k = n + 1
        BY <1>3, <1>6, <1>7, <1>8, <2>2, <3>1
      <3>2. CASE k \in 1..n
        BY <1>2, <1>8, <2>2, <3>2 DEF Past
      <3> QED BY <3>1, <3>2
    <2> QED BY <1>1, <1>2, <1>8, <2>1, <2>2 DEF Past
  <1> QED BY <1>9, <1>10, <1>11

\* What a closed trade does to the account it is settled in.
Settles(account, done) ==
    /\ broker' = [cash |-> account.cash + done.shares * done.exit - Fee,
                  shares |-> account.shares - done.shares]
    /\ records' = Append(records, done)
    /\ pnl' = pnl + Gain(done)

Ends(done, t, at) ==
    /\ done \in ClosedTrade /\ Bounded(done, Slip) /\ Placed(done, frame, Apart)
    /\ done.from = t.from /\ done.to = at /\ done.shares = t.shares /\ done.entry = t.entry

\* The trade and the account at the open of a bar, after what was queued is filled.
Opened(t, account) ==
    /\ t \in OpenTrade \cup {Nothing} /\ account \in [cash : Int, shares : Nat]
    /\ t # Nothing => Sized(t, Slip) /\ Inside(frame, t.from, Apart)
    /\ account.shares = IF t = Nothing THEN 0 ELSE t.shares
    /\ \/ t = open /\ account = broker
       \/ /\ open = Nothing /\ t # Nothing /\ t.from = cursor
          /\ account.cash = broker.cash - (t.shares * t.entry + Fee)

LEMMA Settled ==
    ASSUME records \in Seq(ClosedTrade), Closed, pnl \in Int, frame' = frame, Slip' = Slip,
           Apart' = Apart,
           NEW t \in OpenTrade, NEW account \in [cash : Int, shares : Nat], account.shares = t.shares,
           NEW at, NEW done, Ends(done, t, at), Settles(account, done)
    PROVE  /\ broker' \in [cash : Int, shares : Nat] /\ broker'.shares = 0
           /\ records' \in Seq(ClosedTrade) /\ pnl' \in Int /\ Closed'
  <1>1. done \in ClosedTrade /\ Bounded(done, Slip) /\ Placed(done, frame, Apart) /\ done.shares = account.shares
    BY DEF Ends
  <1>2. done.shares * done.exit \in Int /\ Gain(done) \in Int
    BY <1>1, Parameters DEF ClosedTrade, Gain
  <1>3. broker' \in [cash : Int, shares : Nat] /\ broker'.shares = 0 /\ pnl' \in Int
    BY <1>1, <1>2, Parameters DEF Settles
  <1>4. /\ records' \in Seq(ClosedTrade) /\ Len(records') = Len(records) + 1
        /\ \A k \in 1..Len(records) : records'[k] = records[k]
        /\ records'[Len(records) + 1] = done
    BY <1>1, AppendProperties DEF Settles
  <1>5. ASSUME NEW k \in 1..Len(records')
        PROVE  Bounded(records'[k], Slip) /\ Placed(records'[k], frame, Apart)
    <2>1. CASE k \in 1..Len(records)
      BY <1>4, <2>1 DEF Closed
    <2>2. CASE k = Len(records) + 1
      BY <1>1, <1>4, <2>2
    <2> QED BY <1>4, <2>1, <2>2
  <1> QED BY <1>3, <1>4, <1>5 DEF Closed

LEMMA ReplayBarFacts ==
    ASSUME BacktestInv, ReplayBar
    PROVE  /\ plan' = plan /\ market' = market /\ results' = results /\ frame' = frame
           /\ cursor' = cursor + 1 /\ pc' = (IF cursor = Len(frame) THEN "close" ELSE "bar")
           /\ ~Daily /\ pc = "bar" /\ cursor \in 1..Len(frame)
           /\ marks' = Append(marks, Value(broker', frame[cursor].close))
           /\ \E t, account :
                /\ Opened(t, account)
                /\ \/ /\ t # Nothing /\ open' = Nothing
                      /\ \E done : Ends(done, t, cursor) /\ Settles(account, done)
                   \/ /\ t # Nothing => t.stop < frame[cursor].low
                      /\ broker' = account /\ open' = t /\ records' = records /\ pnl' = pnl
           /\ pending' # Nothing =>
                open' = Nothing /\ cursor # Len(frame) /\ Seasoned(cursor) /\ pending' \in Queued(cursor)
  <1> USE DEF BacktestInv
  <1>1. /\ plan' = plan /\ market' = market /\ results' = results /\ frame' = frame
        /\ cursor' = cursor + 1 /\ pc' = (IF cursor = Len(frame) THEN "close" ELSE "bar")
        /\ ~Daily /\ pc = "bar"
    BY DEF ReplayBar
  <1>2. PICK n \in Nat : n = Len(frame) /\ cursor \in 1..n
    BY <1>1, FirstFacts DEF BacktestTypeOK, Position
  <1>3. /\ frame \in Seq(PriceBar) /\ broker \in [cash : Int, shares : Nat]
        /\ open \in OpenTrade \cup {Nothing} /\ pending \in Signal \cup {Nothing}
    BY DEF BacktestTypeOK
  <1> DEFINE quote == frame[cursor]
             signal == Repriced(pending, quote)
             fires == /\ pending # Nothing /\ StillValid(pending, quote)
                      /\ Fills(signal, StartCash, broker)
             held == IF fires THEN Bought(broker, signal, StartCash) ELSE broker
             trade == IF fires THEN Trade(signal, StartCash, cursor) ELSE open
             exits == trade # Nothing /\ Exits(trade, quote)
             closed == Record(trade, cursor, ExitPrice(trade, quote))
             stopped == exits /\ quote.low <= trade.stop
  <1>4. quote \in PriceBar /\ quote.open \in Nat
    BY <1>2, <1>3, BarType
  <1>5. ASSUME fires
        PROVE  /\ signal \in Signal /\ Sound(signal) /\ signal.stop < signal.target
               /\ open = Nothing /\ Inside(frame, cursor, Apart)
               /\ Quantity(signal, StartCash) \in Nat
    <2>1. pending \in Signal /\ Sound(pending) /\ open = Nothing
          /\ 2 <= cursor /\ Inside(frame, cursor - 1, Apart)
      BY <1>1, <1>3, <1>5 DEF Waiting
    <2>2. Sound(signal) /\ signal.stop < signal.target
      BY <1>4, <1>5, <2>1 DEF Repriced, StillValid, Sound, Signal
    <2>3. frame[cursor - 1].day <= frame[cursor].day
      BY <1>1, <1>2, <2>1 DEF Position, Stretch, Chronological
    <2>4. frame[1].day \in Nat /\ frame[cursor].day \in Nat /\ frame[cursor - 1].day \in Nat
      <3>1. \A i \in 1..n : frame[i].day \in Nat
        BY <1>2, <1>3, BarType
      <3>2. 1 \in 1..n /\ cursor - 1 \in 1..n
        BY <1>2, <2>1
      <3> QED BY <1>2, <3>1, <3>2
    <2>5. Inside(frame, cursor, Apart)
      BY <1>2, <2>1, <2>3, <2>4 DEF Inside
    <2> QED BY <2>1, <2>2, <2>5, QuantityFacts, Parameters DEF Sound
  <1>6. Opened(trade, held)
    <2>1. CASE fires
      <3>1. PICK t \in OpenTrade :
                /\ t = trade /\ t # Nothing /\ Sized(t, Slip)
                /\ t.from = cursor /\ t.shares = Quantity(signal, StartCash)
                /\ t.entry = signal.entry + Slip
        <4> HIDE DEF signal
        <4>1. Sound(signal) /\ signal.stop < signal.target /\ cursor \in Nat
          BY <1>2, <1>5, <2>1
        <4>2. /\ trade \in OpenTrade /\ trade # Nothing /\ Sized(trade, Slip)
              /\ trade.from = cursor /\ trade.shares = Quantity(signal, StartCash)
          BY <2>1, <4>1, TradeFacts, Parameters
        <4>3. trade.entry = signal.entry + Slip
          BY <2>1 DEF Trade
        <4> QED BY <4>2, <4>3
      <3>2. broker.shares = 0
        BY <1>5, <2>1 DEF Holding
      <3>3. PICK account : /\ account = held
                           /\ account = [cash |-> broker.cash - Cost(signal, t.shares),
                                         shares |-> broker.shares + t.shares]
        <4> HIDE DEF signal, trade
        <4> QED BY <2>1, <3>1 DEF Bought
      <3>4. Cost(signal, t.shares) = t.shares * t.entry + Fee
        <4> HIDE DEF signal
        <4> QED BY <3>1 DEF Cost
      <3>5. t.shares \in Nat /\ t.shares * t.entry + Fee \in Int
        BY Parameters DEF OpenTrade
      <3>6. /\ account \in [cash : Int, shares : Nat] /\ account.shares = t.shares
            /\ account.cash = broker.cash - (t.shares * t.entry + Fee)
        BY <1>3, <3>2, <3>3, <3>4, <3>5
      <3>7. open = Nothing /\ Inside(frame, t.from, Apart)
        BY <1>5, <2>1, <3>1
      <3>8. Opened(t, account)
        BY <3>1, <3>6, <3>7 DEF Opened
      <3> HIDE DEF trade, held
      <3> QED BY <3>1, <3>3, <3>8
    <2>2. CASE ~fires
      <3>1. trade = open /\ held = broker
        BY <2>2
      <3> HIDE DEF trade, held
      <3> QED BY <1>3, <3>1 DEF Holding, Opened
    <2> QED BY <2>1, <2>2
  <1>7. /\ IF exits
           THEN /\ broker' = [cash |-> held.cash + closed.shares * closed.exit - Fee,
                              shares |-> held.shares - closed.shares]
                /\ records' = Append(records, closed)
                /\ pnl' = pnl + Gain(closed)
                /\ open' = Nothing
           ELSE broker' = held /\ open' = trade /\ records' = records /\ pnl' = pnl
        /\ pending' \in
              IF stopped \/ open' # Nothing \/ cursor = Len(frame) \/ ~Seasoned(cursor) THEN {Nothing}
              ELSE {Nothing} \cup Queued(cursor)
        /\ marks' = Append(marks, Value(broker', quote.close))
    BY DEF ReplayBar
  <1> HIDE DEF signal, fires, held, trade
  <1>8. CASE exits
    <2>1. PICK t \in OpenTrade : /\ t = trade /\ t # Nothing /\ Sized(t, Slip)
                                 /\ Inside(frame, t.from, Apart) /\ Exits(t, quote)
      BY <1>6, <1>8 DEF Opened
    <2>2. PICK price \in Nat : price = ExitPrice(t, quote) /\ t.stop <= price
      BY <1>4, <2>1, ExitFacts DEF Sized
    <2>3. PICK done : /\ done = closed /\ done = Record(t, cursor, price)
      BY <2>1, <2>2
    <2>4. /\ done \in ClosedTrade /\ Bounded(done, Slip) /\ done.from = t.from
          /\ done.to = cursor /\ done.shares = t.shares
      BY <1>2, <2>1, <2>2, <2>3, RecordFacts
    <2>5. done.entry = t.entry
      BY <2>3 DEF Record
    <2>6. Ends(done, t, cursor)
      BY <1>2, <2>1, <2>4, <2>5 DEF Ends, Placed
    <2> HIDE DEF closed, exits
    <2>7. Settles(held, done) /\ open' = Nothing
      BY <1>7, <1>8, <2>3 DEF Settles
    <2> QED BY <1>1, <1>2, <1>6, <1>7, <2>1, <2>6, <2>7
  <1>9. CASE ~exits
    <2>1. trade # Nothing => trade.stop < quote.low
      BY <1>4, <1>6, <1>9 DEF Exits, OpenTrade, PriceBar, Opened
    <2> HIDE DEF exits
    <2>2. broker' = held /\ open' = trade /\ records' = records /\ pnl' = pnl
      BY <1>7, <1>9
    <2> QED BY <1>1, <1>2, <1>6, <1>7, <2>1, <2>2
  <1> QED BY <1>8, <1>9

LEMMA ReplayBarStep == BacktestInv /\ ReplayBar => BacktestInv'
  <1> SUFFICES ASSUME BacktestInv, ReplayBar PROVE BacktestInv'
    OBVIOUS
  <1> USE DEF BacktestInv
  <1>1. /\ plan' = plan /\ market' = market /\ results' = results /\ frame' = frame
        /\ cursor' = cursor + 1 /\ pc' = (IF cursor = Len(frame) THEN "close" ELSE "bar")
        /\ ~Daily /\ pc = "bar"
        /\ marks' = Append(marks, Value(broker', frame[cursor].close))
        /\ Windows' = Windows /\ Daily' = Daily /\ Apart' = Apart /\ (Slip)' = Slip /\ First' = First
    BY ReplayBarFacts, SamePlan
  <1>2. PICK n \in Nat : /\ n = Len(frame) /\ cursor \in First..n /\ cursor \in 1..n
                         /\ First \in Nat /\ 1 <= First
    <2>1. Len(frame) \in Nat /\ First \in Nat /\ 1 <= First
      BY FirstFacts DEF BacktestTypeOK
    <2>2. cursor \in First..Len(frame)
      BY <1>1 DEF Position
    <2> QED BY <2>1, <2>2
  <1>3. PICK t, account :
            /\ Opened(t, account)
            /\ \/ /\ t # Nothing /\ open' = Nothing
                  /\ \E done : Ends(done, t, cursor) /\ Settles(account, done)
               \/ /\ t # Nothing => t.stop < frame[cursor].low
                  /\ broker' = account /\ open' = t /\ records' = records /\ pnl' = pnl
    BY ReplayBarFacts
  <1>4. /\ t \in OpenTrade \cup {Nothing} /\ account \in [cash : Int, shares : Nat]
        /\ t # Nothing => Sized(t, Slip) /\ Inside(frame, t.from, Apart)
        /\ account.shares = IF t = Nothing THEN 0 ELSE t.shares
    BY <1>3 DEF Opened
  <1>5. /\ broker' \in [cash : Int, shares : Nat] /\ records' \in Seq(ClosedTrade) /\ pnl' \in Int
        /\ Closed' /\ open' \in OpenTrade \cup {Nothing} /\ Holding'
    <2>1. ASSUME NEW done, Ends(done, t, cursor), Settles(account, done), t # Nothing, open' = Nothing
          PROVE  /\ broker' \in [cash : Int, shares : Nat] /\ records' \in Seq(ClosedTrade)
                 /\ pnl' \in Int /\ Closed' /\ open' \in OpenTrade \cup {Nothing} /\ Holding'
      <3>1. t \in OpenTrade /\ account.shares = t.shares
        BY <1>4, <2>1
      <3>2. /\ broker' \in [cash : Int, shares : Nat] /\ broker'.shares = 0
            /\ records' \in Seq(ClosedTrade) /\ pnl' \in Int /\ Closed'
        BY <1>1, <1>4, <2>1, <3>1, Settled DEF BacktestTypeOK
      <3> QED BY <2>1, <3>2 DEF Holding
    <2>2. CASE broker' = account /\ open' = t /\ records' = records /\ pnl' = pnl
      BY <1>1, <1>4, <2>2 DEF Closed, Holding, BacktestTypeOK
    <2> QED BY <1>3, <2>1, <2>2
  <1>6. marks' \in Seq(Int)
    <2>1. frame[cursor].close \in Nat
      BY <1>2, BarType DEF BacktestTypeOK
    <2>2. Value(broker', frame[cursor].close) \in Int
      BY <1>5, <2>1 DEF Value
    <2> QED BY <1>1, <2>2 DEF BacktestTypeOK
  <1>7. pending' \in Signal \cup {Nothing} /\ Waiting'
    <2>1. CASE pending' = Nothing
      BY <2>1 DEF Waiting
    <2>2. CASE pending' # Nothing
      <3>1. open' = Nothing /\ cursor # n /\ Seasoned(cursor) /\ pending' \in Queued(cursor)
        BY <1>2, <2>2, ReplayBarFacts
      <3>2. Sound(pending')
        BY <1>2, <3>1, QueuedFacts DEF BacktestTypeOK
      <3>3. Apart => frame[1].day < frame[cursor].day
        BY <1>1, <3>1 DEF Seasoned, Apart
      <3>4. 2 <= cursor + 1 /\ Inside(frame, (cursor + 1) - 1, Apart)
        BY <1>2, <3>3 DEF Inside
      <3> QED BY <1>1, <3>1, <3>2, <3>4 DEF Waiting, Sound
    <2> QED BY <2>1, <2>2
  <1>8. BacktestTypeOK'
    BY <1>1, <1>2, <1>5, <1>6, <1>7 DEF BacktestTypeOK
  <1>9. Position'
    <2>1. ASSUME open' # Nothing PROVE open'.stop < frame[cursor].low
      BY <1>3, <2>1
    <2> QED BY <1>1, <1>2, <2>1 DEF Position
  <1>10. Past'
    BY <1>1 DEF Past
  <1> QED BY <1>5, <1>7, <1>8, <1>9, <1>10

LEMMA CloseOutFacts ==
    ASSUME BacktestInv, CloseOut
    PROVE  /\ plan' = plan /\ market' = market /\ results' = results /\ frame' = frame
           /\ cursor' = cursor /\ pending' = pending /\ marks' = marks
           /\ open' = Nothing /\ pc' = "report" /\ pc = "close"
           /\ \/ open = Nothing /\ broker' = broker /\ records' = records /\ pnl' = pnl
              \/ open # Nothing /\ \E done : Ends(done, open, Len(frame)) /\ Settles(broker, done)
  <1> USE DEF BacktestInv
  <1>1. /\ plan' = plan /\ market' = market /\ results' = results /\ frame' = frame
        /\ cursor' = cursor /\ pending' = pending /\ marks' = marks
        /\ open' = Nothing /\ pc' = "report" /\ pc = "close"
    BY DEF CloseOut
  <1>2. PICK n \in Nat : n = Len(frame) /\ 1 <= n
    BY <1>1 DEF BacktestTypeOK, Position
  <1>3. CASE open = Nothing
    BY <1>1, <1>3 DEF CloseOut
  <1>4. CASE open # Nothing
    <2>1. open \in OpenTrade /\ Sized(open, Slip) /\ Inside(frame, open.from, Apart)
      BY <1>4 DEF BacktestTypeOK, Holding
    <2>2. PICK price \in Nat : price = frame[n].close /\ open.stop <= price
      <3>1. frame[n].close \in Nat /\ frame[n].low \in Nat
        BY <1>2, BarType DEF BacktestTypeOK
      <3>2. frame[n].low <= frame[n].close /\ open.stop < frame[n].low
        BY <1>1, <1>2, <1>4 DEF Position, Stretch
      <3>3. open.stop \in Nat
        BY <2>1 DEF OpenTrade
      <3> QED BY <3>1, <3>2, <3>3
    <2>3. PICK done \in ClosedTrade : /\ done = Record(open, n, price) /\ Bounded(done, Slip)
                                      /\ done.from = open.from /\ done.to = n
                                      /\ done.shares = open.shares
      BY <2>1, <2>2, RecordFacts
    <2>4. done.entry = open.entry
      BY <2>3 DEF Record
    <2>5. Ends(done, open, n)
      BY <1>2, <2>1, <2>3, <2>4 DEF Ends, Placed
    <2>6. Settles(broker, done)
      BY <1>2, <1>4, <2>2, <2>3 DEF CloseOut, Settles
    <2> QED BY <1>1, <1>2, <1>4, <2>5, <2>6
  <1> QED BY <1>3, <1>4

LEMMA CloseOutStep == BacktestInv /\ CloseOut => BacktestInv'
  <1> SUFFICES ASSUME BacktestInv, CloseOut PROVE BacktestInv'
    OBVIOUS
  <1> USE DEF BacktestInv
  <1>1. /\ plan' = plan /\ market' = market /\ results' = results /\ frame' = frame
        /\ cursor' = cursor /\ pending' = pending /\ marks' = marks
        /\ open' = Nothing /\ pc' = "report" /\ pc = "close"
        /\ Windows' = Windows /\ Daily' = Daily /\ Apart' = Apart /\ (Slip)' = Slip /\ First' = First
    BY CloseOutFacts, SamePlan
  <1>2. /\ broker' \in [cash : Int, shares : Nat] /\ broker'.shares = 0
        /\ records' \in Seq(ClosedTrade) /\ pnl' \in Int /\ Closed'
    <2>1. CASE open = Nothing /\ broker' = broker /\ records' = records /\ pnl' = pnl
      BY <1>1, <2>1 DEF Closed, BacktestTypeOK, Holding
    <2>2. ASSUME open # Nothing, NEW done, Ends(done, open, Len(frame)), Settles(broker, done)
          PROVE  /\ broker' \in [cash : Int, shares : Nat] /\ broker'.shares = 0
                 /\ records' \in Seq(ClosedTrade) /\ pnl' \in Int /\ Closed'
      BY <1>1, <2>2, Settled DEF BacktestTypeOK, Holding
    <2> QED BY <2>1, <2>2, CloseOutFacts
  <1>3. BacktestTypeOK'
    BY <1>1, <1>2 DEF BacktestTypeOK
  <1>4. Position'
    BY <1>1 DEF Position
  <1>5. Holding' /\ Waiting' /\ Past'
    BY <1>1, <1>2 DEF Holding, Waiting, Past
  <1> QED BY <1>2, <1>3, <1>4, <1>5

\* A daily trade ends on a bar of the window, no lower than its stop.
LEMMA DailyExitFacts ==
    ASSUME NEW window, Stretch(frame, window, Daily), NEW i \in 1..Len(frame),
           NEW t \in OpenTrade, t.stop < t.target, t.stop < frame[i].close
    PROVE  /\ ExitBar(t, i) \in i..Len(frame)
           /\ DailyExit(t, i) \in Nat /\ t.stop <= DailyExit(t, i)
  <1>1. frame \in Seq(PriceBar) /\ \A j \in 1..Len(frame) : frame[j].low <= frame[j].close
    BY DEF Stretch
  <1>2. PICK n \in Nat : n = Len(frame)
    BY <1>1
  <1>3. PICK h \in Nat : h = HoldEnd(i) /\ h \in i..n
    <2>1. Min({i + HoldDays, n}) = IF i + HoldDays <= n THEN i + HoldDays ELSE n
      BY <1>2, LeastOfTwo, Parameters
    <2> QED BY <1>2, <2>1, Parameters DEF HoldEnd
  <1> DEFINE S == {h} \cup {j \in i + 1..h : Exits(t, frame[j])}
  <1>4. S \subseteq Nat /\ S # {} /\ \A j \in S : j = h \/ (j \in i + 1..h /\ Exits(t, frame[j]))
    BY <1>3
  <1>5. ExitBar(t, i) = Min(S)
    BY <1>3 DEF ExitBar
  <1> HIDE DEF S
  <1>6. PICK j \in S : j = ExitBar(t, i)
    BY <1>4, <1>5, LeastOf
  <1>7. j \in i..n /\ j \in 1..n
    BY <1>2, <1>3, <1>4
  <1>8. frame[j] \in PriceBar /\ frame[j].low <= frame[j].close
    BY <1>1, <1>2, <1>7
  <1>9. DailyExit(t, i) = IF j > i /\ Exits(t, frame[j]) THEN ExitPrice(t, frame[j]) ELSE frame[j].close
    BY <1>6 DEF DailyExit
  <1>10. DailyExit(t, i) \in Nat /\ t.stop <= DailyExit(t, i)
    <2>1. CASE j > i /\ Exits(t, frame[j])
      BY <1>8, <1>9, <2>1, ExitFacts
    <2>2. CASE j > i /\ ~Exits(t, frame[j])
      BY <1>8, <1>9, <2>2 DEF Exits, PriceBar, OpenTrade
    <2>3. CASE j = i
      BY <1>8, <1>9, <2>3 DEF PriceBar, OpenTrade
    <2> QED BY <1>7, <2>1, <2>2, <2>3
  <1> QED BY <1>2, <1>6, <1>7, <1>10

LEMMA TradeDayFacts ==
    ASSUME BacktestInv, TradeDay
    PROVE  /\ plan' = plan /\ market' = market /\ results' = results /\ frame' = frame
           /\ open' = open /\ pending' = pending /\ Daily /\ pc = "bar" /\ open = Nothing
           /\ \E t \in OpenTrade, to \in cursor..Len(frame), account \in [cash : Int, shares : Nat],
                done \in ClosedTrade :
                /\ t.from = cursor /\ account.shares = t.shares
                /\ account.cash = broker.cash - (t.shares * t.entry + Fee)
                /\ Ends(done, t, to) /\ Settles(account, done)
                /\ marks' = marks \o [k \in 1..(to - cursor + 1) |->
                                        account.cash + t.shares * frame[cursor + k - 1].close]
                /\ cursor' = to + 1
                /\ pc' = IF to = Len(frame) THEN "report" ELSE "bar"
  <1> USE DEF BacktestInv
  <1>1. /\ plan' = plan /\ market' = market /\ results' = results /\ frame' = frame
        /\ open' = open /\ pending' = pending
        /\ Daily /\ pc = "bar"
    BY DEF TradeDay
  <1>2. PICK n \in Nat : /\ n = Len(frame) /\ cursor \in First..n /\ cursor \in 1..n /\ 2 <= cursor
                         /\ First \in Nat /\ 1 <= First
    BY <1>1, FirstFacts DEF BacktestTypeOK, Position
  <1>3. /\ frame \in Seq(PriceBar) /\ broker \in [cash : Int, shares : Nat]
        /\ records \in Seq(ClosedTrade) /\ pnl \in Int /\ marks \in Seq(Int)
    BY DEF BacktestTypeOK
  <1>4. open = Nothing
    BY <1>1 DEF Position
  <1>5. PICK close \in Nat : close = frame[cursor].close
    BY <1>2, <1>3, BarType
  <1>6. PICK signal \in Signals(cursor) :
            LET equity == Value(broker, frame[cursor].close)
                trade == Trade(signal, equity, cursor)
                closed == Record(trade, ExitBar(trade, cursor), DailyExit(trade, cursor))
                paid == broker.cash - Cost(signal, trade.shares)
            IN /\ Fills(signal, equity, broker)
               /\ records' = Append(records, closed)
               /\ pnl' = pnl + Gain(closed)
               /\ broker' = [broker EXCEPT !.cash = paid + closed.shares * closed.exit - Fee]
               /\ marks' = marks \o [k \in 1..(closed.to - cursor + 1) |->
                                       paid + trade.shares * frame[cursor + k - 1].close]
               /\ cursor' = closed.to + 1
               /\ pc' = IF closed.to = Len(frame) THEN "report" ELSE "bar"
    BY DEF TradeDay
  <1>7. Sound(signal) /\ signal.stop < signal.target /\ signal.entry = close
    BY <1>2, <1>3, <1>5, SignalFacts DEF Signals
  <1>8. PICK equity \in Int : equity = Value(broker, frame[cursor].close) /\ broker.cash <= equity
    <2>1. broker.cash \in Int /\ broker.shares \in Nat
      BY <1>3
    <2>2. broker.shares * close \in Nat
      BY <2>1
    <2> QED BY <1>5, <2>1, <2>2 DEF Value
  <1>9. Fills(signal, equity, broker)
    BY <1>6, <1>8
  <1>10. PICK quantity \in Nat : quantity = Quantity(signal, equity) /\ 0 < quantity
    BY <1>7, <1>9, QuantityType DEF Fills
  <1>11. PICK cost \in Nat : cost = Cost(signal, quantity) /\ cost <= broker.cash
    <2>1. Cost(signal, quantity) \in Nat
      BY <1>7, SlipType, Parameters DEF Cost
    <2> QED BY <1>9, <1>10, <2>1 DEF Fills
  <1>12. equity \in Nat
    <2>1. broker.cash \in Int
      BY <1>3
    <2> QED BY <1>8, <1>11, <2>1
  <1>13. PICK trade \in OpenTrade :
            /\ trade = Trade(signal, equity, cursor) /\ Sized(trade, Slip) /\ trade.from = cursor
            /\ trade.shares = quantity /\ trade.stop = signal.stop
            /\ trade.entry = signal.entry + Slip
    <2>1. PICK trade \in OpenTrade :
            /\ trade = Trade(signal, equity, cursor) /\ Sized(trade, Slip) /\ trade.from = cursor
            /\ trade.shares = quantity
      BY <1>2, <1>7, <1>10, <1>12, TradeFacts
    <2>2. trade.stop = signal.stop /\ trade.entry = signal.entry + Slip
      BY <2>1 DEF Trade
    <2> QED BY <2>1, <2>2
  <1>14. PICK to \in cursor..n, price \in Nat :
            to = ExitBar(trade, cursor) /\ price = DailyExit(trade, cursor) /\ trade.stop <= price
    <2>1. Stretch(frame, Windows[Len(results) + 1], Daily)
      BY <1>1 DEF Position
    <2>2. trade.stop < trade.target /\ trade.stop < frame[cursor].close
      BY <1>5, <1>7, <1>13 DEF Sized, Sound
    <2> QED BY <1>2, <1>13, <2>1, <2>2, DailyExitFacts
  <1>15. PICK closed \in ClosedTrade :
            /\ closed = Record(trade, to, price) /\ Bounded(closed, Slip)
            /\ closed.from = cursor /\ closed.to = to /\ closed.shares = quantity
            /\ closed.entry = trade.entry
    <2>1. PICK closed \in ClosedTrade :
            /\ closed = Record(trade, to, price) /\ Bounded(closed, Slip)
            /\ closed.from = cursor /\ closed.to = to /\ closed.shares = quantity
      BY <1>2, <1>13, <1>14, RecordFacts
    <2>2. closed.entry = trade.entry
      BY <2>1 DEF Record
    <2> QED BY <2>1, <2>2
  <1>16. PICK paid \in Int : /\ paid = broker.cash - Cost(signal, trade.shares)
                             /\ paid = broker.cash - (trade.shares * trade.entry + Fee)
    <2>1. Cost(signal, trade.shares) = trade.shares * trade.entry + Fee
      BY <1>13 DEF Cost
    <2> QED BY <1>3, <1>10, <1>11, <1>13, <2>1
  <1>17. /\ records' = Append(records, closed) /\ pnl' = pnl + Gain(closed)
         /\ broker' = [broker EXCEPT !.cash = paid + closed.shares * closed.exit - Fee]
         /\ marks' = marks \o [k \in 1..(to - cursor + 1) |->
                                 paid + trade.shares * frame[cursor + k - 1].close]
         /\ cursor' = to + 1
         /\ pc' = IF to = n THEN "report" ELSE "bar"
    BY <1>2, <1>6, <1>8, <1>13, <1>14, <1>15, <1>16
  <1>18. PICK account \in [cash : Int, shares : Nat] :
            account.cash = paid /\ account.shares = trade.shares
    <2>1. [cash |-> paid, shares |-> quantity] \in [cash : Int, shares : Nat]
      OBVIOUS
    <2> QED BY <1>13, <2>1
  <1>19. Ends(closed, trade, to)
    <2>1. frame[1].day < frame[cursor].day
      BY <1>1, <1>2 DEF Position, Stretch, Chronological
    <2> QED BY <1>2, <1>13, <1>14, <1>15, <2>1 DEF Ends, Placed, Inside
  <1>20. Settles(account, closed)
    <2>1. broker.shares = 0 /\ account.shares - closed.shares = 0
      BY <1>4, <1>10, <1>13, <1>15, <1>18 DEF Holding
    <2>2. broker' = [cash |-> account.cash + closed.shares * closed.exit - Fee,
                     shares |-> account.shares - closed.shares]
      BY <1>3, <1>17, <1>18, <2>1
    <2> QED BY <1>17, <2>2 DEF Settles
  <1> QED BY <1>1, <1>2, <1>4, <1>13, <1>14, <1>16, <1>17, <1>18, <1>19, <1>20

LEMMA TradeDayStep == BacktestInv /\ TradeDay => BacktestInv'
  <1> SUFFICES ASSUME BacktestInv, TradeDay PROVE BacktestInv'
    OBVIOUS
  <1> USE DEF BacktestInv
  <1>1. /\ plan' = plan /\ market' = market /\ results' = results /\ frame' = frame
        /\ open' = open /\ pending' = pending /\ Daily /\ pc = "bar" /\ open = Nothing
        /\ Windows' = Windows /\ Daily' = Daily /\ Apart' = Apart /\ (Slip)' = Slip /\ First' = First
    BY TradeDayFacts, SamePlan
  <1>2. PICK n \in Nat : /\ n = Len(frame) /\ cursor \in First..n /\ cursor \in 1..n /\ 2 <= cursor
                         /\ First \in Nat /\ 1 <= First
    BY <1>1, FirstFacts DEF BacktestTypeOK, Position
  <1>3. PICK t \in OpenTrade, to \in cursor..n, account \in [cash : Int, shares : Nat],
               done \in ClosedTrade :
            /\ account.shares = t.shares
            /\ Ends(done, t, to) /\ Settles(account, done)
            /\ marks' = marks \o [k \in 1..(to - cursor + 1) |->
                                    account.cash + t.shares * frame[cursor + k - 1].close]
            /\ cursor' = to + 1
            /\ pc' = IF to = n THEN "report" ELSE "bar"
    BY <1>2, TradeDayFacts
  <1>4. /\ broker' \in [cash : Int, shares : Nat] /\ broker'.shares = 0
        /\ records' \in Seq(ClosedTrade) /\ pnl' \in Int /\ Closed'
    BY <1>1, <1>3, Settled DEF BacktestTypeOK
  <1>5. marks' \in Seq(Int)
    <2>1. ASSUME NEW k \in 1..(to - cursor + 1)
          PROVE  account.cash + t.shares * frame[cursor + k - 1].close \in Int
      <3>1. cursor + k - 1 \in 1..n /\ t.shares \in Nat
        BY <1>2, <1>3 DEF OpenTrade
      <3>2. PICK c \in Nat : c = frame[cursor + k - 1].close
        BY <1>2, <3>1, BarType DEF BacktestTypeOK
      <3> QED BY <3>1, <3>2
    <2>2. to - cursor + 1 \in Nat
      BY <1>2
    <2>3. [k \in 1..(to - cursor + 1) |-> account.cash + t.shares * frame[cursor + k - 1].close]
            \in Seq(Int)
      BY <2>1, <2>2
    <2> QED BY <1>3, <2>3, ConcatProperties DEF BacktestTypeOK
  <1>6. BacktestTypeOK'
    <2>1. to + 1 \in Nat
      BY <1>2
    <2>2. cursor' \in Nat /\ pc' \in {"report", "bar"}
      BY <1>3, <2>1
    <2> QED BY <1>1, <1>4, <1>5, <2>2 DEF BacktestTypeOK
  <1>7. Position'
    <2>1. to # n => to + 1 \in First..n
      BY <1>2
    <2>2. pc' = "bar" => cursor' \in First'..Len(frame')
      BY <1>1, <1>2, <1>3, <2>1
    <2>3. pc' \in {"report", "bar"}
      BY <1>3
    <2> QED BY <1>1, <2>2, <2>3 DEF Position
  <1>8. Waiting'
    <2> SUFFICES ASSUME pending # Nothing, pc' = "bar"
                 PROVE  2 <= to + 1 /\ Inside(frame, to, Apart)
      BY <1>1, <1>2, <1>3 DEF Waiting
    <2>1. 2 <= to /\ to \in 1..n
      BY <1>2
    <2>2. frame[1].day < frame[to].day
      BY <1>1, <1>2, <2>1 DEF Position, Stretch, Chronological
    <2> QED BY <1>2, <2>1, <2>2 DEF Inside
  <1>9. Holding' /\ Past'
    BY <1>1, <1>4 DEF Holding, Past
  <1> QED BY <1>4, <1>6, <1>7, <1>8, <1>9

LEMMA BacktestStutters == BacktestInv /\ UNCHANGED backtestVars => BacktestInv'
  <1> SUFFICES ASSUME BacktestInv, UNCHANGED backtestVars PROVE BacktestInv'
    OBVIOUS
  <1>1. Windows' = Windows /\ Daily' = Daily /\ Apart' = Apart /\ (Slip)' = Slip /\ First' = First
    BY SamePlan DEF backtestVars
  <1>2. BacktestTypeOK'
    BY DEF BacktestInv, BacktestTypeOK, backtestVars
  <1>3. Position'
    BY <1>1 DEF BacktestInv, Position, backtestVars
  <1>4. Holding' /\ Waiting' /\ Closed' /\ Past'
    BY <1>1 DEF BacktestInv, Holding, Waiting, Closed, Past, backtestVars
  <1> QED BY <1>2, <1>3, <1>4 DEF BacktestInv

-----------------------------------------------------------------------------
(* Backtest: the equity curve                                              *)

LEMMA CashFacts ==
    ASSUME NEW rs \in Seq(ClosedTrade)
    PROVE  /\ CashAfter(rs, 0) = StartCash
           /\ \A k \in 0..Len(rs) : CashAfter(rs, k) \in Int
           /\ \A k \in 1..Len(rs) : CashAfter(rs, k) = CashAfter(rs, k - 1) + Gain(rs[k])
  <1>1. PICK n \in Nat : n = Len(rs) /\ DOMAIN rs = 1..n
    BY LenProperties
  <1>2. PICK gains : gains = [j \in DOMAIN rs |-> Gain(rs[j])]
    OBVIOUS
  <1>3. \A j \in 1..n : gains[j] = Gain(rs[j]) /\ gains[j] \in Int
    <2> SUFFICES ASSUME NEW j \in 1..n PROVE gains[j] = Gain(rs[j]) /\ gains[j] \in Int
      OBVIOUS
    <2>1. PICK r \in ClosedTrade : r = rs[j]
      BY <1>1, ElementOfSeq
    <2>2. Gain(r) \in Int
      BY Parameters DEF Gain, ClosedTrade
    <2>3. gains[j] = Gain(rs[j])
      BY <1>1, <1>2
    <2> QED BY <2>1, <2>2, <2>3
  <1>4. \A k : CashAfter(rs, k) = StartCash + Sum(gains, 1..k)
    BY <1>2 DEF CashAfter, Total, Sum
  <1>5. \A k \in 0..n : IsFiniteSet(1..k) /\ \A j \in 1..k : gains[j] \in Int
    <2> SUFFICES ASSUME NEW k \in 0..n PROVE IsFiniteSet(1..k) /\ \A j \in 1..k : gains[j] \in Int
      OBVIOUS
    <2>1. IsFiniteSet(1..k)
      BY FS_Interval
    <2> QED BY <1>3, <2>1
  <1>6. \A k \in 0..n : Sum(gains, 1..k) \in Int
    <2> SUFFICES ASSUME NEW k \in 0..n PROVE Sum(gains, 1..k) \in Int
      OBVIOUS
    <2>1. IsFiniteSet(1..k) /\ \A j \in 1..k : gains[j] \in Int
      BY <1>5
    <2> QED BY <2>1, SumInt
  <1>7. \A k \in 1..n : Sum(gains, 1..k) = Gain(rs[k]) + Sum(gains, 1..(k - 1))
    <2> SUFFICES ASSUME NEW k \in 1..n
                 PROVE  Sum(gains, 1..k) = Gain(rs[k]) + Sum(gains, 1..(k - 1))
      OBVIOUS
    <2>1. IsFiniteSet(1..k) /\ (\A j \in 1..k : gains[j] \in Int) /\ k \in 1..k
      BY <1>5
    <2>2. Sum(gains, 1..k) = gains[k] + Sum(gains, (1..k) \ {k})
      BY <2>1, SumElement
    <2>3. (1..k) \ {k} = 1..(k - 1)
      OBVIOUS
    <2> QED BY <1>3, <2>2, <2>3
  <1>8. Sum(gains, 1..0) = 0
    <2>1. 1..0 = {}
      OBVIOUS
    <2> QED BY <2>1, FS_EmptySet, SumRow
  <1>9. \A k \in 1..n : Gain(rs[k]) \in Int /\ k - 1 \in 0..n
    BY <1>3
  <1>10. CashAfter(rs, 0) = StartCash
    BY <1>4, <1>8, Parameters
  <1>11. \A k \in 0..n : CashAfter(rs, k) \in Int
    BY <1>4, <1>6, Parameters
  <1>12. ASSUME NEW k \in 1..n PROVE CashAfter(rs, k) = CashAfter(rs, k - 1) + Gain(rs[k])
    <2>1. PICK m \in 0..n : m = k - 1
      BY <1>9
    <2>2. Sum(gains, 1..m) \in Int /\ Gain(rs[k]) \in Int
      BY <1>6, <1>9
    <2>3. CashAfter(rs, k) = StartCash + Sum(gains, 1..k) /\ CashAfter(rs, m) = StartCash + Sum(gains, 1..m)
      BY <1>4
    <2>4. Sum(gains, 1..k) = Gain(rs[k]) + Sum(gains, 1..m)
      BY <1>7, <2>1
    <2> QED BY <2>1, <2>2, <2>3, <2>4, Parameters
  <1> QED BY <1>1, <1>10, <1>11, <1>12

LEMMA Appended ==
    ASSUME NEW S, NEW rs \in Seq(S), NEW r \in S, NEW ss, ss = Append(rs, r),
           NEW n, n = Len(rs)
    PROVE  /\ ss \in Seq(S) /\ Len(ss) = n + 1 /\ DOMAIN ss = 1..(n + 1) /\ ss[n + 1] = r
           /\ \A k \in 1..n : ss[k] = rs[k]
  <1>1. /\ ss \in Seq(S) /\ Len(ss) = n + 1 /\ ss[n + 1] = r
        /\ \A k \in 1..n : ss[k] = rs[k]
    BY AppendProperties
  <1>2. DOMAIN ss = 1..(n + 1)
    BY <1>1, LenProperties
  <1> QED BY <1>1, <1>2

LEMMA CashAppend ==
    ASSUME NEW rs \in Seq(ClosedTrade), NEW r \in ClosedTrade
    PROVE  \A k \in 0..Len(rs) : CashAfter(Append(rs, r), k) = CashAfter(rs, k)
  <1>1. PICK n \in Nat : n = Len(rs) /\ DOMAIN rs = 1..n
    BY LenProperties
  <1> DEFINE ss == Append(rs, r)
  <1>2. ss \in Seq(ClosedTrade) /\ DOMAIN ss = 1..(n + 1) /\ \A k \in 1..n : ss[k] = rs[k]
    BY <1>1, Appended
  <1> HIDE DEF ss
  <1>3. PICK f : f = [j \in DOMAIN rs |-> Gain(rs[j])]
    OBVIOUS
  <1>4. PICK g : g = [j \in DOMAIN ss |-> Gain(ss[j])]
    OBVIOUS
  <1>5. /\ \A k : CashAfter(rs, k) = StartCash + Sum(f, 1..k)
        /\ \A k : CashAfter(ss, k) = StartCash + Sum(g, 1..k)
    BY <1>3, <1>4 DEF CashAfter, Total, Sum
  <1>6. \A j \in 1..n : f[j] = g[j]
    BY <1>1, <1>2, <1>3, <1>4
  <1>7. ASSUME NEW k \in 0..n PROVE Sum(g, 1..k) = Sum(f, 1..k)
    <2>1. IsFiniteSet(1..k)
      BY FS_Interval
    <2>2. \A j \in 1..k : g[j] = f[j]
      BY <1>6
    <2> QED BY <2>1, <2>2, SumEqual
  <1> QED BY <1>1, <1>5, <1>7 DEF ss

\* Trades are one after another, the open one last.
Turns(rs, t, at) ==
    /\ \A k \in 1..Len(rs) : rs[k].from <= rs[k].to /\ rs[k].to < at
    /\ \A k, l \in 1..Len(rs) : k < l => rs[k].to < rs[l].from
    /\ t # Nothing => t.from < at /\ \A k \in 1..Len(rs) : rs[k].to < t.from

Spent(t) == t.shares * t.entry + Fee
Worth(cash, t, quote) == cash - Spent(t) + t.shares * quote.close

\* What each bar is marked at: in a trade by its shares, otherwise by the cash.
Curved(ms, rs, t, series) ==
    \A i \in 1..Len(ms) :
        /\ t # Nothing /\ t.from <= i => ms[i] = Worth(CashAfter(rs, Len(rs)), t, series[i])
        /\ \A k \in 1..Len(rs) : rs[k].from <= i /\ i < rs[k].to =>
              ms[i] = Worth(CashAfter(rs, k - 1), rs[k], series[i])
        /\ \A k \in 0..Len(rs) :
              /\ k = 0 \/ rs[k].to < i
              /\ k = Len(rs) \/ i < rs[k + 1].from
              /\ t = Nothing \/ i < t.from
              => ms[i] = CashAfter(rs, k)

Funds ==
    /\ pnl = CashAfter(records, Len(records)) - StartCash
    /\ broker.cash = CashAfter(records, Len(records)) - IF open = Nothing THEN 0 ELSE Spent(open)
Marking ==
    /\ pc = "bar" => Len(marks) = cursor - 1
    /\ pc = "close" => cursor = Len(frame) + 1
    /\ pc \in {"close", "report"} => Len(marks) = Len(frame)
    /\ pc = "window" => marks = <<>> /\ open = Nothing

CurveInv == Turns(records, open, cursor) /\ Funds /\ Marking /\ Curved(marks, records, open, frame)

LEMMA RecordType ==
    ASSUME NEW rs \in Seq(ClosedTrade), NEW k \in 1..Len(rs)
    PROVE  rs[k].from \in Nat /\ rs[k].to \in Nat
  <1>1. rs[k] \in ClosedTrade
    BY ElementOfSeq
  <1> QED BY <1>1 DEF ClosedTrade

\* A trade is opened at the bar that comes next.
LEMMA OpenedCurve ==
    ASSUME NEW rs \in Seq(ClosedTrade), NEW ms \in Seq(Int), NEW series, NEW t \in OpenTrade,
           Turns(rs, Nothing, t.from), Curved(ms, rs, Nothing, series), Len(ms) < t.from
    PROVE  Turns(rs, t, t.from + 1) /\ Curved(ms, rs, t, series)
  <1>1. t.from \in Nat /\ Len(ms) \in Nat
    BY DEF OpenTrade
  <1>2. Turns(rs, t, t.from + 1)
    BY <1>1, RecordType DEF Turns
  <1>3. \A i \in 1..Len(ms) : ~(t.from <= i)
    BY <1>1
  <1>4. Curved(ms, rs, t, series)
    BY <1>3 DEF Curved
  <1> QED BY <1>2, <1>4

\* The open trade is settled at a bar that is not marked yet, or the last one.
LEMMA SettledCurve ==
    ASSUME NEW rs \in Seq(ClosedTrade), NEW ms \in Seq(Int), NEW series, NEW t \in OpenTrade,
           NEW r \in ClosedTrade, NEW at \in Nat, t # Nothing,
           r.from = t.from, r.shares = t.shares, r.entry = t.entry,
           t.from <= r.to, r.to < at, Len(ms) <= r.to,
           Turns(rs, t, at), Curved(ms, rs, t, series)
    PROVE  Turns(Append(rs, r), Nothing, at) /\ Curved(ms, Append(rs, r), Nothing, series)
  <1>1. PICK n \in Nat : n = Len(rs)
    OBVIOUS
  <1>2. PICK ss \in Seq(ClosedTrade) :
            /\ ss = Append(rs, r) /\ Len(ss) = n + 1 /\ ss[n + 1] = r
            /\ \A k \in 1..n : ss[k] = rs[k]
    <2>1. PICK ss : ss = Append(rs, r)
      OBVIOUS
    <2>2. /\ ss \in Seq(ClosedTrade) /\ Len(ss) = n + 1 /\ ss[n + 1] = r
          /\ \A k \in 1..n : ss[k] = rs[k]
      BY <1>1, <2>1, Appended
    <2> QED BY <2>1, <2>2
  <1>3. /\ t.from \in Nat /\ r.to \in Nat /\ r.from \in Nat /\ Len(ms) \in Nat
        /\ \A k \in 1..n : rs[k].from \in Nat /\ rs[k].to \in Nat
    <2>1. \A k \in 1..n : rs[k].from \in Nat /\ rs[k].to \in Nat
      BY <1>1, RecordType
    <2> QED BY <2>1 DEF OpenTrade, ClosedTrade
  <1>4. \A k \in 0..n : CashAfter(ss, k) = CashAfter(rs, k)
    BY <1>1, <1>2, CashAppend
  <1>5. Turns(ss, Nothing, at)
    <2>1. \A k \in 1..(n + 1) : ss[k].from <= ss[k].to /\ ss[k].to < at
      <3> SUFFICES ASSUME NEW k \in 1..(n + 1) PROVE ss[k].from <= ss[k].to /\ ss[k].to < at
        OBVIOUS
      <3>1. CASE k \in 1..n
        BY <1>1, <1>2, <3>1 DEF Turns
      <3>2. CASE k = n + 1
        BY <1>2, <3>2
      <3> QED BY <3>1, <3>2
    <2>2. ASSUME NEW k \in 1..(n + 1), NEW l \in 1..(n + 1), k < l
          PROVE  ss[k].to < ss[l].from
      <3>1. CASE l \in 1..n
        <4>1. k \in 1..n
          BY <2>2, <3>1
        <4> QED BY <1>1, <1>2, <2>2, <3>1, <4>1 DEF Turns
      <3>2. CASE l = n + 1
        <4>1. k \in 1..n
          BY <2>2, <3>2
        <4> QED BY <1>1, <1>2, <2>2, <3>2, <4>1 DEF Turns
      <3> QED BY <3>1, <3>2
    <2> QED BY <1>2, <2>1, <2>2 DEF Turns
  <1>6. ASSUME NEW i \in 1..Len(ms)
        PROVE  /\ \A k \in 1..(n + 1) : ss[k].from <= i /\ i < ss[k].to =>
                     ms[i] = Worth(CashAfter(ss, k - 1), ss[k], series[i])
               /\ \A k \in 0..(n + 1) :
                     /\ k = 0 \/ ss[k].to < i
                     /\ k = n + 1 \/ i < ss[k + 1].from
                     => ms[i] = CashAfter(ss, k)
    <2>1. ASSUME NEW k \in 1..(n + 1), ss[k].from <= i, i < ss[k].to
          PROVE  ms[i] = Worth(CashAfter(ss, k - 1), ss[k], series[i])
      <3>1. CASE k \in 1..n
        <4>1. ms[i] = Worth(CashAfter(rs, k - 1), rs[k], series[i])
          BY <1>1, <1>2, <2>1, <3>1 DEF Curved
        <4> QED BY <1>2, <1>4, <3>1, <4>1
      <3>2. CASE k = n + 1
        <4>1. ms[i] = Worth(CashAfter(rs, n), t, series[i])
          BY <1>1, <1>2, <2>1, <3>2 DEF Curved
        <4>2. k - 1 = n /\ ss[k] = r
          BY <1>2, <3>2
        <4>3. CashAfter(ss, k - 1) = CashAfter(rs, n)
          BY <1>4, <4>2
        <4> QED BY <4>1, <4>2, <4>3 DEF Worth, Spent
      <3> QED BY <3>1, <3>2
    <2>2. ASSUME NEW k \in 0..(n + 1), k = 0 \/ ss[k].to < i, k = n + 1 \/ i < ss[k + 1].from
          PROVE  ms[i] = CashAfter(ss, k)
      <3>1. k # n + 1
        BY <1>2, <1>3, <2>2
      <3>2. k \in 0..n /\ i < ss[k + 1].from
        BY <2>2, <3>1
      <3>3. i < t.from /\ (k = n \/ i < rs[k + 1].from)
        <4>1. CASE k = n
          BY <1>2, <3>2, <4>1
        <4>2. CASE k # n
          <5>1. k + 1 \in 1..n
            BY <3>2, <4>2
          <5>2. i < rs[k + 1].from /\ rs[k + 1].from <= rs[k + 1].to /\ rs[k + 1].to < t.from
            BY <1>1, <1>2, <3>2, <5>1 DEF Turns
          <5> QED BY <1>3, <5>1, <5>2
        <4> QED BY <4>1, <4>2
      <3>4. k = 0 \/ rs[k].to < i
        BY <1>2, <2>2, <3>2
      <3>5. ms[i] = CashAfter(rs, k)
        BY <1>1, <3>2, <3>3, <3>4 DEF Curved
      <3> QED BY <1>4, <3>2, <3>5
    <2> QED BY <2>1, <2>2
  <1>7. Curved(ms, ss, Nothing, series)
    BY <1>2, <1>6 DEF Curved
  <1> QED BY <1>2, <1>5, <1>7

\* The next bar is marked: by the open trade's shares, by the cash when none is open,
\* and by whatever when a trade ended on it.
LEMMA MarkedCurve ==
    ASSUME NEW rs \in Seq(ClosedTrade), NEW ms \in Seq(Int), NEW series,
           NEW t \in OpenTrade \cup {Nothing}, NEW at \in Nat, at = Len(ms) + 1, NEW v \in Int,
           Turns(rs, t, at + 1), Curved(ms, rs, t, series),
           t # Nothing => v = Worth(CashAfter(rs, Len(rs)), t, series[at]),
           t = Nothing => v = CashAfter(rs, Len(rs)) \/ \E k \in 1..Len(rs) : rs[k].to = at
    PROVE  Curved(Append(ms, v), rs, t, series)
  <1>1. PICK n \in Nat : n = Len(rs)
    OBVIOUS
  <1>2. PICK ns \in Seq(Int) :
            /\ ns = Append(ms, v) /\ Len(ns) = at /\ ns[at] = v
            /\ \A i \in 1..(at - 1) : ns[i] = ms[i]
    <2>1. PICK ns : ns = Append(ms, v)
      OBVIOUS
    <2>2. PICK m : m = Len(ms) /\ m = at - 1 /\ m + 1 = at
      OBVIOUS
    <2>3. /\ ns \in Seq(Int) /\ Len(ns) = m + 1 /\ ns[m + 1] = v
          /\ \A i \in 1..m : ns[i] = ms[i]
      BY <2>1, <2>2, Appended
    <2> QED BY <2>1, <2>2, <2>3
  <1>3. /\ t # Nothing => t.from \in Nat
        /\ \A k \in 1..n : rs[k].from \in Nat /\ rs[k].to \in Nat
        /\ \A k \in 1..n : rs[k].from <= rs[k].to /\ rs[k].to <= at
    <2>1. t # Nothing => t.from \in Nat
      BY DEF OpenTrade
    <2>2. \A k \in 1..n : rs[k].from \in Nat /\ rs[k].to \in Nat
      BY <1>1, RecordType
    <2>3. \A k \in 1..n : rs[k].from <= rs[k].to /\ rs[k].to < at + 1
      BY <1>1 DEF Turns
    <2> QED BY <2>1, <2>2, <2>3
  <1>4. ASSUME NEW i \in 1..at
        PROVE  /\ t # Nothing /\ t.from <= i => ns[i] = Worth(CashAfter(rs, n), t, series[i])
               /\ \A k \in 1..n : rs[k].from <= i /\ i < rs[k].to =>
                     ns[i] = Worth(CashAfter(rs, k - 1), rs[k], series[i])
               /\ \A k \in 0..n :
                     /\ k = 0 \/ rs[k].to < i
                     /\ k = n \/ i < rs[k + 1].from
                     /\ t = Nothing \/ i < t.from
                     => ns[i] = CashAfter(rs, k)
    <2>1. CASE i \in 1..(at - 1)
      <3>1. ns[i] = ms[i] /\ i \in 1..Len(ms)
        BY <1>2, <2>1
      <3> QED BY <1>1, <3>1 DEF Curved
    <2>2. CASE i = at
      <3>1. t # Nothing => ns[i] = Worth(CashAfter(rs, n), t, series[i])
        BY <1>1, <1>2, <2>2
      <3>2. \A k \in 1..n : ~(i < rs[k].to)
        BY <1>3, <2>2
      <3>3. ASSUME NEW k \in 0..n, k = 0 \/ rs[k].to < i, k = n \/ i < rs[k + 1].from,
                   t = Nothing \/ i < t.from
            PROVE  ns[i] = CashAfter(rs, k)
        <4>1. t = Nothing
          BY <1>1, <1>3, <2>2, <3>3 DEF Turns
        <4>2. k = n
          <5> SUFFICES ASSUME k # n PROVE FALSE
            OBVIOUS
          <5>1. PICK l \in 1..n : l = k + 1 /\ i < rs[l].from
            BY <3>3
          <5>2. /\ rs[l].from \in Nat /\ rs[l].to \in Nat
                /\ rs[l].from <= rs[l].to /\ rs[l].to <= at
            BY <1>3
          <5> QED BY <2>2, <5>1, <5>2
        <4>3. ASSUME NEW l \in 1..n, rs[l].to = at PROVE FALSE
          <5>1. CASE l = n
            BY <1>3, <2>2, <3>3, <4>2, <4>3, <5>1
          <5>2. CASE l # n
            <6>1. n \in 1..n /\ l < n
              BY <5>2
            <6>2. rs[l].to < rs[n].from
              BY <1>1, <6>1 DEF Turns
            <6>3. /\ rs[n].from \in Nat /\ rs[n].to \in Nat
                  /\ rs[n].from <= rs[n].to /\ rs[n].to <= at
              BY <1>3, <6>1
            <6> QED BY <4>3, <6>2, <6>3
          <5> QED BY <5>1, <5>2
        <4>4. v = CashAfter(rs, n)
          BY <1>1, <4>1, <4>3
        <4> QED BY <1>2, <2>2, <4>2, <4>4
      <3> QED BY <3>1, <3>2, <3>3
    <2> QED BY <2>1, <2>2
  <1> QED BY <1>1, <1>2, <1>4 DEF Curved

\* The bars of a daily trade are marked all at once.
LEMMA HeldCurve ==
    ASSUME NEW rs \in Seq(ClosedTrade), NEW ms \in Seq(Int), NEW series, NEW r \in ClosedTrade,
           NEW at \in Nat, at = Len(ms) + 1, r.from = at, at <= r.to,
           Turns(rs, Nothing, at), Curved(ms, Append(rs, r), Nothing, series),
           NEW ns \in Seq(Int), Len(ns) = r.to, \A i \in 1..Len(ms) : ns[i] = ms[i],
           \A i \in at..r.to : ns[i] = Worth(CashAfter(rs, Len(rs)), r, series[i])
    PROVE  Curved(ns, Append(rs, r), Nothing, series)
  <1>1. PICK n \in Nat : n = Len(rs)
    OBVIOUS
  <1>2. PICK ss \in Seq(ClosedTrade) :
            /\ ss = Append(rs, r) /\ Len(ss) = n + 1 /\ ss[n + 1] = r
            /\ \A k \in 1..n : ss[k] = rs[k]
    <2>1. PICK ss : ss = Append(rs, r)
      OBVIOUS
    <2>2. /\ ss \in Seq(ClosedTrade) /\ Len(ss) = n + 1 /\ ss[n + 1] = r
          /\ \A k \in 1..n : ss[k] = rs[k]
      BY <1>1, <2>1, Appended
    <2> QED BY <2>1, <2>2
  <1>3. /\ r.to \in Nat
        /\ \A k \in 1..n : /\ ss[k].from \in Nat /\ ss[k].to \in Nat
                           /\ ss[k].from <= ss[k].to /\ ss[k].to < at
    BY <1>1, <1>2, RecordType DEF ClosedTrade, Turns
  <1>4. CashAfter(ss, n) = CashAfter(rs, n)
    BY <1>1, <1>2, CashAppend
  <1>5. ASSUME NEW i \in 1..r.to
        PROVE  /\ \A k \in 1..(n + 1) : ss[k].from <= i /\ i < ss[k].to =>
                     ns[i] = Worth(CashAfter(ss, k - 1), ss[k], series[i])
               /\ \A k \in 0..(n + 1) :
                     /\ k = 0 \/ ss[k].to < i
                     /\ k = n + 1 \/ i < ss[k + 1].from
                     => ns[i] = CashAfter(ss, k)
    <2>1. CASE i \in 1..Len(ms)
      <3>1. ns[i] = ms[i]
        BY <2>1
      <3> QED BY <1>2, <2>1, <3>1 DEF Curved
    <2>2. CASE i \in at..r.to
      <3>1. ASSUME NEW k \in 1..(n + 1), ss[k].from <= i, i < ss[k].to
            PROVE  ns[i] = Worth(CashAfter(ss, k - 1), ss[k], series[i])
        <4>1. k = n + 1
          <5> SUFFICES ASSUME k \in 1..n PROVE FALSE
            OBVIOUS
          <5>1. ss[k].to \in Nat /\ ss[k].to < at
            BY <1>3
          <5> QED BY <2>2, <3>1, <5>1
        <4>2. k - 1 = n /\ ss[k] = r
          BY <1>2, <4>1
        <4>3. ns[i] = Worth(CashAfter(rs, n), r, series[i])
          BY <1>1, <2>2
        <4> QED BY <1>4, <4>2, <4>3
      <3>2. ASSUME NEW k \in 0..(n + 1), k = 0 \/ ss[k].to < i, k = n + 1 \/ i < ss[k + 1].from
            PROVE  FALSE
        <4>1. CASE k = n + 1
          BY <1>2, <1>3, <2>2, <3>2, <4>1
        <4>2. CASE k = n
          BY <1>2, <2>2, <3>2, <4>2
        <4>3. CASE k \in 0..(n - 1)
          <5>1. PICK l \in 1..n : l = k + 1 /\ i < ss[l].from
            BY <3>2, <4>3
          <5>2. /\ ss[l].from \in Nat /\ ss[l].to \in Nat
                /\ ss[l].from <= ss[l].to /\ ss[l].to < at
            BY <1>3
          <5> QED BY <2>2, <5>1, <5>2
        <4>4. k \in 0..(n - 1) \/ k = n \/ k = n + 1
          OBVIOUS
        <4> QED BY <4>1, <4>2, <4>3, <4>4
      <3> QED BY <3>1, <3>2
    <2>3. i \in 1..Len(ms) \/ i \in at..r.to
      BY <1>3
    <2> QED BY <2>1, <2>2, <2>3
  <1>6. Curved(ns, ss, Nothing, series)
    <2> SUFFICES ASSUME NEW i \in 1..Len(ns)
                 PROVE  /\ \A k \in 1..Len(ss) : ss[k].from <= i /\ i < ss[k].to =>
                              ns[i] = Worth(CashAfter(ss, k - 1), ss[k], series[i])
                        /\ \A k \in 0..Len(ss) :
                              /\ k = 0 \/ ss[k].to < i
                              /\ k = Len(ss) \/ i < ss[k + 1].from
                              => ns[i] = CashAfter(ss, k)
      BY DEF Curved
    <2>1. i \in 1..r.to
      OBVIOUS
    <2> QED BY <1>2, <1>5, <2>1
  <1> QED BY <1>2, <1>6

\* No trade yet.
LEMMA FreshCurve ==
    /\ \A at : Turns(<<>>, Nothing, at)
    /\ CashAfter(<<>>, 0) = StartCash /\ Len(<<>>) = 0
    /\ \A ms, series : (\A i \in 1..Len(ms) : ms[i] = StartCash) => Curved(ms, <<>>, Nothing, series)
  <1>1. CashAfter(<<>>, 0) = StartCash /\ <<>> \in Seq(ClosedTrade) /\ Len(<<>>) = 0
    BY CashFacts, EmptySeq
  <1>2. \A at : Turns(<<>>, Nothing, at)
    BY DEF Turns
  <1>3. ASSUME NEW ms, NEW series, \A i \in 1..Len(ms) : ms[i] = StartCash
        PROVE  Curved(ms, <<>>, Nothing, series)
    BY <1>1, <1>3 DEF Curved
  <1> QED BY <1>1, <1>2, <1>3

LEMMA CurveStarts == BacktestInit => CurveInv
  <1> SUFFICES ASSUME BacktestInit PROVE CurveInv
    OBVIOUS
  <1>1. /\ records = <<>> /\ open = Nothing /\ marks = <<>> /\ pc = "window" /\ pnl = 0
        /\ broker.cash = StartCash
    BY DEF BacktestInit, Fresh
  <1>2. Turns(records, open, cursor) /\ Curved(marks, records, open, frame)
    BY <1>1, FreshCurve
  <1>3. Funds
    BY <1>1, FreshCurve, Parameters DEF Funds
  <1>4. Marking
    BY <1>1 DEF Marking
  <1> QED BY <1>2, <1>3, <1>4 DEF CurveInv

LEMMA BeginWindowCurve == BacktestInv /\ CurveInv /\ BeginWindow => CurveInv'
  <1> SUFFICES ASSUME BacktestInv, CurveInv, BeginWindow PROVE CurveInv'
    OBVIOUS
  <1>1. /\ records' = <<>> /\ open' = Nothing /\ pnl' = 0 /\ broker' = Fresh /\ cursor' = First
        /\ marks' = [i \in 1..Min({First - 1, Len(frame')}) |-> StartCash]
        /\ pc' = IF First <= Len(frame') THEN "bar" ELSE "report"
    BY DEF BeginWindow
  <1>2. PICK n \in Nat, f \in Nat : n = Len(frame') /\ f = First /\ 1 <= f
    <2>1. frame' \in Seq(PriceBar)
      BY BeginWindowStep DEF BacktestInv, BacktestTypeOK
    <2>2. Len(frame') \in Nat
      BY <2>1
    <2> QED BY <2>2, FirstFacts
  <1>3. PICK m \in Nat : m = Min({f - 1, n}) /\ m = IF f - 1 <= n THEN f - 1 ELSE n
    BY <1>2, LeastOfTwo
  <1>4. marks' = [i \in 1..m |-> StartCash]
    BY <1>1, <1>2, <1>3
  <1>5. Len(marks') = m /\ \A i \in 1..Len(marks') : marks'[i] = StartCash
    BY <1>4
  <1>6. Turns(records', open', cursor') /\ Curved(marks', records', open', frame')
    BY <1>1, <1>5, FreshCurve
  <1>7. Funds'
    <2>1. broker'.cash = StartCash
      BY <1>1 DEF Fresh
    <2> QED BY <1>1, <2>1, FreshCurve, Parameters DEF Funds
  <1>8. Marking'
    BY <1>1, <1>2, <1>3, <1>5 DEF Marking
  <1> QED BY <1>6, <1>7, <1>8 DEF CurveInv

LEMMA ReportCurve == Report => CurveInv'
  <1> SUFFICES ASSUME Report PROVE CurveInv'
    OBVIOUS
  <1>1. /\ records' = <<>> /\ open' = Nothing /\ marks' = <<>> /\ pc' = "window" /\ pnl' = 0
        /\ broker'.cash = StartCash
    BY DEF Report, Fresh
  <1>2. Turns(records', open', cursor') /\ Curved(marks', records', open', frame')
    BY <1>1, FreshCurve
  <1>3. Funds'
    BY <1>1, FreshCurve, Parameters DEF Funds
  <1>4. Marking'
    BY <1>1 DEF Marking
  <1> QED BY <1>2, <1>3, <1>4 DEF CurveInv

\* The cash is what the records say, whichever trade is settled.
LEMMA SettledFunds ==
    ASSUME records \in Seq(ClosedTrade), pnl = CashAfter(records, Len(records)) - StartCash,
           NEW t \in OpenTrade, NEW account \in [cash : Int, shares : Nat],
           account.cash = CashAfter(records, Len(records)) - Spent(t),
           NEW at, NEW done, Ends(done, t, at), Settles(account, done)
    PROVE  /\ pnl' = CashAfter(records', Len(records')) - StartCash
           /\ broker'.cash = CashAfter(records', Len(records'))
  <1>1. PICK n \in Nat : n = Len(records)
    OBVIOUS
  <1>2. /\ done \in ClosedTrade /\ done.shares = t.shares /\ done.entry = t.entry
        /\ done.shares \in Nat /\ done.entry \in Nat /\ done.exit \in Int
    BY DEF Ends, ClosedTrade
  <1>3. PICK rs : rs = Append(records, done)
    OBVIOUS
  <1>4. rs \in Seq(ClosedTrade) /\ Len(rs) = n + 1 /\ rs[n + 1] = done
    BY <1>1, <1>2, <1>3, Appended
  <1>5. CashAfter(rs, n + 1) = CashAfter(records, n) + Gain(done)
    <2>1. CashAfter(rs, n) = CashAfter(records, n)
      BY <1>1, <1>2, <1>3, CashAppend
    <2>2. n + 1 \in 1..Len(rs) /\ (n + 1) - 1 = n
      BY <1>4
    <2> QED BY <1>4, <2>1, <2>2, CashFacts
  <1>6. PICK c \in Int : c = CashAfter(records, n)
    BY <1>1, CashFacts
  <1>7. PICK bought \in Int, sold \in Int :
            /\ bought = done.shares * done.entry /\ sold = done.shares * done.exit
            /\ Gain(done) = sold - bought - 2 * Fee /\ Spent(t) = bought + Fee
    <2>1. done.shares * (done.exit - done.entry) = done.shares * done.exit - done.shares * done.entry
      BY <1>2
    <2>2. done.shares * done.exit \in Int /\ done.shares * done.entry \in Int
      BY <1>2
    <2> QED BY <1>2, <2>1, <2>2 DEF Gain, Spent
  <1>8. /\ records' = rs /\ pnl' = pnl + Gain(done)
        /\ broker'.cash = account.cash + sold - Fee
    BY <1>3, <1>7 DEF Settles
  <1>9. PICK d \in Int : d = CashAfter(records', Len(records')) /\ d = c + (sold - bought - 2 * Fee)
    <2>1. CashAfter(records', Len(records')) = CashAfter(rs, n + 1)
      BY <1>4, <1>8
    <2>2. CashAfter(rs, n + 1) = c + (sold - bought - 2 * Fee)
      BY <1>5, <1>6, <1>7
    <2> QED BY <2>1, <2>2, Parameters
  <1>10. pnl = c - StartCash /\ account.cash = c - (bought + Fee)
    <2>1. pnl = CashAfter(records, n) - StartCash /\ account.cash = CashAfter(records, n) - Spent(t)
      BY <1>1
    <2>2. pnl = c - StartCash /\ account.cash = c - Spent(t)
      BY <1>6, <2>1
    <2>3. Spent(t) = bought + Fee
      BY <1>7
    <2> QED BY <2>2, <2>3
  <1>11. pnl' = d - StartCash
    <2>1. pnl' = pnl + (sold - bought - 2 * Fee)
      BY <1>7, <1>8
    <2> QED BY <1>9, <1>10, <2>1, Parameters
  <1>12. broker'.cash = d
    BY <1>8, <1>9, <1>10, Parameters
  <1> QED BY <1>9, <1>11, <1>12

LEMMA PassDayCurve == BacktestInv /\ CurveInv /\ PassDay => CurveInv'
  <1> SUFFICES ASSUME BacktestInv, CurveInv, PassDay PROVE CurveInv'
    OBVIOUS
  <1> USE DEF BacktestInv
  <1>1. /\ frame' = frame /\ broker' = broker /\ open' = open /\ records' = records
        /\ pnl' = pnl /\ cursor' = cursor + 1 /\ pc = "bar" /\ open = Nothing
        /\ marks' = Append(marks, Value(broker, frame[cursor].close))
        /\ pc' = IF cursor = Len(frame) THEN "report" ELSE "bar"
    BY DEF PassDay, Position
  <1>2. /\ records \in Seq(ClosedTrade) /\ marks \in Seq(Int) /\ cursor \in Nat
        /\ Len(marks) = cursor - 1 /\ cursor = Len(marks) + 1
    BY <1>1 DEF BacktestTypeOK, CurveInv, Marking
  <1>3. PICK v \in Int : /\ v = Value(broker, frame[cursor].close)
                         /\ v = CashAfter(records, Len(records))
    <2>1. cursor \in 1..Len(frame)
      BY <1>1, FirstFacts DEF BacktestTypeOK, Position
    <2>2. frame[cursor].close \in Nat
      BY <2>1, BarType DEF BacktestTypeOK
    <2>3. broker.shares = 0 /\ broker.cash \in Int
      BY <1>1 DEF Holding, BacktestTypeOK
    <2>4. CashAfter(records, Len(records)) \in Int
      BY <1>2, CashFacts
    <2>5. broker.cash = CashAfter(records, Len(records))
      BY <1>1, <2>4 DEF CurveInv, Funds
    <2> QED BY <2>2, <2>3, <2>5 DEF Value
  <1>4. Turns(records, Nothing, cursor + 1)
    BY <1>1, <1>2, RecordType DEF CurveInv, Turns
  <1>5. Curved(Append(marks, v), records, Nothing, frame)
    BY <1>1, <1>2, <1>3, <1>4, MarkedCurve DEF CurveInv
  <1>6. Funds'
    BY <1>1 DEF CurveInv, Funds
  <1>7. Marking'
    <2>1. Len(marks') = cursor
      BY <1>1, <1>2, <1>3, Appended
    <2> QED BY <1>1, <1>2, <2>1 DEF Marking
  <1> QED BY <1>1, <1>3, <1>4, <1>5, <1>6, <1>7 DEF CurveInv

LEMMA CloseOutCurve == BacktestInv /\ CurveInv /\ CloseOut => CurveInv'
  <1> SUFFICES ASSUME BacktestInv, CurveInv, CloseOut PROVE CurveInv'
    OBVIOUS
  <1> USE DEF BacktestInv
  <1>1. /\ frame' = frame /\ cursor' = cursor /\ marks' = marks /\ open' = Nothing
        /\ pc' = "report" /\ pc = "close"
    BY CloseOutFacts
  <1>2. /\ records \in Seq(ClosedTrade) /\ marks \in Seq(Int) /\ cursor \in Nat
        /\ Len(marks) = Len(frame) /\ cursor = Len(frame) + 1
        /\ Turns(records, open, cursor) /\ Curved(marks, records, open, frame)
    BY <1>1 DEF BacktestTypeOK, CurveInv, Marking
  <1>3. Marking'
    BY <1>1, <1>2 DEF Marking
  <1>4. CASE open = Nothing /\ broker' = broker /\ records' = records /\ pnl' = pnl
    <2>1. Funds'
      BY <1>1, <1>4 DEF CurveInv, Funds
    <2> QED BY <1>1, <1>2, <1>3, <1>4, <2>1 DEF CurveInv
  <1>5. ASSUME open # Nothing, NEW done, Ends(done, open, Len(frame)), Settles(broker, done)
        PROVE  CurveInv'
    <2>1. /\ open \in OpenTrade /\ broker \in [cash : Int, shares : Nat]
          /\ done \in ClosedTrade /\ done.from = open.from /\ done.to = Len(frame)
          /\ done.shares = open.shares /\ done.entry = open.entry
          /\ records' = Append(records, done) /\ open.from \in Nat /\ Len(frame) \in Nat
      BY <1>5 DEF BacktestTypeOK, Ends, Settles, OpenTrade
    <2>2. open.from <= done.to
      BY <1>2, <1>5, <2>1 DEF Turns
    <2>3. Turns(records', Nothing, cursor) /\ Curved(marks, records', Nothing, frame)
      BY <1>2, <1>5, <2>1, <2>2, SettledCurve
    <2>4. /\ pnl = CashAfter(records, Len(records)) - StartCash
          /\ broker.cash = CashAfter(records, Len(records)) - Spent(open)
      BY <1>5 DEF CurveInv, Funds
    <2>5. /\ pnl' = CashAfter(records', Len(records')) - StartCash
          /\ broker'.cash = CashAfter(records', Len(records'))
      BY <1>2, <1>5, <2>1, <2>4, SettledFunds
    <2>6. CashAfter(records', Len(records')) \in Int
      <3>1. records' \in Seq(ClosedTrade)
        BY <1>2, <2>1
      <3> QED BY <3>1, CashFacts
    <2>7. Funds'
      BY <1>1, <2>5, <2>6 DEF Funds
    <2> QED BY <1>1, <1>3, <2>3, <2>7 DEF CurveInv
  <1> QED BY <1>4, <1>5, CloseOutFacts

LEMMA ReplayBarCurve == BacktestInv /\ CurveInv /\ ReplayBar => CurveInv'
  <1> SUFFICES ASSUME BacktestInv, CurveInv, ReplayBar PROVE CurveInv'
    OBVIOUS
  <1> USE DEF BacktestInv
  <1>1. /\ frame' = frame /\ cursor' = cursor + 1 /\ pc = "bar" /\ cursor \in 1..Len(frame)
        /\ pc' = (IF cursor = Len(frame) THEN "close" ELSE "bar")
        /\ marks' = Append(marks, Value(broker', frame[cursor].close))
    BY ReplayBarFacts
  <1>2. /\ records \in Seq(ClosedTrade) /\ marks \in Seq(Int) /\ cursor \in Nat
        /\ Len(marks) = cursor - 1 /\ cursor = Len(marks) + 1 /\ Len(frame) \in Nat
        /\ Turns(records, open, cursor) /\ Curved(marks, records, open, frame)
    BY <1>1 DEF BacktestTypeOK, CurveInv, Marking
  <1>3. PICK t, account :
            /\ Opened(t, account)
            /\ \/ /\ t # Nothing /\ open' = Nothing
                  /\ \E done : Ends(done, t, cursor) /\ Settles(account, done)
               \/ /\ t # Nothing => t.stop < frame[cursor].low
                  /\ broker' = account /\ open' = t /\ records' = records /\ pnl' = pnl
    BY ReplayBarFacts
  <1>4. PICK c \in Int : c = CashAfter(records, Len(records))
    BY <1>2, CashFacts
  <1>5. pnl = c - StartCash
    BY <1>4 DEF CurveInv, Funds
  <1>6. /\ t \in OpenTrade \cup {Nothing} /\ account \in [cash : Int, shares : Nat]
        /\ account.shares = (IF t = Nothing THEN 0 ELSE t.shares)
        /\ account.cash = c - (IF t = Nothing THEN 0 ELSE Spent(t))
        /\ Turns(records, t, cursor + 1) /\ Curved(marks, records, t, frame)
        /\ t # Nothing => t.from \in Nat /\ t.from <= cursor
    <2>1. CASE t = open /\ account = broker
      <3>1. account.cash = c - (IF t = Nothing THEN 0 ELSE Spent(t))
        BY <1>4, <2>1 DEF CurveInv, Funds
      <3>2. t # Nothing => t.from \in Nat /\ t.from <= cursor
        BY <1>2, <1>3, <2>1 DEF Opened, Turns, OpenTrade
      <3>3. Turns(records, t, cursor + 1)
        <4>1. Turns(records, t, cursor)
          BY <1>2, <2>1
        <4>2. \A k \in 1..Len(records) : records[k].from \in Nat /\ records[k].to \in Nat
          BY <1>2, RecordType
        <4> QED BY <1>2, <3>2, <4>1, <4>2 DEF Turns
      <3> QED BY <1>2, <1>3, <2>1, <3>1, <3>2, <3>3 DEF Opened
    <2>2. CASE /\ open = Nothing /\ t # Nothing /\ t.from = cursor
               /\ account.cash = broker.cash - (t.shares * t.entry + Fee)
      <3>1. t \in OpenTrade
        BY <1>3, <2>2 DEF Opened
      <3>2. Turns(records, t, cursor + 1) /\ Curved(marks, records, t, frame)
        <4>1. /\ Turns(records, Nothing, t.from) /\ Curved(marks, records, Nothing, frame)
              /\ Len(marks) < t.from /\ records \in Seq(ClosedTrade) /\ marks \in Seq(Int)
          <5>1. Turns(records, Nothing, t.from) /\ Curved(marks, records, Nothing, frame)
            BY <1>2, <2>2
          <5> QED BY <1>2, <2>2, <5>1
        <4>2. Turns(records, t, t.from + 1) /\ Curved(marks, records, t, frame)
          BY <3>1, <4>1, OpenedCurve
        <4> QED BY <2>2, <4>2
      <3>3. broker.cash = c
        BY <1>4, <2>2 DEF CurveInv, Funds
      <3>4. account.cash = c - Spent(t)
        BY <2>2, <3>3 DEF Spent
      <3> QED BY <1>2, <1>3, <2>2, <3>1, <3>2, <3>4 DEF Opened
    <2> QED BY <1>3, <2>1, <2>2 DEF Opened
  <1>7. PICK v \in Int : v = Value(broker', frame[cursor].close)
    <2>1. frame[cursor].close \in Nat
      BY <1>1, BarType DEF BacktestTypeOK
    <2>2. broker' \in [cash : Int, shares : Nat]
      BY ReplayBarStep DEF BacktestTypeOK
    <2> QED BY <2>1, <2>2 DEF Value
  <1>8. Marking'
    <2>1. Len(marks') = cursor
      BY <1>1, <1>2, <1>7, Appended
    <2> QED BY <1>1, <1>2, <2>1 DEF Marking
  <1>9. ASSUME t # Nothing, open' = Nothing, NEW done, Ends(done, t, cursor), Settles(account, done)
        PROVE  CurveInv'
    <2>1. /\ t \in OpenTrade /\ done \in ClosedTrade /\ done.from = t.from /\ done.to = cursor
          /\ done.shares = t.shares /\ done.entry = t.entry
          /\ records' = Append(records, done)
      BY <1>6, <1>9 DEF Ends, Settles
    <2>2. records' \in Seq(ClosedTrade) /\ Len(records') = Len(records) + 1
          /\ records'[Len(records) + 1] = done
      BY <1>2, <2>1, Appended
    <2>3. Turns(records', Nothing, cursor + 1) /\ Curved(marks, records', Nothing, frame)
      <3>1. t.from <= done.to /\ done.to < cursor + 1 /\ Len(marks) <= done.to /\ cursor + 1 \in Nat
        BY <1>2, <1>6, <1>9, <2>1
      <3> QED BY <1>2, <1>6, <1>9, <2>1, <3>1, SettledCurve
    <2>4. \E k \in 1..Len(records') : records'[k].to = cursor
      BY <1>2, <2>1, <2>2
    <2>5. Curved(Append(marks, v), records', Nothing, frame)
      BY <1>2, <2>2, <2>3, <2>4, MarkedCurve
    <2>6. /\ pnl' = CashAfter(records', Len(records')) - StartCash
          /\ broker'.cash = CashAfter(records', Len(records'))
      BY <1>2, <1>4, <1>5, <1>6, <1>9, <2>1, SettledFunds
    <2>7. CashAfter(records', Len(records')) \in Int
      BY <2>2, CashFacts
    <2>8. Funds'
      BY <1>9, <2>6, <2>7 DEF Funds
    <2> QED BY <1>1, <1>7, <1>8, <1>9, <2>3, <2>5, <2>8 DEF CurveInv
  <1>10. CASE broker' = account /\ open' = t /\ records' = records /\ pnl' = pnl
    <2>1. t # Nothing => v = Worth(CashAfter(records, Len(records)), t, frame[cursor])
      BY <1>4, <1>6, <1>7, <1>10 DEF Value, Worth
    <2>2. t = Nothing => v = CashAfter(records, Len(records))
      <3>1. frame[cursor].close \in Nat
        BY <1>1, BarType DEF BacktestTypeOK
      <3> QED BY <1>4, <1>6, <1>7, <1>10, <3>1 DEF Value
    <2>3. Curved(Append(marks, v), records, t, frame)
      BY <1>2, <1>6, <2>1, <2>2, MarkedCurve
    <2>4. Funds'
      BY <1>4, <1>5, <1>6, <1>10 DEF Funds
    <2> QED BY <1>1, <1>6, <1>7, <1>8, <1>10, <2>3, <2>4 DEF CurveInv
  <1> QED BY <1>3, <1>9, <1>10

LEMMA TradeDayCurve == BacktestInv /\ CurveInv /\ TradeDay => CurveInv'
  <1> SUFFICES ASSUME BacktestInv, CurveInv, TradeDay PROVE CurveInv'
    OBVIOUS
  <1> USE DEF BacktestInv
  <1>1. frame' = frame /\ open' = open /\ pc = "bar" /\ open = Nothing
    BY TradeDayFacts
  <1>2. PICK t \in OpenTrade, to \in cursor..Len(frame), account \in [cash : Int, shares : Nat],
             done \in ClosedTrade :
            /\ t.from = cursor /\ account.shares = t.shares
            /\ account.cash = broker.cash - (t.shares * t.entry + Fee)
            /\ Ends(done, t, to) /\ Settles(account, done)
            /\ marks' = marks \o [k \in 1..(to - cursor + 1) |->
                                    account.cash + t.shares * frame[cursor + k - 1].close]
            /\ cursor' = to + 1
            /\ pc' = IF to = Len(frame) THEN "report" ELSE "bar"
    BY TradeDayFacts
  <1>3. /\ records \in Seq(ClosedTrade) /\ marks \in Seq(Int) /\ frame \in Seq(PriceBar)
        /\ Len(marks) = cursor - 1 /\ cursor = Len(marks) + 1 /\ Len(frame) \in Nat
        /\ Turns(records, Nothing, cursor) /\ Curved(marks, records, Nothing, frame)
        /\ cursor \in 1..Len(frame) /\ cursor \in Nat
    <2>1. cursor \in 1..Len(frame)
      BY <1>1, FirstFacts DEF BacktestTypeOK, Position
    <2> QED BY <1>1, <2>1 DEF BacktestTypeOK, CurveInv, Marking
  <1>4. /\ done.from = t.from /\ done.to = to /\ done.shares = t.shares /\ done.entry = t.entry
        /\ records' = Append(records, done) /\ t # Nothing
    <2>1. t # Nothing
      BY NothingAssumption
    <2>2. Ends(done, t, to) /\ Settles(account, done)
      BY <1>2
    <2>3. done.from = t.from /\ done.to = to /\ done.shares = t.shares /\ done.entry = t.entry
      BY <2>2 DEF Ends
    <2>4. records' = Append(records, done)
      BY <2>2 DEF Settles
    <2> QED BY <2>1, <2>3, <2>4
  <1>5. PICK c \in Int : c = CashAfter(records, Len(records))
    <2>1. records \in Seq(ClosedTrade) /\ Len(records) \in 0..Len(records)
      BY <1>3
    <2> QED BY <2>1, CashFacts
  <1>6. broker.cash = c /\ pnl = c - StartCash
    BY <1>1, <1>5 DEF CurveInv, Funds
  <1>7. account.cash = c - Spent(t)
    BY <1>2, <1>6 DEF Spent
  <1>8. Turns(records', Nothing, to + 1) /\ Curved(marks, records', Nothing, frame)
    <2>1. Turns(records, t, cursor + 1) /\ Curved(marks, records, t, frame)
      <3>1. /\ Turns(records, Nothing, t.from) /\ Curved(marks, records, Nothing, frame)
            /\ Len(marks) < t.from /\ records \in Seq(ClosedTrade) /\ marks \in Seq(Int)
        BY <1>2, <1>3
      <3>2. Turns(records, t, t.from + 1) /\ Curved(marks, records, t, frame)
        BY <3>1, OpenedCurve
      <3> QED BY <1>2, <3>2
    <2>2. Turns(records, t, to + 1)
      BY <1>2, <1>3, <2>1, RecordType DEF Turns
    <2>3. to + 1 \in Nat /\ t.from <= done.to /\ done.to < to + 1 /\ Len(marks) <= done.to
      BY <1>2, <1>3, <1>4
    <2> QED BY <1>2, <1>3, <1>4, <2>1, <2>2, <2>3, SettledCurve
  <1>9. PICK m \in Nat : m = to - cursor + 1
    BY <1>3
  <1> DEFINE during == [k \in 1..m |-> account.cash + t.shares * frame[cursor + k - 1].close]
  <1>10. during \in Seq(Int) /\ Len(during) = m
    <2>1. ASSUME NEW k \in 1..m
          PROVE  account.cash + t.shares * frame[cursor + k - 1].close \in Int
      <3>1. cursor + k - 1 \in 1..Len(frame) /\ t.shares \in Nat
        BY <1>2, <1>3, <1>9 DEF OpenTrade
      <3>2. PICK p \in Nat : p = frame[cursor + k - 1].close
        BY <1>3, <3>1, BarType
      <3> QED BY <3>1, <3>2
    <2> QED BY <1>9, <2>1
  <1>11. /\ marks' \in Seq(Int) /\ Len(marks') = to
         /\ \A i \in 1..Len(marks) : marks'[i] = marks[i]
         /\ \A i \in cursor..to : marks'[i] = Worth(CashAfter(records, Len(records)), done, frame[i])
    <2>1. marks' = marks \o during
      BY <1>2, <1>9
    <2>2. \A k \in 1..m : during[k] = account.cash + t.shares * frame[cursor + k - 1].close
      OBVIOUS
    <2> HIDE DEF during
    <2>3. /\ marks' \in Seq(Int) /\ Len(marks') = Len(marks) + m
          /\ \A i \in 1..(Len(marks) + m) :
                marks'[i] = IF i <= Len(marks) THEN marks[i] ELSE during[i - Len(marks)]
      BY <1>3, <1>10, <2>1, ConcatProperties
    <2>4. Len(marks) + m = to
      BY <1>3, <1>9
    <2>5. ASSUME NEW i \in cursor..to
          PROVE  marks'[i] = Worth(CashAfter(records, Len(records)), done, frame[i])
      <3>1. PICK k \in 1..m : k = i - Len(marks)
        BY <1>3, <1>9
      <3>2. cursor + k - 1 = i /\ ~(i <= Len(marks)) /\ i \in 1..(Len(marks) + m)
        BY <1>3, <2>4, <3>1
      <3>3. marks'[i] = account.cash + t.shares * frame[i].close
        BY <2>2, <2>3, <3>1, <3>2
      <3> QED BY <1>4, <1>5, <1>7, <3>3 DEF Worth, Spent
    <2>6. \A i \in 1..Len(marks) : marks'[i] = marks[i]
      <3>1. Len(marks) \in Nat /\ m \in Nat
        BY <1>3
      <3> QED BY <2>3, <3>1
    <2> QED BY <2>3, <2>4, <2>5, <2>6
  <1> HIDE DEF during
  <1>12. Curved(marks', records', Nothing, frame)
    <2>1. cursor <= done.to /\ done.from = cursor /\ Len(marks') = done.to
      BY <1>2, <1>3, <1>4, <1>11
    <2> QED BY <1>3, <1>4, <1>8, <1>11, <2>1, HeldCurve
  <1>13. Funds'
    <2>1. /\ pnl' = CashAfter(records', Len(records')) - StartCash
          /\ broker'.cash = CashAfter(records', Len(records'))
      BY <1>2, <1>3, <1>5, <1>6, <1>7, SettledFunds
    <2>2. CashAfter(records', Len(records')) \in Int
      <3>1. records' \in Seq(ClosedTrade)
        BY <1>3, <1>4
      <3> QED BY <3>1, CashFacts
    <2> QED BY <1>1, <2>1, <2>2 DEF Funds
  <1>14. Marking'
    <2>1. pc' = "bar" => Len(marks') = cursor' - 1
      BY <1>2, <1>3, <1>11
    <2>2. pc' = "report" => Len(marks') = Len(frame')
      BY <1>1, <1>2, <1>11
    <2>3. pc' \in {"report", "bar"}
      BY <1>2
    <2> QED BY <2>1, <2>2, <2>3 DEF Marking
  <1> QED BY <1>1, <1>2, <1>8, <1>12, <1>13, <1>14 DEF CurveInv

LEMMA CurveStutters == CurveInv /\ UNCHANGED backtestVars => CurveInv'
  <1> SUFFICES ASSUME CurveInv, UNCHANGED backtestVars PROVE CurveInv'
    OBVIOUS
  <1>1. /\ pc' = pc /\ frame' = frame /\ cursor' = cursor /\ broker' = broker /\ open' = open
        /\ records' = records /\ pnl' = pnl /\ marks' = marks
    BY DEF backtestVars
  <1> QED BY <1>1 DEF CurveInv, Funds, Marking

\* At the end of a window the curve is what its bars were marked at.
LEMMA CurveReported == BacktestInv /\ CurveInv => CurveIsEquity
  <1> SUFFICES ASSUME BacktestInv, CurveInv, pc = "report"
               PROVE  /\ pnl = broker.cash - StartCash /\ broker.shares = 0
                      /\ \A i \in DOMAIN frame :
                            (\A k \in DOMAIN records : records[k].to # i) => Equity(i) = marks[i]
    BY DEF CurveIsEquity
  <1> USE DEF BacktestInv
  <1>1. open = Nothing
    BY DEF Position
  <1>2. PICK n \in Nat : n = Len(records) /\ DOMAIN records = 1..n
    BY LenProperties DEF BacktestTypeOK
  <1>3. records \in Seq(ClosedTrade) /\ marks \in Seq(Int) /\ DOMAIN frame = 1..Len(marks)
    <2>1. DOMAIN frame = 1..Len(frame)
      BY LenProperties DEF BacktestTypeOK
    <2> QED BY <2>1 DEF BacktestTypeOK, CurveInv, Marking
  <1>4. pnl = broker.cash - StartCash /\ broker.shares = 0
    <2>1. PICK c \in Int : c = CashAfter(records, n)
      BY <1>2, <1>3, CashFacts
    <2>2. pnl = c - StartCash /\ broker.cash = c - 0
      BY <1>1, <1>2, <2>1 DEF CurveInv, Funds
    <2> QED BY <1>1, <2>2, Parameters DEF Holding
  <1>5. ASSUME NEW i \in DOMAIN frame, \A k \in DOMAIN records : records[k].to # i
        PROVE  Equity(i) = marks[i]
    <2> DEFINE begun == {k \in DOMAIN records : records[k].from <= i}
    <2>1. i \in 1..Len(marks) /\ i \in Nat
      BY <1>3, <1>5
    <2>2. \A k \in 1..n : records[k].from \in Nat /\ records[k].to \in Nat
      BY <1>2, <1>3, RecordType
    <2>3. /\ \A k \in 1..n : (records[k].from <= i /\ i < records[k].to) =>
                marks[i] = Worth(CashAfter(records, k - 1), records[k], frame[i])
          /\ \A k \in 0..n :
                /\ k = 0 \/ records[k].to < i
                /\ k = n \/ i < records[k + 1].from
                => marks[i] = CashAfter(records, k)
      BY <1>1, <1>2, <2>1 DEF CurveInv, Curved
    <2>4. CASE begun = {}
      <3>1. n = 0 \/ i < records[0 + 1].from
        <4>1. n # 0 => 1 \in 1..n
          BY <1>2
        <4>2. n # 0 => ~(records[1].from <= i)
          BY <1>2, <2>4, <4>1
        <4> QED BY <2>1, <2>2, <4>1, <4>2
      <3>2. marks[i] = CashAfter(records, 0)
        BY <1>2, <2>3, <3>1
      <3>3. Equity(i) = StartCash
        BY <2>4 DEF Equity
      <3> QED BY <1>3, <3>2, <3>3, CashFacts
    <2>5. CASE begun # {}
      <3>1. PICK k \in 1..n : /\ k = Max(begun) /\ records[k].from <= i
                              /\ \A l \in 1..n : records[l].from <= i => l <= k
        <4>1. begun \subseteq 0..n
          BY <1>2
        <4>2. Max(begun) \in begun /\ \A l \in begun : l <= Max(begun)
          BY <1>2, <2>5, <4>1, GreatestOf
        <4> HIDE DEF begun
        <4>3. PICK k : k = Max(begun)
          OBVIOUS
        <4>4. k \in begun /\ \A l \in begun : l <= k
          BY <4>2, <4>3
        <4>5. k \in 1..n /\ records[k].from <= i
          BY <1>2, <4>4 DEF begun
        <4>6. \A l \in 1..n : records[l].from <= i => l \in begun
          BY <1>2 DEF begun
        <4> QED BY <4>3, <4>4, <4>5, <4>6
      <3>2. Equity(i) = IF i <= records[k].to THEN Marked(k, i) ELSE CashAfter(records, k)
        BY <2>5, <3>1 DEF Equity
      <3>3. records[k].to # i
        BY <1>2, <1>5
      <3>4. CASE i < records[k].to
        <4>1. marks[i] = Worth(CashAfter(records, k - 1), records[k], frame[i])
          BY <2>3, <3>1, <3>4
        <4>2. Equity(i) = Marked(k, i)
          BY <2>1, <2>2, <3>2, <3>4
        <4>3. Worth(CashAfter(records, k - 1), records[k], frame[i]) = Marked(k, i)
          <5>1. PICK c \in Int : c = CashAfter(records, k - 1)
            <6>1. k - 1 \in 0..Len(records)
              BY <1>2
            <6> QED BY <1>3, <6>1, CashFacts
          <5>2. PICK b \in Int : b = records[k].shares * records[k].entry
            <6>1. records[k] \in ClosedTrade
              BY <1>2, <1>3, ElementOfSeq
            <6> QED BY <6>1 DEF ClosedTrade
          <5>3. PICK v \in Int : v = records[k].shares * frame[i].close
            <6>1. records[k] \in ClosedTrade
              BY <1>2, <1>3, ElementOfSeq
            <6>2. frame[i].close \in Nat
              BY <1>5, BarType DEF BacktestTypeOK
            <6> QED BY <6>1, <6>2 DEF ClosedTrade
          <5>4. Marked(k, i) = c - b - Fee + v
            BY <5>1, <5>2, <5>3 DEF Marked
          <5>5. Worth(CashAfter(records, k - 1), records[k], frame[i]) = c - (b + Fee) + v
            BY <5>1, <5>2, <5>3 DEF Worth, Spent
          <5> QED BY <5>1, <5>2, <5>3, <5>4, <5>5, Parameters
        <4> QED BY <4>1, <4>2, <4>3
      <3>5. CASE records[k].to < i
        <4>1. k = n \/ i < records[k + 1].from
          <5>1. k # n => k + 1 \in 1..n /\ ~(k + 1 <= k)
            BY <1>2
          <5>2. k # n => ~(records[k + 1].from <= i)
            BY <3>1, <5>1
          <5> QED BY <2>1, <2>2, <5>1, <5>2
        <4>2. marks[i] = CashAfter(records, k)
          BY <2>3, <3>5, <4>1
        <4>3. Equity(i) = CashAfter(records, k)
          BY <2>1, <2>2, <3>2, <3>5
        <4> QED BY <4>2, <4>3
      <3> QED BY <2>1, <2>2, <3>3, <3>4, <3>5
    <2> QED BY <2>4, <2>5
  <1> QED BY <1>4, <1>5

-----------------------------------------------------------------------------
(* Backtest: theorems                                                      *)

\* The invariant holds, whatever is signalled (run_backtest, run_walk_forward).
THEOREM BacktestInvariant == BacktestSpec => []BacktestInv
  <1>1. BacktestInv /\ [BacktestNext]_backtestVars => BacktestInv'
    BY BeginWindowStep, ReplayBarStep, CloseOutStep, PassDayStep, TradeDayStep, ReportStep,
       BacktestStutters DEF BacktestNext
  <1> QED BY BacktestStarts, <1>1, PTL DEF BacktestSpec

\* Account, signal, trade and records keep their types through every replay.
THEOREM BacktestTypes == BacktestSpec => []BacktestTypeOK
  <1>1. BacktestInv => BacktestTypeOK
    BY DEF BacktestInv
  <1> QED BY BacktestInvariant, <1>1, PTL

\* No trade loses more than its share of the equity and its costs, though it is
\* filled at the next open and its size may be overridden (_signal_at_next_open,
\* submit_signal_as_order).
THEOREM RiskIsBounded == BacktestSpec => []TradeRiskBounded
  <1>1. BacktestInv => TradeRiskBounded
    <2> SUFFICES ASSUME BacktestInv PROVE TradeRiskBounded
      OBVIOUS
    <2>1. DOMAIN records = 1..Len(records)
      BY DEF BacktestInv, BacktestTypeOK
    <2> QED BY <2>1 DEF BacktestInv, Closed, Bounded, TradeRiskBounded
  <1> QED BY BacktestInvariant, <1>1, PTL

\* A day traded in two windows is the one they share, and none is where bars are daily
\* or the daily rows have dates (run_walk_forward, evaluate_offline,
\* _daily_frame_before_bar).
THEOREM DaysTradedOnce == BacktestSpec => []NoDayTradedTwice
  <1>1. BacktestInv => NoDayTradedTwice
    <2> SUFFICES ASSUME BacktestInv PROVE NoDayTradedTwice
      OBVIOUS
    <2> USE DEF BacktestInv
    <2>1. DOMAIN results = 1..Len(results) /\ Len(results) \in Nat
      BY DEF BacktestTypeOK
    <2>2. ASSUME NEW k \in 1..Len(results), NEW l \in 1..Len(results), k < l,
                 NEW d \in results[k].days, d \in results[l].days
          PROVE  d = Windows[k].to /\ ~Apart
      <3>1. k \in 1..Len(Windows) /\ l \in 1..Len(Windows)
        BY <2>1, WindowsFollow DEF Past, BacktestTypeOK
      <3>2. Windows[k].to <= Windows[l].from /\ Windows[k].to \in Int /\ Windows[l].from \in Int
        BY <2>2, <3>1, WindowsFollow DEF BacktestTypeOK
      <3>3. d \in Nat
        <4>1. results \in Seq([pnl : Int, days : SUBSET Nat])
          BY DEF BacktestTypeOK
        <4>2. results[k] \in [pnl : Int, days : SUBSET Nat]
          BY <2>2, <4>1, ElementOfSeq
        <4> QED BY <2>2, <4>2
      <3>4. d <= Windows[k].to /\ Windows[l].from <= d /\ (Apart => Windows[l].from < d)
        BY <2>2 DEF Past
      <3> QED BY <3>2, <3>3, <3>4
    <2> QED BY <2>1, <2>2 DEF NoDayTradedTwice, Apart
  <1> QED BY BacktestInvariant, <1>1, PTL

\* The cash, the trade that is on and the marks of the bars follow the records.
THEOREM CurveInvariant == BacktestSpec => [](BacktestInv /\ CurveInv)
  <1>1. BacktestInit => BacktestInv /\ CurveInv
    BY BacktestStarts, CurveStarts
  <1>2. BacktestInv /\ [BacktestNext]_backtestVars => BacktestInv'
    BY BeginWindowStep, ReplayBarStep, CloseOutStep, PassDayStep, TradeDayStep, ReportStep,
       BacktestStutters DEF BacktestNext
  <1>3. BacktestInv /\ CurveInv /\ [BacktestNext]_backtestVars => CurveInv'
    BY BeginWindowCurve, ReplayBarCurve, CloseOutCurve, PassDayCurve, TradeDayCurve, ReportCurve,
       CurveStutters DEF BacktestNext
  <1> QED BY <1>1, <1>2, <1>3, PTL DEF BacktestSpec

\* The equity curve rebuilt from the records alone (_build_equity_curve) is what the
\* cash and the shares were worth at every bar but those of an exit.
THEOREM CurveFromRecords == BacktestSpec => []CurveIsEquity
  BY CurveInvariant, CurveReported, PTL

=============================================================================
