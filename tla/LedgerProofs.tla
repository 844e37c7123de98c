------------------------- MODULE LedgerProofs -------------------------------
(***************************************************************************)
(* Theorems about the desk, for every finite set of tickers and all limits *)
(* and distances.                                                          *)
(***************************************************************************)
EXTENDS TradingDesk, BacktestEngine, FiniteSetTheorems, SetSums

-----------------------------------------------------------------------------
(* Operators                                                               *)

\* The greatest element of a set with at most two elements.
LEMMA MaxFacts ==
    \A a, b \in Int : \A S \in SUBSET {a, b} :
        S # {} => Max(S) \in S /\ \A x \in S : Max(S) >= x
  <1> SUFFICES ASSUME NEW a \in Int, NEW b \in Int, NEW S \in SUBSET {a, b}, S # {}
               PROVE  Max(S) \in S /\ \A x \in S : Max(S) >= x
    OBVIOUS
  <1>1. \E x \in S : \A y \in S : x >= y
    <2>1. CASE a \in S /\ b \in S /\ a >= b
      BY <2>1
    <2>2. CASE a \in S /\ b \in S /\ b >= a
      BY <2>2
    <2>3. CASE a \notin S \/ b \notin S
      <3>1. PICK x \in S : S = {x} /\ x \in Int
        BY <2>3
      <3> QED BY <3>1
    <2> QED BY <2>1, <2>2, <2>3
  <1> QED BY <1>1 DEF Max

LEMMA MaxOfTwo ==
    \A a, b \in Int : Max({a, b}) \in {a, b} /\ Max({a, b}) >= a /\ Max({a, b}) >= b
  <1> SUFFICES ASSUME NEW a \in Int, NEW b \in Int
               PROVE  Max({a, b}) \in {a, b} /\ Max({a, b}) >= a /\ Max({a, b}) >= b
    OBVIOUS
  <1>1. {a, b} \in SUBSET {a, b} /\ {a, b} # {}
    OBVIOUS
  <1>2. Max({a, b}) \in {a, b} /\ \A x \in {a, b} : Max({a, b}) >= x
    BY <1>1, MaxFacts
  <1> QED BY <1>2

LEMMA MinOfTwo ==
    \A a, b \in Int : Min({a, b}) \in {a, b} /\ Min({a, b}) <= a /\ Min({a, b}) <= b
  <1> SUFFICES ASSUME NEW a \in Int, NEW b \in Int
               PROVE  Min({a, b}) \in {a, b} /\ \A x \in {a, b} : Min({a, b}) <= x
    OBVIOUS
  <1>1. \E x \in {a, b} : \A y \in {a, b} : x =< y
    OBVIOUS
  <1> QED BY <1>1 DEF Min

LEMMA Numbers ==
    /\ MaxPrice \in Nat \ {0} /\ MinDistance \in Nat \ {0} /\ MaxLosses \in Nat \ {0}
    /\ MaxFailures \in Nat \ {0}
    /\ \A e \in Entries : e \in Prices
    /\ \A q \in Prices : q \in Int
    /\ MaxPrice \in Prices
    /\ \A n \in StopRoom \cup Trails : n \in Nat
    /\ MinDistance \in Int
    /\ None \notin Int
  BY DeskAssumption DEF Prices

\* Prices and distances are numbers.
LEMMA PriceTypes ==
    /\ \A e \in Entries : e \in Int
    /\ \A n \in Trails : n \in Int
  BY DeskAssumption

\* Widening keeps a position well-formed and moves its stop to the minimum at most.
LEMMA WidenedFacts ==
    ASSUME NEW x \in Position
    PROVE  /\ Widened(x) \in Position
           /\ Widened(x).entry = x.entry /\ Widened(x).high = x.high /\ Widened(x).risk = x.risk
           /\ Widened(x).stop = x.stop \/ (Widened(x).stop = MinStop(x) /\ x.stop < x.entry)
  <1>1. x.entry \in Int /\ x.stop \in Int /\ MinStop(x) \in Int
    <2>1. x.entry \in Entries /\ x.stop \in Int
      BY DEF Position
    <2>2. x.entry \in Int
      BY <2>1, PriceTypes, Zenon
    <2>3. MinDistance \in Int
      BY Numbers
    <2> QED BY <2>1, <2>2, <2>3 DEF MinStop
  <1> QED BY <1>1 DEF Widened, Position

\* The tighter of the trailing stops is a number over the present stop.
LEMMA TrailingFacts ==
    ASSUME NEW x \in Position, NEW last \in Prices, NEW trail \in Trails \cup {None},
           Trailing(x, last, trail) # {}
    PROVE  Max(Trailing(x, last, trail)) \in Int /\ Max(Trailing(x, last, trail)) > x.stop
  <1>1. /\ x.stop \in Int /\ x.high \in Prices \cup {None} /\ x.risk \in Nat \cup {None}
        /\ last \in Int
    BY Numbers DEF Position
  <1>2. \E a, b \in Int : Trailing(x, last, trail) \in SUBSET {a, b}
    <2>1. \E a \in Int : Ratchets(x, last) \subseteq {a}
      BY <1>1 DEF Ratchets
    <2>2. \E b \in Int : Chandeliers(x, trail) \subseteq {b}
      <3>1. CASE x.high = None \/ trail = None
        BY <3>1 DEF Chandeliers
      <3>2. CASE ~(x.high = None \/ trail = None)
        <4>1. x.high \in Prices /\ trail \in Trails
          BY <1>1, <3>2 DEF Chandeliers
        <4>a. x.high \in Int
          BY <4>1, Numbers, Zenon
        <4>b. trail \in Int
          BY <4>1, PriceTypes, Zenon
        <4>2. Chandeliers(x, trail) = {x.high - trail}
          BY <3>2 DEF Chandeliers
        <4> QED BY <4>a, <4>b, <4>2
      <3> QED BY <3>1, <3>2
    <2> QED BY <2>1, <2>2 DEF Trailing
  <1>3. Max(Trailing(x, last, trail)) \in Trailing(x, last, trail)
    BY <1>2, MaxFacts
  <1>4. Trailing(x, last, trail) \subseteq {c \in Int : c > x.stop}
    BY <1>2 DEF Trailing
  <1> QED BY <1>3, <1>4

LEMMA HigherType ==
    ASSUME NEW high \in Prices \cup {None}, NEW last \in Prices
    PROVE  Higher(high, last) \in Prices
  BY Numbers, MaxOfTwo DEF Higher

-----------------------------------------------------------------------------
(* Type correctness                                                        *)

\* A pass has the positions it still has to look at.
Owned == \A p \in Processes, t \in Tickers : At(p, t) => pass[p].copy[t] # None
Base == TypeOK /\ Owned

\* A process that runs may fail once more.
Counted == \A p \in Processes : pass[p].pc # "stopped" => failures[p] < MaxFailures

LEMMA IdleType == Idle \in Pass /\ Empty \in Positions /\ Held(Empty) = {}
  BY DEF Idle, Pass, Empty, Positions, Held

LEMMA IdleAt ==
    ASSUME NEW pct \in {"idle", "traded", "stopped"}, NEW r, r = [Idle EXCEPT !.pc = pct]
    PROVE  r \in Pass /\ r.pc = pct /\ r.pc # "managing" /\ r.pc # "trading" /\ r.todo = {}
           /\ r.copy = Empty
  BY IdleType DEF Idle, Pass

LEMMA BaseInit == Init => Base
  <1> SUFFICES ASSUME Init PROVE Base
    OBVIOUS
  <1>1. price \in [Tickers -> Prices]
    BY Numbers DEF Init
  <1>2. TypeOK
    <2>1. pass \in [Processes -> Pass] /\ saved \in Positions
      BY IdleType DEF Init
    <2>2. failures \in [Processes -> 0..MaxFailures] /\ streak \in Nat
      BY Numbers DEF Init
    <2> QED BY <1>1, <2>1, <2>2 DEF Init, TypeOK
  <1>3. Owned
    BY DEF Init, Owned, At, Idle
  <1> QED BY <1>2, <1>3 DEF Base

\* The desk with one pass changed.
LEMMA OnePass ==
    ASSUME Base, NEW p \in Processes, NEW r \in Pass, pass' = [pass EXCEPT ![p] = r],
           r.pc = "managing" => \A t \in r.todo : r.copy[t] # None
    PROVE  pass' \in [Processes -> Pass] /\ Owned'
  <1>1. pass \in [Processes -> Pass]
    BY DEF Base, TypeOK
  <1>2. pass' \in [Processes -> Pass]
    BY <1>1
  <1>3. \A q \in Processes : pass'[q] = IF q = p THEN r ELSE pass[q]
    BY <1>1
  <1> QED BY <1>2, <1>3 DEF Base, Owned, At

\* Saving a changed position keeps copy and portfolio well-formed.
LEMMA SaveFacts ==
    ASSUME Base, NEW p \in Processes, NEW t \in Tickers, NEW position \in Position \cup {None},
           SaveCopy(p, t, position)
    PROVE  /\ pass' \in [Processes -> Pass] /\ Owned' /\ saved' \in Positions /\ deep' \in BOOLEAN
           /\ pass'[p].pc = pass[p].pc /\ pass'[p].todo = pass[p].todo \ {t}
           /\ pass'[p].copy = [pass[p].copy EXCEPT ![t] = position]
           /\ \A q \in Processes \ {p} : pass'[q] = pass[q]
  <1> DEFINE r == [pass[p] EXCEPT !.copy[t] = position, !.todo = @ \ {t}]
  <1>1. pass \in [Processes -> Pass] /\ pass[p] \in Pass
    BY DEF Base, TypeOK
  <1>2. pass' = [pass EXCEPT ![p] = r]
    BY <1>1 DEF SaveCopy
  <1>3. /\ r.pc = pass[p].pc /\ r.todo = pass[p].todo \ {t}
        /\ r.copy = [pass[p].copy EXCEPT ![t] = position] /\ r.dirty = pass[p].dirty
    BY <1>1 DEF Pass
  <1>4. r.copy \in Positions /\ \A u \in Tickers \ {t} : r.copy[u] = pass[p].copy[u]
    BY <1>1, <1>3 DEF Pass, Positions
  <1>5. r \in Pass
    BY <1>1, <1>3, <1>4 DEF Pass
  <1>6. r.pc = "managing" => \A u \in r.todo : r.copy[u] # None
    BY <1>1, <1>3, <1>4 DEF Base, Owned, At, Pass
  <1>7. saved' \in Positions
    BY <1>1, <1>2, <1>4 DEF SaveCopy
  <1>8. deep' \in BOOLEAN
    BY DEF SaveCopy, Snapshot, Base, TypeOK
  <1>9. pass'[p] = r /\ \A q \in Processes \ {p} : pass'[q] = pass[q]
    BY <1>1, <1>2
  <1> HIDE DEF r
  <1> QED BY <1>2, <1>3, <1>5, <1>6, <1>7, <1>8, <1>9, OnePass

\* A pass starts, or is refused and leaves the switch on.
LEMMA EnterFacts ==
    ASSUME Base, NEW p \in Processes, NEW pct, NEW refused, NEW todo, NEW dirty \in BOOLEAN,
           pct \in {"trading", "managing"}, refused \in {"traded", "idle"}, todo \in SUBSET Tickers,
           pct = "managing" => todo = Held(saved),
           Enter(p, pct, refused, todo, dirty)
    PROVE  /\ pass' \in [Processes -> Pass] /\ Owned' /\ halted' \in BOOLEAN
           /\ UNCHANGED <<price, saved, streak, deep>>
           /\ pass'[p].pc \in {pct, refused}
           /\ pass'[p].pc = pct \/ pass'[p].todo = {}
           /\ pass'[p].pc = pct => streak < MaxLosses
           /\ \A q \in Processes \ {p} : pass'[q] = pass[q]
  <1>0. /\ pass \in [Processes -> Pass] /\ saved \in Positions /\ halted \in BOOLEAN
        /\ streak \in Nat /\ MaxLosses \in Nat
    BY Numbers DEF Base, TypeOK
  <1>1. CASE Trades /\ ~Tripped
    <2> DEFINE r == [pc |-> pct, todo |-> todo, copy |-> saved, dirty |-> dirty]
    <2>1. r \in Pass
      BY <1>0 DEF Pass
    <2>2. pass' = [pass EXCEPT ![p] = r] /\ UNCHANGED <<halted, price, saved, streak, deep>>
      BY <1>1 DEF Enter
    <2>3. r.pc = "managing" => \A t \in r.todo : r.copy[t] # None
      BY DEF Held
    <2>4. streak < MaxLosses
      BY <1>0, <1>1 DEF Tripped
    <2>5. pass'[p] = r /\ \A q \in Processes \ {p} : pass'[q] = pass[q]
      BY <1>0, <2>2
    <2> QED BY <1>0, <2>1, <2>2, <2>3, <2>4, <2>5, OnePass
  <1>2. CASE ~(Trades /\ ~Tripped)
    <2> DEFINE r == [Idle EXCEPT !.pc = refused]
    <2>1. r \in Pass /\ r.pc = refused /\ r.pc # "managing" /\ r.pc # "trading" /\ r.todo = {}
      BY IdleAt
    <2>3. pass' = [pass EXCEPT ![p] = r] /\ halted' = TRUE /\ UNCHANGED <<price, saved, streak, deep>>
      BY <1>2 DEF Enter, Halt, SetKillSwitch
    <2>4. pass'[p] = r /\ \A q \in Processes \ {p} : pass'[q] = pass[q]
      BY <1>0, <2>3
    <2> HIDE DEF r
    <2>5. pass' \in [Processes -> Pass] /\ Owned'
      BY <2>1, <2>3, OnePass
    <2> QED BY <1>0, <2>1, <2>3, <2>4, <2>5
  <1> QED BY <1>1, <1>2

LEMMA StartTradingFacts ==
    ASSUME Base, StartTrading
    PROVE  /\ pass' \in [Processes -> Pass] /\ Owned' /\ halted' \in BOOLEAN
           /\ UNCHANGED <<price, saved, streak, deep, failures>>
           /\ pass'["loop"].pc \in {"trading", "traded"}
           /\ \A q \in Processes \ {"loop"} : pass'[q] = pass[q]
  <1>1. PICK approved \in SUBSET Tickers \ {{}} : Enter("loop", "trading", "traded", approved, FALSE)
    BY DEF StartTrading
  <1> DEFINE p == "loop"  pct == "trading"  refused == "traded"  dirty == FALSE
  <1>2. /\ p \in Processes /\ dirty \in BOOLEAN /\ pct \in {"trading", "managing"}
        /\ refused \in {"traded", "idle"} /\ approved \in SUBSET Tickers /\ pct # "managing"
        /\ Enter(p, pct, refused, approved, dirty)
    BY <1>1 DEF Processes
  <1> HIDE DEF p, pct, refused, dirty
  <1>3. /\ pass' \in [Processes -> Pass] /\ Owned' /\ halted' \in BOOLEAN
        /\ UNCHANGED <<price, saved, streak, deep>>
        /\ pass'[p].pc \in {pct, refused}
        /\ \A q \in Processes \ {p} : pass'[q] = pass[q]
    BY <1>2, EnterFacts
  <1> QED BY <1>3 DEF StartTrading, p, pct, refused

\* A pass under way: what it holds and looks at.
LEMMA AtFacts ==
    ASSUME Base, NEW p \in Processes, NEW t \in Tickers, At(p, t)
    PROVE  /\ pass[p] \in Pass /\ pass[p].copy \in Positions
           /\ pass[p].copy[t] \in Position /\ price[t] \in Prices
           /\ Widened(pass[p].copy[t]) \in Position
  <1>1. pass[p] \in Pass /\ price[t] \in Prices
    BY DEF Base, TypeOK
  <1>2. pass[p].copy \in Positions /\ pass[p].copy[t] # None
    BY <1>1 DEF Base, Owned, Pass
  <1>3. pass[p].copy[t] \in Position
    BY <1>2 DEF Positions
  <1> QED BY <1>1, <1>2, <1>3, WidenedFacts

LEMMA SoldFacts ==
    ASSUME Base, NEW p \in Processes, NEW t \in Tickers, NEW rest \in Position \cup {None},
           At(p, t), Sold(p, t, rest)
    PROVE  /\ Base' /\ streak' \in {0, streak + 1} /\ failures' = failures
           /\ pass'[p].pc = pass[p].pc /\ pass'[p].todo = pass[p].todo \ {t}
           /\ pass'[p].copy = [pass[p].copy EXCEPT ![t] = rest]
           /\ \A q \in Processes \ {p} : pass'[q] = pass[q]
  <1>1. /\ pass' \in [Processes -> Pass] /\ Owned' /\ saved' \in Positions /\ deep' \in BOOLEAN
        /\ pass'[p].pc = pass[p].pc /\ pass'[p].todo = pass[p].todo \ {t}
        /\ pass'[p].copy = [pass[p].copy EXCEPT ![t] = rest]
        /\ \A q \in Processes \ {p} : pass'[q] = pass[q]
    BY SaveFacts DEF Sold
  <1>2. streak' \in {0, streak + 1} /\ UNCHANGED <<price, halted, failures>>
    BY DEF Sold, LosingStreak
  <1>3. streak' \in Nat
    BY <1>2 DEF Base, TypeOK
  <1> QED BY <1>1, <1>2, <1>3 DEF Base, TypeOK

LEMMA HalfFacts ==
    ASSUME Base, NEW p \in Processes, NEW t \in Tickers, At(p, t),
           NEW x, x = Widened(pass[p].copy[t])
    PROVE  LET half == [x EXCEPT !.stop = Max({@, x.entry}), !.partial = TRUE]
           IN  half \in Position /\ half.stop >= x.stop
  <1>1. x \in Position
    BY AtFacts
  <1>2. x.entry \in Int /\ x.stop \in Int
    BY <1>1, Numbers DEF Position
  <1>3. Max({x.stop, x.entry}) \in Int /\ Max({x.stop, x.entry}) >= x.stop
    BY <1>2, MaxOfTwo
  <1> QED BY <1>1, <1>3 DEF Position

\* A look that changes the pass's copy of a position and sells nothing.
LEMMA LookedFacts ==
    ASSUME Base, NEW p \in Processes, NEW t \in Tickers, NEW position \in Position,
           NEW dirty \in BOOLEAN, UNCHANGED <<price, ledger, failures>>,
           \/ pass' = [pass EXCEPT ![p].todo = @ \ {t}, ![p].copy[t] = position]
           \/ pass' = [pass EXCEPT ![p].todo = @ \ {t}, ![p].copy[t] = position, ![p].dirty = dirty]
    PROVE  /\ Base'
           /\ pass'[p].pc = pass[p].pc /\ pass'[p].todo = pass[p].todo \ {t}
           /\ pass'[p].copy = [pass[p].copy EXCEPT ![t] = position]
           /\ \A q \in Processes \ {p} : pass'[q] = pass[q]
  <1>1. pass \in [Processes -> Pass] /\ pass[p] \in Pass
    BY DEF Base, TypeOK
  <1>2. PICK r : r = pass'[p]
    OBVIOUS
  <1>3. /\ r.pc = pass[p].pc /\ r.todo = pass[p].todo \ {t}
        /\ r.copy = [pass[p].copy EXCEPT ![t] = position]
        /\ \A q \in Processes \ {p} : pass'[q] = pass[q]
    BY <1>1, <1>2 DEF Pass
  <1>4. r.copy \in Positions /\ \A u \in Tickers \ {t} : r.copy[u] = pass[p].copy[u]
    BY <1>1, <1>3 DEF Pass, Positions
  <1>5. r \in Pass
    <2>1. CASE pass' = [pass EXCEPT ![p].todo = @ \ {t}, ![p].copy[t] = position]
      BY <1>1, <1>2, <1>4, <2>1 DEF Pass
    <2>2. CASE pass' = [pass EXCEPT ![p].todo = @ \ {t}, ![p].copy[t] = position, ![p].dirty = dirty]
      BY <1>1, <1>2, <1>4, <2>2 DEF Pass
    <2> QED BY <2>1, <2>2
  <1>6. pass' = [pass EXCEPT ![p] = r]
    BY <1>1, <1>2, <1>3
  <1>7. ASSUME r.pc = "managing", NEW u \in r.todo PROVE r.copy[u] # None
    <2>1. u \in Tickers \ {t} /\ u \in pass[p].todo
      BY <1>1, <1>3, <1>7 DEF Pass
    <2>2. At(p, u)
      BY <1>3, <1>7, <2>1 DEF At
    <2> QED BY <1>4, <2>1, <2>2 DEF Base, Owned
  <1>8. pass' \in [Processes -> Pass] /\ Owned'
    BY <1>5, <1>6, <1>7, OnePass
  <1>9. Base'
    BY <1>8 DEF ledger, Base, TypeOK
  <1> QED BY <1>2, <1>3, <1>9

\* A pass has looked at t: one position of its copy is another one or gone, and
\* the stop is no lower than after the widening.
Looked(p, t, position) ==
    /\ At(p, t) /\ Base' /\ failures' = failures
    /\ streak' \in {0, streak, streak + 1}
    /\ pass'[p].pc = pass[p].pc /\ pass'[p].todo = pass[p].todo \ {t}
    /\ pass'[p].copy = [pass[p].copy EXCEPT ![t] = position]
    /\ \A q \in Processes \ {p} : pass'[q] = pass[q]
    /\ position # None => position.stop >= Widened(pass[p].copy[t]).stop

LEMMA LookStep ==
    ASSUME Base, NEW t \in Tickers, Look(t)
    PROVE  \E p \in Processes, position \in Position \cup {None} : Looked(p, t, position)
  <1>0. /\ price \in [Tickers -> Prices] /\ saved \in Positions /\ halted \in BOOLEAN
        /\ deep \in BOOLEAN /\ streak \in Nat /\ pass \in [Processes -> Pass]
        /\ failures \in [Processes -> 0..MaxFailures] /\ Owned /\ MaxFailures \in Nat
        /\ "loop" \in Processes /\ "run-manager" \in Processes
    BY Numbers DEF Base, TypeOK, Processes
  <1>6. ASSUME NEW p \in Processes, SellAll(p, t)
        PROVE  \E q \in Processes, position \in Position \cup {None} : Looked(q, t, position)
    <2>1. At(p, t) /\ Sold(p, t, None)
      BY <1>6 DEF SellAll
    <2>2. Looked(p, t, None)
      BY <2>1, SoldFacts DEF Looked
    <2> QED BY <2>2
  <1>7. ASSUME NEW p \in Processes, SellHalf(p, t)
        PROVE  \E q \in Processes, position \in Position \cup {None} : Looked(q, t, position)
    <2> DEFINE x == Widened(pass[p].copy[t])
               half == [x EXCEPT !.stop = Max({@, x.entry}), !.partial = TRUE]
    <2>1. At(p, t) /\ Sold(p, t, half)
      BY <1>7 DEF SellHalf
    <2>2. half \in Position
      BY <2>1, HalfFacts
    <2>3. half.stop >= x.stop
      BY <2>1, HalfFacts
    <2> HIDE DEF half
    <2>4. Looked(p, t, half)
      BY <2>1, <2>2, <2>3, SoldFacts DEF Looked
    <2> QED BY <2>2, <2>4
  <1>8. ASSUME TrailInLoop(t) 
        PROVE  \E p \in Processes, position \in Position \cup {None} : Looked(p, t, position)
    <2> DEFINE old == pass["loop"].copy[t]
               x == Widened(old)
    <2>1. /\ At("loop", t) /\ pass["loop"] \in Pass /\ x \in Position /\ price[t] \in Prices
      BY <1>0, <1>8, AtFacts DEF TrailInLoop
    <2>2. PICK trail \in Trails \cup {None} :
             LET stops == Trailing(x, price[t], trail)
                 stop == IF stops = {} THEN x.stop ELSE Max(stops)
             IN IF stops # {} /\ price[t] <= stop THEN Sold("loop", t, None)
                ELSE /\ pass' = [pass EXCEPT
                            !["loop"].todo = @ \ {t},
                            !["loop"].copy[t] = [x EXCEPT !.stop = stop,
                                                          !.high = Higher(@, price[t])]]
                     /\ UNCHANGED <<price, ledger, failures>>
      BY <1>8 DEF TrailInLoop
    <2> DEFINE stops == Trailing(x, price[t], trail)
               stop == IF stops = {} THEN x.stop ELSE Max(stops)
               position == [x EXCEPT !.stop = stop, !.high = Higher(@, price[t])]
    <2>3. CASE stops # {} /\ price[t] <= stop
      <3>a. Sold("loop", t, None)
        BY <2>2, <2>3
      <3>1. Looked("loop", t, None)
        BY <1>0, <2>1, <3>a, SoldFacts, SMTT(20) DEF Looked
      <3> QED BY <1>0, <3>1
    <2>4. CASE ~(stops # {} /\ price[t] <= stop)
      <3>1. stop \in Int
        BY <2>1, TrailingFacts DEF Position
      <3>2. Higher(x.high, price[t]) \in Prices
        BY <2>1, HigherType DEF Position
      <3>3. position \in Position
        BY <2>1, <3>1, <3>2 DEF Position
      <3>4. pass' = [pass EXCEPT !["loop"].todo = @ \ {t}, !["loop"].copy[t] = position]
            /\ UNCHANGED <<price, ledger, failures>>
        BY <2>2, <2>4
      <3>5. position.stop >= x.stop
        <4>1. position.stop = stop
          BY <2>1 DEF Position
        <4>2. x.stop \in Int
          BY <2>1 DEF Position
        <4> QED BY <2>1, <4>1, <4>2, TrailingFacts
      <3> HIDE DEF position
      <3>6. /\ Base'
            /\ pass'["loop"].pc = pass["loop"].pc
            /\ pass'["loop"].todo = pass["loop"].todo \ {t}
            /\ pass'["loop"].copy = [pass["loop"].copy EXCEPT ![t] = position]
            /\ \A q \in Processes \ {"loop"} : pass'[q] = pass[q]
        <4> DEFINE p == "loop"
        <4>1. pass' = [pass EXCEPT ![p].todo = @ \ {t}, ![p].copy[t] = position]
              /\ UNCHANGED <<price, ledger, failures>>
          BY <3>4
        <4>2. p \in Processes /\ FALSE \in BOOLEAN
          BY <1>0
        <4> HIDE DEF p
        <4>3. /\ Base'
              /\ pass'[p].pc = pass[p].pc /\ pass'[p].todo = pass[p].todo \ {t}
              /\ pass'[p].copy = [pass[p].copy EXCEPT ![t] = position]
              /\ \A q \in Processes \ {p} : pass'[q] = pass[q]
          BY <3>3, <4>1, <4>2, LookedFacts
        <4> QED BY <4>3 DEF p
      <3>7. failures' = failures /\ streak' = streak
        BY <3>4 DEF ledger
      <3>8. Looked("loop", t, position)
        BY <2>1, <3>5, <3>6, <3>7 DEF Looked
      <3> QED BY <1>0, <3>3, <3>8
    <2> QED BY <2>3, <2>4
  <1>9. ASSUME TrailInCommand(t) 
        PROVE  \E p \in Processes, position \in Position \cup {None} : Looked(p, t, position)
    <2> DEFINE p == "run-manager"
               old == pass[p].copy[t]
               x == Widened(old)
    <2>1. /\ At(p, t) /\ pass[p] \in Pass /\ x \in Position /\ price[t] \in Prices
      BY <1>0, <1>9, AtFacts DEF TrailInCommand
    <2>2. PICK trail \in Trails \cup {None}, barHigh \in {price[t], MaxPrice} :
             LET trailed == [x EXCEPT
                     !.high = Higher(@, barHigh),
                     !.risk = IF @ = None /\ x.stop < x.entry
                              THEN x.entry - x.stop ELSE @]
                 stops == Trailing(trailed, price[t], trail)
             IN IF stops # {}
                THEN /\ SaveCopy("run-manager", t, [trailed EXCEPT !.stop = Max(stops)])
                     /\ UNCHANGED <<price, halted, streak, failures>>
                ELSE /\ pass' = [pass EXCEPT
                            !["run-manager"].todo = @ \ {t},
                            !["run-manager"].copy[t] = x,
                            !["run-manager"].dirty = @ \/ x # pass["run-manager"].copy[t]]
                     /\ UNCHANGED <<price, ledger, failures>>
      BY <1>9 DEF TrailInCommand
    <2> DEFINE trailed == [x EXCEPT
                     !.high = Higher(@, barHigh),
                     !.risk = IF @ = None /\ x.stop < x.entry
                              THEN x.entry - x.stop ELSE @]
               stops == Trailing(trailed, price[t], trail)
    <2>3. trailed \in Position
      <3>1. Higher(x.high, barHigh) \in Prices
        BY <2>1, HigherType, Numbers DEF Position
      <3>2. x.entry \in Int /\ x.stop \in Int
        BY <2>1, Numbers DEF Position
      <3>3. (IF x.risk = None /\ x.stop < x.entry THEN x.entry - x.stop ELSE x.risk) \in Nat \cup {None}
        BY <2>1, <3>2 DEF Position
      <3> QED BY <2>1, <3>1, <3>3 DEF Position
    <2> HIDE DEF trailed
    <2>4. CASE stops # {}
      <3> DEFINE position == [trailed EXCEPT !.stop = Max(stops)]
      <3>1. position \in Position
        BY <2>1, <2>3, <2>4, TrailingFacts DEF Position
      <3>2. /\ SaveCopy(p, t, position)
            /\ UNCHANGED <<price, halted, streak, failures>>
        BY <2>2, <2>4 DEF trailed
      <3>3. pass' \in [Processes -> Pass] /\ Owned' /\ saved' \in Positions /\ deep' \in BOOLEAN
        BY <1>0, <3>1, <3>2, SaveFacts
      <3>4. Base'
        BY <1>0, <3>2, <3>3 DEF Base, TypeOK
      <3>5. position.stop >= x.stop
        <4>1. position.stop = Max(stops) /\ trailed.stop = x.stop /\ x.stop \in Int
          BY <2>1, <2>3 DEF trailed, Position
        <4> QED BY <2>1, <2>3, <2>4, <4>1, TrailingFacts
      <3>6. p \in Processes
        BY <1>0
      <3> HIDE DEF p, position
      <3>7. Looked(p, t, position)
        BY <2>1, <3>1, <3>2, <3>4, <3>5, <3>6, SaveFacts DEF Looked
      <3> QED BY <3>1, <3>6, <3>7
    <2>5. CASE stops = {}
      <3>1. pass' = [pass EXCEPT ![p].todo = @ \ {t}, ![p].copy[t] = x,
                                 ![p].dirty = pass[p].dirty \/ x # old]
            /\ UNCHANGED <<price, ledger, failures>>
        BY <1>0, <2>2, <2>5 DEF trailed
      <3>2. PICK dirty \in BOOLEAN : dirty = (pass[p].dirty \/ x # old)
        OBVIOUS
      <3>3. p \in Processes
        BY <1>0
      <3>4. x.stop >= x.stop
        BY <2>1 DEF Position
      <3>5. Base
        OBVIOUS
      <3>6. x.stop >= Widened(pass[p].copy[t]).stop
        BY <3>4
      <3> HIDE DEF p, x, old
      <3>7. /\ Base'
            /\ pass'[p].pc = pass[p].pc /\ pass'[p].todo = pass[p].todo \ {t}
            /\ pass'[p].copy = [pass[p].copy EXCEPT ![t] = x]
            /\ \A q \in Processes \ {p} : pass'[q] = pass[q]
        BY <2>1, <3>1, <3>2, <3>3, LookedFacts
      <3>8. failures' = failures /\ streak' = streak
        BY <3>1 DEF ledger
      <3>9. Looked(p, t, x)
        BY <2>1, <3>6, <3>7, <3>8 DEF Looked
      <3> QED BY <2>1, <3>3, <3>9
    <2> QED BY <2>4, <2>5
  <1> QED BY <1>6, <1>7, <1>8, <1>9 DEF Look

LEMMA BaseStep == Base /\ Counted /\ [Next]_vars => Base'
  <1> SUFFICES ASSUME Base, Counted, [Next]_vars PROVE Base'
    OBVIOUS
  <1>0. /\ price \in [Tickers -> Prices] /\ saved \in Positions /\ halted \in BOOLEAN
        /\ deep \in BOOLEAN /\ streak \in Nat /\ pass \in [Processes -> Pass]
        /\ failures \in [Processes -> 0..MaxFailures] /\ Owned /\ MaxFailures \in Nat
        /\ "loop" \in Processes /\ "run-manager" \in Processes
    BY Numbers DEF Base, TypeOK, Processes
  <1>1. CASE StartTrading
    BY <1>0, <1>1, StartTradingFacts DEF Base, TypeOK
  \* A pass moves on and touches nothing else.
  <1>a. ASSUME NEW p \in Processes, NEW r \in Pass, pass' = [pass EXCEPT ![p] = r],
               r.pc # "managing", UNCHANGED <<price, ledger>>,
               failures' \in [Processes -> 0..MaxFailures]
        PROVE  Base'
    <2>1. pass' \in [Processes -> Pass] /\ Owned'
      BY <1>a, OnePass
    <2> QED BY <1>0, <1>a, <2>1 DEF ledger, Base, TypeOK
  <1>i. \A pct \in {"idle", "traded", "stopped"} :
            [Idle EXCEPT !.pc = pct] \in Pass /\ [Idle EXCEPT !.pc = pct].pc = pct
    BY IdleAt
  <1>2. CASE NothingApproved
    <2> DEFINE r == [pass["loop"] EXCEPT !.pc = "traded"]
    <2>1. r \in Pass /\ r.pc = "traded"
      BY <1>0 DEF Pass
    <2>2. pass' = [pass EXCEPT !["loop"] = r] /\ UNCHANGED <<price, ledger, failures>>
      BY <1>0, <1>2 DEF NothingApproved
    <2> HIDE DEF r
    <2> QED BY <1>0, <1>a, <2>1, <2>2
  <1>3. CASE EndTrading
    BY <1>0, <1>3, <1>a, <1>i DEF EndTrading
  <1>4. ASSUME NEW t \in Tickers, Buy(t) PROVE Base'
    <2>1. PICK room \in StopRoom :
            SaveCopy("loop", t, [entry |-> price[t], stop |-> price[t] - room, high |-> None,
                                 risk |-> None, partial |-> FALSE])
      BY <1>4 DEF Buy
    <2>a. price[t] \in Entries
      BY <1>4 DEF Buy
    <2>b. price[t] \in Int
      BY <2>a, PriceTypes, Zenon
    <2>c. room \in Nat
      BY Numbers
    <2>2. price[t] \in Entries /\ price[t] - room \in Int
      BY <2>a, <2>b, <2>c
    <2>3. [entry |-> price[t], stop |-> price[t] - room, high |-> None,
           risk |-> None, partial |-> FALSE] \in Position
      BY <2>2 DEF Position
    <2>4. pass' \in [Processes -> Pass] /\ Owned' /\ saved' \in Positions /\ deep' \in BOOLEAN
      BY <1>0, <2>1, <2>3, SaveFacts
    <2> QED BY <1>0, <1>4, <2>4 DEF Buy, Base, TypeOK
  <1>5. ASSUME NEW p \in Processes, StartManaging(p) PROVE Base'
    <2>1. (p = "loop") \in BOOLEAN /\ Held(saved) \in SUBSET Tickers
      BY DEF Held
    <2>2. Enter(p, "managing", "idle", Held(saved), p = "loop")
      BY <1>5 DEF StartManaging
    <2>3. /\ pass' \in [Processes -> Pass] /\ Owned' /\ halted' \in BOOLEAN
          /\ UNCHANGED <<price, saved, streak, deep>>
      BY <2>1, <2>2, EnterFacts
    <2>4. failures' \in [Processes -> 0..MaxFailures]
      BY <1>0, <1>5 DEF StartManaging
    <2> QED BY <1>0, <2>3, <2>4 DEF Base, TypeOK
  <1>6. ASSUME NEW t \in Tickers, Look(t) PROVE Base'
    BY <1>6, LookStep DEF Looked
  <1>10. ASSUME NEW p \in Processes, NEW t \in Tickers, SkipTicker(p, t) PROVE Base'
    <2> DEFINE r == [pass[p] EXCEPT !.todo = @ \ {t}]
    <2>1. pass[p] \in Pass /\ pass' = [pass EXCEPT ![p] = r] /\ UNCHANGED <<price, ledger, failures>>
      BY <1>0, <1>10 DEF SkipTicker
    <2>2. r \in Pass /\ r.pc = pass[p].pc /\ r.todo = pass[p].todo \ {t} /\ r.copy = pass[p].copy
      BY <2>1 DEF Pass
    <2>3. r.pc = "managing" => \A u \in r.todo : r.copy[u] # None
      BY <1>0, <2>1, <2>2 DEF Owned, At, Pass
    <2> HIDE DEF r
    <2>4. pass' \in [Processes -> Pass] /\ Owned'
      BY <2>1, <2>2, <2>3, OnePass
    <2> QED BY <1>0, <2>1, <2>4 DEF ledger, Base, TypeOK
  <1>11. ASSUME NEW p \in Processes, EndManaging(p) PROVE Base'
    <2>1. pass' = [pass EXCEPT ![p] = Idle] /\ failures' = [failures EXCEPT ![p] = 0]
          /\ UNCHANGED <<price, halted, streak>>
      BY <1>11 DEF EndManaging
    <2>2. saved' \in Positions /\ deep' \in BOOLEAN
      BY <1>0, <1>11 DEF EndManaging, Snapshot, Pass
    <2>3. pass' \in [Processes -> Pass] /\ Owned'
      BY <2>1, IdleType, OnePass DEF Idle
    <2> QED BY <1>0, <2>1, <2>2, <2>3 DEF Base, TypeOK
  <1>12. ASSUME NEW p \in Processes, CycleFails(p) \/ Restart(p) PROVE Base'
    <2>1. UNCHANGED <<price, ledger>>
      BY <1>12 DEF CycleFails, Restart
    <2>2. PICK r \in Pass : pass' = [pass EXCEPT ![p] = r] /\ r.pc # "managing"
      <3>1. Idle \in Pass /\ Idle.pc # "managing"
        BY IdleType DEF Idle
      <3> QED BY <1>12, <1>i, <3>1 DEF CycleFails, Restart
    <2>4. pass' \in [Processes -> Pass] /\ Owned'
      BY <2>2, OnePass
    <2>5. CASE failures' \in [Processes -> 0..MaxFailures]
      BY <1>0, <2>1, <2>4, <2>5 DEF ledger, Base, TypeOK
    <2>6. CASE failures' \notin [Processes -> 0..MaxFailures]
      <3>1. failures' = [failures EXCEPT ![p] = failures[p] + 1] /\ pass[p].pc # "stopped"
        BY <1>0, <1>12, <2>6 DEF CycleFails, Restart
      <3>2. failures[p] + 1 \in 0..MaxFailures
        BY <1>0, <3>1 DEF Counted
      <3> QED BY <1>0, <2>6, <3>1, <3>2
    <2> QED BY <2>5, <2>6
  <1>13. CASE HaltOrResume \/ Reset \/ PriceMoves \/ UNCHANGED vars
    <2>1. pass' = pass /\ failures' = failures
      BY <1>13 DEF HaltOrResume, Reset, PriceMoves, vars
    <2>2. price' \in [Tickers -> Prices]
      BY <1>0, <1>13 DEF HaltOrResume, Reset, PriceMoves, vars
    <2>3. saved' \in Positions /\ streak' \in Nat
      BY <1>0, <1>13, IdleType DEF HaltOrResume, Reset, PriceMoves, vars, ledger
    <2>4. halted' \in BOOLEAN /\ deep' \in BOOLEAN
      BY <1>0, <1>13 DEF HaltOrResume, Halt, Resume, SetKillSwitch, Reset, PriceMoves, vars, ledger
    <2>5. Owned'
      BY <1>0, <2>1 DEF Owned, At
    <2> QED BY <1>0, <2>1, <2>2, <2>3, <2>4, <2>5 DEF Base, TypeOK
  <1> QED
    BY <1>1, <1>2, <1>3, <1>4, <1>5, <1>6, <1>10, <1>11, <1>12, <1>13
       DEF Next

-----------------------------------------------------------------------------
(* What a look does, for the properties below                              *)

\* What a pass does with a position it manages: its stop falls no further.
Keeps(old, new) ==
    new.stop >= IF old.stop >= old.entry THEN old.stop ELSE Min({old.stop, MinStop(old)})

StopsStep ==
    \A p \in Processes, t \in Tickers :
        pass[p].pc = "managing" /\ pass[p].copy[t] # None /\ pass'[p].copy[t] # None
            => Keeps(pass[p].copy[t], pass'[p].copy[t])

LEMMA KeepsFacts ==
    ASSUME NEW x \in Position, NEW y \in Position, y.stop >= Widened(x).stop
    PROVE  Keeps(x, y)
  <1>1. x.entry \in Int /\ x.stop \in Int /\ MinStop(x) \in Int /\ y.stop \in Int
    <2>1. x.entry \in Entries /\ x.stop \in Int /\ y.stop \in Int
      BY DEF Position
    <2>2. x.entry \in Int
      BY <2>1, PriceTypes, Zenon
    <2> QED BY <2>1, <2>2, Numbers DEF MinStop
  <1>2. Widened(x).stop = x.stop \/ (Widened(x).stop = MinStop(x) /\ x.stop < x.entry)
    BY WidenedFacts
  <1>3. /\ Min({x.stop, MinStop(x)}) \in Int
        /\ Min({x.stop, MinStop(x)}) <= x.stop /\ Min({x.stop, MinStop(x)}) <= MinStop(x)
    BY <1>1, MinOfTwo
  <1> QED BY <1>1, <1>2, <1>3 DEF Keeps

LEMMA WidenedLower ==
    ASSUME NEW x \in Position
    PROVE  x.stop >= Widened(x).stop
  <1>1. x.entry \in Entries /\ x.stop \in Int
    BY DEF Position
  <1>2. x.entry \in Int
    BY <1>1, PriceTypes, Zenon
  <1>3. MinStop(x) \in Int
    BY <1>2, Numbers DEF MinStop
  <1>4. Widened(x).stop = IF MinStop(x) < x.stop /\ x.stop < x.entry THEN MinStop(x) ELSE x.stop
    BY DEF Widened, Position
  <1> QED BY <1>1, <1>2, <1>3, <1>4

\* A copy that stays, or is thrown away, keeps its stops.
LEMMA KeepsSame ==
    ASSUME Base,
           \A q \in Processes : pass[q].pc = "managing" => pass'[q].copy \in {pass[q].copy, Empty}
    PROVE  StopsStep
  <1> SUFFICES ASSUME NEW p \in Processes, NEW t \in Tickers, pass[p].pc = "managing",
                      pass[p].copy[t] # None, pass'[p].copy[t] # None
               PROVE  Keeps(pass[p].copy[t], pass'[p].copy[t])
    BY DEF StopsStep
  <1>1. pass'[p].copy = pass[p].copy
    BY DEF Empty
  <1>2. pass[p].copy[t] \in Position
    BY DEF Base, TypeOK, Pass, Positions
  <1>3. pass[p].copy[t].stop >= Widened(pass[p].copy[t]).stop
    BY <1>2, WidenedLower
  <1> QED BY <1>1, <1>2, <1>3, KeepsFacts

\* One position of one pass changes.
LEMMA KeepsOne ==
    ASSUME Base, NEW p \in Processes, NEW t \in Tickers, NEW position \in Position \cup {None},
           pass'[p].copy = [pass[p].copy EXCEPT ![t] = position],
           \A q \in Processes \ {p} : pass'[q] = pass[q],
           \/ pass[p].pc # "managing"
           \/ position = None
           \/ pass[p].copy[t] \in Position /\ position \in Position
              /\ position.stop >= Widened(pass[p].copy[t]).stop
    PROVE  StopsStep
  <1> SUFFICES ASSUME NEW q \in Processes, NEW u \in Tickers, pass[q].pc = "managing",
                      pass[q].copy[u] # None, pass'[q].copy[u] # None
               PROVE  Keeps(pass[q].copy[u], pass'[q].copy[u])
    BY DEF StopsStep
  <1>1. pass[p].copy \in Positions
    BY DEF Base, TypeOK, Pass
  <1>2. CASE q = p /\ u = t
    <2>1. pass'[q].copy[u] = position
      BY <1>1, <1>2 DEF Positions
    <2> QED BY <1>2, <2>1, KeepsFacts
  <1>3. CASE ~(q = p /\ u = t)
    <2>1. pass'[q].copy[u] = pass[q].copy[u]
      BY <1>1, <1>3 DEF Positions
    <2>2. pass[q].copy[u] \in Position
      BY DEF Base, TypeOK, Pass, Positions
    <2>3. pass[q].copy[u].stop >= Widened(pass[q].copy[u]).stop
      BY <2>2, WidenedLower
    <2> QED BY <2>1, <2>2, <2>3, KeepsFacts
  <1> QED BY <1>2, <1>3

\* What a step of the desk that is not a look does: a pass starts, or passes go
\* on with less to do, or a ticker is skipped, and copies stay or are thrown away.
Started(p) ==
    /\ pass[p].pc \notin {"managing", "stopped"} /\ streak' = streak
    /\ pass'[p].pc = "managing" => streak < MaxLosses
    /\ \A q \in Processes \ {p} : pass'[q] = pass[q]
    /\ failures' = failures \/ failures' = [failures EXCEPT ![p] = 0]
Quiet ==
    /\ streak' \in {0, streak}
    /\ \A q \in Processes :
          /\ pass'[q].pc = "managing" => pass[q].pc = "managing" /\ pass'[q].todo \subseteq pass[q].todo
          /\ pass[q].pc = "managing" => pass'[q].copy \in {pass[q].copy, Empty}

LEMMA StepKinds ==
    ASSUME Base, Counted, [Next]_vars
    PROVE  \/ \E p \in Processes : Started(p)
           \/ \E p \in Processes, t \in Tickers, position \in Position \cup {None} :
                Looked(p, t, position)
           \/ Quiet
  <1>0. /\ pass \in [Processes -> Pass] /\ "loop" \in Processes /\ streak \in Nat
        /\ failures \in [Processes -> 0..MaxFailures]
    BY DEF Processes, Base, TypeOK
  <1>i. /\ \A pct \in {"idle", "traded", "stopped"} :
              [Idle EXCEPT !.pc = pct].pc = pct /\ [Idle EXCEPT !.pc = pct].copy = Empty
        /\ Idle.pc = "idle" /\ Idle.copy = Empty
    BY DEF Idle
  <1>1. CASE StartTrading
    <2>3. Started("loop")
      BY <1>1, StartTradingFacts DEF Started, StartTrading
    <2> QED BY <1>0, <2>3
  <1>2. CASE NothingApproved \/ EndTrading
    <2>1. /\ UNCHANGED <<streak, failures>> /\ pass["loop"].pc \in {"idle", "trading"}
          /\ pass'["loop"].pc = "traded" /\ \A q \in Processes \ {"loop"} : pass'[q] = pass[q]
      BY <1>0, <1>2, <1>i DEF NothingApproved, EndTrading, ledger, Pass
    <2>2. Quiet
      BY <1>0, <2>1 DEF Quiet
    <2> QED BY <2>2
  <1>3. ASSUME NEW t \in Tickers, Buy(t) PROVE Quiet
    <2>1. UNCHANGED streak /\ \A q \in Processes \ {"loop"} : pass'[q] = pass[q]
      BY <1>0, <1>3 DEF Buy, SaveCopy
    <2>2. pass["loop"].pc = "trading" /\ pass'["loop"].pc = "trading"
      BY <1>0, <1>3 DEF Buy, SaveCopy, Pass
    <2> QED BY <1>0, <2>1, <2>2 DEF Quiet
  <1>4. ASSUME NEW p \in Processes, StartManaging(p) PROVE Started(p)
    <2>1. (p = "loop") \in BOOLEAN /\ Held(saved) \in SUBSET Tickers
      BY DEF Held
    <2>2. Enter(p, "managing", "idle", Held(saved), p = "loop")
      BY <1>4 DEF StartManaging
    <2>3. streak' = streak /\ (pass'[p].pc = "managing" => streak < MaxLosses)
      BY <2>1, <2>2, EnterFacts
    <2>4. \A q \in Processes \ {p} : pass'[q] = pass[q]
      BY <2>1, <2>2, EnterFacts
    <2>5. pass[p].pc \notin {"managing", "stopped"}
      BY <1>4 DEF StartManaging
    <2>6. failures' = failures \/ failures' = [failures EXCEPT ![p] = 0]
      BY <1>4 DEF StartManaging
    <2> QED BY <2>3, <2>4, <2>5, <2>6 DEF Started
  <1>5. ASSUME NEW p \in Processes, NEW t \in Tickers, SkipTicker(p, t) PROVE Quiet
    <2>1. pass'[p].pc = pass[p].pc /\ pass'[p].todo \subseteq pass[p].todo /\ pass'[p].copy = pass[p].copy
      BY <1>0, <1>5 DEF SkipTicker, Pass
    <2>2. UNCHANGED streak /\ \A q \in Processes \ {p} : pass'[q] = pass[q]
      BY <1>0, <1>5 DEF SkipTicker, ledger
    <2> QED BY <1>0, <2>1, <2>2 DEF Quiet
  <1>6. ASSUME NEW p \in Processes, EndManaging(p) \/ CycleFails(p) \/ Restart(p) PROVE Quiet
    <2>1. UNCHANGED streak
      BY <1>6 DEF EndManaging, CycleFails, Restart, ledger
    <2>2. pass'[p].copy = Empty /\ pass'[p].pc # "managing"
      BY <1>0, <1>6, <1>i DEF EndManaging, CycleFails, Restart
    <2>3. \A q \in Processes \ {p} : pass'[q] = pass[q]
      BY <1>0, <1>6 DEF EndManaging, CycleFails, Restart
    <2> QED BY <1>0, <2>1, <2>2, <2>3 DEF Quiet
  <1>7. CASE HaltOrResume \/ Reset \/ PriceMoves \/ UNCHANGED vars
    <2>1. pass' = pass /\ streak' \in {0, streak}
      BY <1>7 DEF HaltOrResume, Reset, PriceMoves, vars, ledger
    <2>2. Quiet
      BY <2>1 DEF Quiet
    <2> QED BY <2>2
  <1>8. ASSUME NEW t \in Tickers, Look(t)
        PROVE  \E p \in Processes, position \in Position \cup {None} : Looked(p, t, position)
    BY <1>8, LookStep
  <1> QED BY <1>1, <1>2, <1>3, <1>4, <1>5, <1>6, <1>7, <1>8 DEF Next

\* A step is a start, a look, or leaves the failures of running processes legal.
LEMMA CountedStep == Base /\ Counted /\ [Next]_vars => Counted'
  <1> SUFFICES ASSUME Base, Counted, [Next]_vars PROVE Counted'
    OBVIOUS
  <1>0. /\ pass \in [Processes -> Pass] /\ "loop" \in Processes
        /\ failures \in [Processes -> 0..MaxFailures]
        /\ MaxFailures \in Nat /\ 0 < MaxFailures
    BY Numbers DEF Base, TypeOK, Processes
  <1>1. ASSUME failures' = failures,
               \A p \in Processes : pass'[p].pc # "stopped" => pass[p].pc # "stopped"
        PROVE  Counted'
    BY <1>1 DEF Counted
  <1>2. ASSUME NEW p \in Processes, failures' = [failures EXCEPT ![p] = 0],
               \A q \in Processes \ {p} : pass'[q] = pass[q]
        PROVE  Counted'
    BY <1>0, <1>2 DEF Counted
  <1>3. CASE StartTrading
    <2>1. failures' = failures /\ \A q \in Processes \ {"loop"} : pass'[q] = pass[q]
      BY <1>3, StartTradingFacts
    <2> QED BY <1>1, <1>3, <2>1 DEF StartTrading
  <1>4. CASE NothingApproved \/ EndTrading
    <2>1. /\ failures' = failures /\ pass["loop"].pc # "stopped"
          /\ \A q \in Processes \ {"loop"} : pass'[q] = pass[q]
      BY <1>0, <1>4 DEF NothingApproved, EndTrading
    <2> QED BY <1>1, <2>1
  <1>5. ASSUME NEW t \in Tickers, Buy(t) PROVE Counted'
    <2>1. /\ failures' = failures /\ pass["loop"].pc # "stopped"
          /\ \A q \in Processes \ {"loop"} : pass'[q] = pass[q]
      BY <1>0, <1>5 DEF Buy, SaveCopy
    <2> QED BY <1>1, <2>1
  <1>6. ASSUME NEW t \in Tickers, Look(t) PROVE Counted'
    <2>1. PICK p \in Processes, position \in Position \cup {None} : Looked(p, t, position)
      BY <1>6, LookStep
    <2>2. failures' = failures /\ pass'[p].pc = pass[p].pc /\ \A q \in Processes \ {p} : pass'[q] = pass[q]
      BY <2>1 DEF Looked
    <2> QED BY <1>1, <2>2
  <1>7. ASSUME NEW p \in Processes, StartManaging(p) PROVE Counted'
    <2>1. (p = "loop") \in BOOLEAN /\ Held(saved) \in SUBSET Tickers
      BY DEF Held
    <2>2. Enter(p, "managing", "idle", Held(saved), p = "loop") /\ pass[p].pc # "stopped"
      BY <1>7 DEF StartManaging
    <2>3. \A q \in Processes \ {p} : pass'[q] = pass[q]
      BY <2>1, <2>2, EnterFacts
    <2>4. failures' = failures \/ failures' = [failures EXCEPT ![p] = 0]
      BY <1>7 DEF StartManaging
    <2> QED BY <1>1, <1>2, <2>2, <2>3, <2>4
  <1>8. ASSUME NEW p \in Processes, NEW t \in Tickers, SkipTicker(p, t) PROVE Counted'
    <2>1. /\ failures' = failures /\ pass'[p].pc = pass[p].pc
          /\ \A q \in Processes \ {p} : pass'[q] = pass[q]
      BY <1>0, <1>8 DEF SkipTicker, Pass
    <2> QED BY <1>1, <2>1
  <1>9. ASSUME NEW p \in Processes, EndManaging(p) \/ Restart(p) PROVE Counted'
    <2>1. failures' = [failures EXCEPT ![p] = 0] /\ \A q \in Processes \ {p} : pass'[q] = pass[q]
      BY <1>0, <1>9 DEF EndManaging, Restart
    <2> QED BY <1>2, <2>1
  <1>10. ASSUME NEW p \in Processes, CycleFails(p) PROVE Counted'
    <2>1. /\ failures' = [failures EXCEPT ![p] = failures[p] + 1]
          /\ \A q \in Processes \ {p} : pass'[q] = pass[q]
      BY <1>0, <1>10 DEF CycleFails
    <2>2. failures'[p] = failures[p] + 1 /\ \A q \in Processes \ {p} : failures'[q] = failures[q]
      BY <1>0, <2>1
    <2>3. pass'[p] = [Idle EXCEPT !.pc = IF failures'[p] >= MaxFailures THEN "stopped" ELSE "idle"]
      BY <1>0, <1>10 DEF CycleFails
    <2>4. failures'[p] >= MaxFailures => pass'[p].pc = "stopped"
      BY <2>3 DEF Idle
    <2>5. failures'[p] \in Int
      BY <1>0, <2>2
    <2> QED BY <1>0, <2>1, <2>2, <2>4, <2>5 DEF Counted
  <1>11. CASE HaltOrResume \/ Reset \/ PriceMoves \/ UNCHANGED vars
    <2>1. pass' = pass /\ failures' = failures
      BY <1>11 DEF HaltOrResume, Reset, PriceMoves, vars
    <2> QED BY <1>1, <2>1
  <1> QED
    BY <1>3, <1>4, <1>5, <1>6, <1>7, <1>8, <1>9, <1>10, <1>11 DEF Next

-----------------------------------------------------------------------------
(* The losses                                                              *)

\* What passes under way still look at.
Looks == {x \in Processes \X Tickers : At(x[1], x[2])}
Most == Cardinality(Processes) * Cardinality(Tickers)
Losses == streak + Cardinality(Looks) < MaxLosses + Most

FewLooks ==
    /\ IsFiniteSet(Looks) /\ Cardinality(Looks) \in Nat /\ Cardinality(Looks) <= Most
    /\ Most \in Nat

LEMMA LooksFacts == FewLooks
  <1>1. IsFiniteSet(Tickers) /\ Cardinality(Tickers) \in Nat
    BY DeskAssumption, FS_CardinalityType
  <1>2. IsFiniteSet(Processes) /\ Cardinality(Processes) \in Nat
    <2>1. IsFiniteSet({"run-manager"})
      BY FS_Singleton
    <2>2. IsFiniteSet({"run-manager"} \cup {"loop"})
      BY <2>1, FS_AddElement
    <2>3. Processes = {"run-manager"} \cup {"loop"}
      BY DEF Processes
    <2>4. IsFiniteSet(Processes)
      BY <2>2, <2>3
    <2> QED BY <2>4, FS_CardinalityType
  <1>3. IsFiniteSet(Processes \X Tickers) /\ Cardinality(Processes \X Tickers) = Most
    BY <1>1, <1>2, FS_Product DEF Most
  <1>4. Looks \subseteq Processes \X Tickers
    BY DEF Looks
  <1>5. IsFiniteSet(Looks) /\ Cardinality(Looks) <= Cardinality(Processes \X Tickers)
    BY <1>3, <1>4, FS_Subset
  <1>6. Most \in Nat
    BY <1>1, <1>2 DEF Most
  <1> QED BY <1>3, <1>5, <1>6, FS_CardinalityType DEF FewLooks

LEMMA LossesStep == Base /\ Counted /\ Losses /\ [Next]_vars => Losses'
  <1> SUFFICES ASSUME Base, Counted, Losses, [Next]_vars PROVE Losses'
    OBVIOUS
  <1>0. /\ IsFiniteSet(Looks) /\ Cardinality(Looks) \in Nat /\ Most \in Nat
        /\ streak \in Nat /\ MaxLosses \in Nat
        /\ IsFiniteSet(Looks') /\ Cardinality(Looks') \in Nat /\ Cardinality(Looks') <= Most
        /\ Most' = Most
    <2>1. IsFiniteSet(Looks') /\ Cardinality(Looks') \in Nat /\ Cardinality(Looks') <= Most'
      <3>1. FewLooks'
        BY LooksFacts, PTL
      <3> QED BY <3>1 DEF FewLooks
    <2>2. Most' = Most
      BY DEF Most, Processes
    <2> QED BY <2>1, <2>2, LooksFacts, Numbers DEF FewLooks, Base, TypeOK
  <1>1. streak' \in Nat
    BY BaseStep DEF Base, TypeOK
  <1>2. ASSUME NEW p \in Processes, Started(p) PROVE Losses'
    <2>1. CASE pass'[p].pc = "managing"
      <3>1. streak' = streak /\ streak < MaxLosses
        BY <1>2, <2>1 DEF Started
      <3> QED BY <1>0, <3>1 DEF Losses
    <2>2. CASE pass'[p].pc # "managing"
      <3>1. Looks' \subseteq Looks
        BY <1>2, <2>2 DEF Started, Looks, At
      <3>2. Cardinality(Looks') <= Cardinality(Looks)
        BY <1>0, <3>1, FS_Subset
      <3>3. streak' = streak
        BY <1>2 DEF Started
      <3> QED BY <1>0, <3>2, <3>3 DEF Losses
    <2> QED BY <2>1, <2>2
  <1>3. ASSUME NEW p \in Processes, NEW t \in Tickers, NEW position \in Position \cup {None},
               Looked(p, t, position)
        PROVE  Losses'
    <2> DEFINE x == <<p, t>>
    <2>1. x \in Looks
      BY <1>3 DEF Looked, Looks
    <2>2. Looks' \subseteq Looks \ {x}
      BY <1>3 DEF Looked, Looks, At
    <2>3. IsFiniteSet(Looks \ {x}) /\ Cardinality(Looks \ {x}) = Cardinality(Looks) - 1
      BY <1>0, <2>1, FS_RemoveElement
    <2>4. Cardinality(Looks') <= Cardinality(Looks \ {x})
      BY <2>2, <2>3, FS_Subset
    <2>5. streak' <= streak + 1
      BY <1>0, <1>3 DEF Looked
    <2> QED BY <1>0, <1>1, <2>3, <2>4, <2>5 DEF Losses
  <1>4. ASSUME Quiet PROVE Losses'
    <2>1. Looks' \subseteq Looks
      BY <1>4 DEF Quiet, Looks, At
    <2>2. Cardinality(Looks') <= Cardinality(Looks)
      BY <1>0, <2>1, FS_Subset
    <2>3. streak' <= streak
      BY <1>0, <1>4 DEF Quiet
    <2> QED BY <1>0, <1>1, <2>2, <2>3 DEF Losses
  <1> QED BY <1>2, <1>3, <1>4, StepKinds

LEMMA StopsKept == Base /\ Counted /\ [Next]_vars => StopsStep
  <1> SUFFICES ASSUME Base, Counted, [Next]_vars PROVE StopsStep
    OBVIOUS
  <1>1. ASSUME NEW p \in Processes, Started(p) PROVE StopsStep
    BY <1>1, KeepsSame DEF Started
  <1>2. ASSUME NEW p \in Processes, NEW t \in Tickers, NEW position \in Position \cup {None},
               Looked(p, t, position)
        PROVE  StopsStep
    <2>1. At(p, t) /\ pass[p].copy[t] \in Position
      BY <1>2, AtFacts DEF Looked
    <2>2. position # None => position.stop >= Widened(pass[p].copy[t]).stop
      BY <1>2 DEF Looked
    <2>3. /\ pass'[p].copy = [pass[p].copy EXCEPT ![t] = position]
          /\ \A q \in Processes \ {p} : pass'[q] = pass[q]
      BY <1>2 DEF Looked
    <2> QED BY <2>1, <2>2, <2>3, KeepsOne
  <1>3. ASSUME Quiet PROVE StopsStep
    BY <1>3, KeepsSame DEF Quiet
  <1> QED BY <1>1, <1>2, <1>3, StepKinds

\* With the kill switch on, a pass under way goes on with less to do, and no pass begins.
Closes(p) ==
    /\ pass'[p].pc \in {"trading", "managing"} =>
          pass'[p].pc = pass[p].pc /\ pass'[p].todo \subseteq pass[p].todo
    /\ Orders(p) => \E t \in pass[p].todo : t \notin pass'[p].todo

LEMMA ClosesOne ==
    ASSUME NEW p \in Processes, \A q \in Processes \ {p} : pass'[q] = pass[q],
           \/ pass'[p].pc \notin {"trading", "managing"}
           \/ pass'[p].pc = pass[p].pc /\ \E t \in pass[p].todo : pass'[p].todo = pass[p].todo \ {t}
    PROVE  \A q \in Processes : Closes(q)
  <1> SUFFICES ASSUME NEW q \in Processes PROVE Closes(q)
    OBVIOUS
  <1>1. CASE q # p
    BY <1>1 DEF Closes, Orders
  <1>2. CASE q = p
    BY <1>2 DEF Closes, Orders
  <1> QED BY <1>1, <1>2

\* Enter turns a pass away while the kill switch is on.
LEMMA HaltedEnter ==
    ASSUME Base, halted, NEW p \in Processes, NEW pct, NEW refused \in {"idle", "traded"},
           NEW todo, NEW dirty, Enter(p, pct, refused, todo, dirty)
    PROVE  pass'[p].pc = refused /\ \A q \in Processes \ {p} : pass'[q] = pass[q]
  <1>1. pass' = [pass EXCEPT ![p] = [Idle EXCEPT !.pc = refused]]
    BY DEF Enter, Trades
  <1>2. pass \in [Processes -> Pass]
    BY DEF Base, TypeOK
  <1> QED BY <1>1, <1>2, IdleAt

LEMMA HaltedStep == Base /\ [Next]_vars => (halted => \A p \in Processes : Closes(p))
  <1> SUFFICES ASSUME Base, [Next]_vars, halted PROVE \A p \in Processes : Closes(p)
    OBVIOUS
  <1>0. pass \in [Processes -> Pass] /\ "loop" \in Processes
    BY DEF Base, TypeOK, Processes
  <1>1. CASE StartTrading
    <2>1. PICK approved \in SUBSET Tickers \ {{}} : Enter("loop", "trading", "traded", approved, FALSE)
      BY <1>1 DEF StartTrading
    <2>2. pass'["loop"].pc = "traded" /\ \A q \in Processes \ {"loop"} : pass'[q] = pass[q]
      BY <1>0, <2>1, HaltedEnter
    <2> QED BY <1>0, <2>2, ClosesOne
  <1>2. CASE NothingApproved \/ EndTrading
    <2>1. pass'["loop"].pc = "traded" /\ \A q \in Processes \ {"loop"} : pass'[q] = pass[q]
      BY <1>0, <1>2, IdleAt DEF NothingApproved, EndTrading, Pass
    <2> QED BY <1>0, <2>1, ClosesOne
  <1>3. ASSUME NEW t \in Tickers, Buy(t) PROVE \A p \in Processes : Closes(p)
    <2>1. /\ \A q \in Processes \ {"loop"} : pass'[q] = pass[q]
          /\ pass'["loop"].pc = pass["loop"].pc /\ pass'["loop"].todo = pass["loop"].todo \ {t}
      BY <1>0, <1>3 DEF Buy, SaveCopy, Pass
    <2>2. t \in pass["loop"].todo
      BY <1>3 DEF Buy
    <2> QED BY <1>0, <2>1, <2>2, ClosesOne
  <1>4. ASSUME NEW t \in Tickers, Look(t) PROVE \A p \in Processes : Closes(p)
    <2>1. PICK p \in Processes, position \in Position \cup {None} : Looked(p, t, position)
      BY <1>4, LookStep
    <2> QED BY <2>1, ClosesOne DEF Looked, At
  <1>5. ASSUME NEW p \in Processes, NEW t \in Tickers, SkipTicker(p, t)
        PROVE  \A q \in Processes : Closes(q)
    <2>1. /\ \A q \in Processes \ {p} : pass'[q] = pass[q]
          /\ pass'[p].pc = pass[p].pc /\ pass'[p].todo = pass[p].todo \ {t} /\ t \in pass[p].todo
      BY <1>0, <1>5 DEF SkipTicker, At, Pass
    <2> QED BY <2>1, ClosesOne
  <1>6. ASSUME NEW p \in Processes, StartManaging(p) PROVE \A q \in Processes : Closes(q)
    <2>1. Enter(p, "managing", "idle", Held(saved), p = "loop")
      BY <1>6 DEF StartManaging
    <2>2. pass'[p].pc = "idle" /\ \A q \in Processes \ {p} : pass'[q] = pass[q]
      BY <2>1, HaltedEnter
    <2> QED BY <2>2, ClosesOne
  <1>7. ASSUME NEW p \in Processes, EndManaging(p) \/ CycleFails(p) \/ Restart(p)
        PROVE  \A q \in Processes : Closes(q)
    <2>1. \A q \in Processes \ {p} : pass'[q] = pass[q]
      BY <1>0, <1>7 DEF EndManaging, CycleFails, Restart
    <2>2. PICK r \in {"idle", "stopped"} : pass'[p] = Idle \/ pass'[p] = [Idle EXCEPT !.pc = r]
      BY <1>0, <1>7 DEF EndManaging, CycleFails, Restart
    <2>3. pass'[p].pc \in {"idle", "stopped"}
      BY <2>2 DEF Idle
    <2> QED BY <2>1, <2>3, ClosesOne
  <1>8. CASE HaltOrResume \/ Reset \/ PriceMoves \/ UNCHANGED vars
    <2>1. pass' = pass
      BY <1>8 DEF HaltOrResume, Reset, PriceMoves, vars
    <2> QED BY <2>1 DEF Closes, Orders
  <1> QED BY <1>1, <1>2, <1>3, <1>4, <1>5, <1>6, <1>7, <1>8 DEF Next

-----------------------------------------------------------------------------
(* Theorems                                                                *)

DeskInv == Base /\ Counted /\ Losses

(***************************************************************************)
(* The inductive invariant: the types, positions for the tickers a pass    *)
(* still looks at, one more failure for a process that runs, and room for  *)
(* the losses of the looks passes under way still have before them.        *)
(***************************************************************************)
THEOREM DeskInvariant == Spec => []DeskInv
  <1>1. Init => DeskInv
    <2> SUFFICES ASSUME Init PROVE Counted /\ Losses
      BY BaseInit DEF DeskInv
    <2>1. Counted
      BY Numbers DEF Init, Counted
    <2>2. streak = 0 /\ MaxLosses \in Nat /\ 0 < MaxLosses
      BY Numbers DEF Init
    <2> QED BY <2>1, <2>2, LooksFacts DEF FewLooks, Losses
  <1>2. DeskInv /\ [Next]_vars => DeskInv'
    BY BaseStep, CountedStep, LossesStep DEF DeskInv
  <1> QED BY <1>1, <1>2, PTL DEF Spec

(***************************************************************************)
(* Prices, positions, the copies of the passes and their counts keep their *)
(* types, whatever the loop, the command and the operator interleave.      *)
(***************************************************************************)
THEOREM DeskTypes == Spec => []TypeOK
  <1>1. DeskInv => TypeOK
    BY DEF DeskInv, Base
  <1> QED BY <1>1, DeskInvariant, PTL

(***************************************************************************)
(* The circuit breaker of check_circuit_breakers lets no more losses       *)
(* through than passes under way have tickers to look at.                  *)
(***************************************************************************)
THEOREM LossesStayBounded == Spec => []LossesBounded
  <1>1. DeskInv => LossesBounded
    <2> SUFFICES ASSUME DeskInv PROVE LossesBounded
      OBVIOUS
    <2>1. streak \in Nat /\ MaxLosses \in Nat
      BY Numbers DEF DeskInv, Base, TypeOK
    <2> QED BY <2>1, LooksFacts DEF FewLooks, DeskInv, Losses, LossesBounded, Most
  <1> QED BY <1>1, DeskInvariant, PTL

(***************************************************************************)
(* A pass of continuous_loop or of run-manager lowers the stop of a        *)
(* position only by the widening, never at the entry or over it.           *)
(***************************************************************************)
THEOREM StopsNeverLoosen == Spec => StopsHold
  <1>1. DeskInv /\ [Next]_vars => StopsStep
    BY StopsKept DEF DeskInv
  <1>2. DeskInv /\ [Next]_vars =>
          [\A p \in Processes, t \in Tickers :
            LET old == pass[p].copy[t]  new == pass'[p].copy[t] IN
            pass[p].pc = "managing" /\ old # None /\ new # None =>
              new.stop >= IF old.stop >= old.entry THEN old.stop ELSE Min({old.stop, MinStop(old)})]_vars
    BY <1>1 DEF StopsStep, Keeps
  <1> QED BY <1>2, DeskInvariant, PTL DEF Spec, StopsHold

(***************************************************************************)
(* What HaltStopsTheDesk rests on: from halt_trading to the next resume no *)
(* pass of the loop or of the command begins, and every order is of a pass *)
(* under way, for a ticker it has not looked at and does not again.        *)
(***************************************************************************)
THEOREM HaltedDeskWindsDown ==
    Spec => [][halted => \A p \in Processes :
                  /\ pass'[p].pc \in {"trading", "managing"} =>
                        pass'[p].pc = pass[p].pc /\ pass'[p].todo \subseteq pass[p].todo
                  /\ Orders(p) => \E t \in pass[p].todo : t \notin pass'[p].todo]_vars
  <1>1. DeskInv /\ [Next]_vars =>
          [halted => \A p \in Processes :
                  /\ pass'[p].pc \in {"trading", "managing"} =>
                        pass'[p].pc = pass[p].pc /\ pass'[p].todo \subseteq pass[p].todo
                  /\ Orders(p) => \E t \in pass[p].todo : t \notin pass'[p].todo]_vars
    BY HaltedStep DEF DeskInv, Closes
  <1> QED BY <1>1, DeskInvariant, PTL DEF Spec

-----------------------------------------------------------------------------
(* The backtest engine: exact averages                                     *)

LEMMA ExactQuotient ==
    ASSUME NEW n \in Nat, NEW d \in Nat \ {0}
    PROVE  /\ n \div d \in Nat
           /\ n % d = 0 => d * (n \div d) = n
  <1>1. n \div d \in Int /\ n % d \in Int
    OBVIOUS
  <1>2. PICK q, r \in Int : q = n \div d /\ r = n % d
    BY <1>1
  <1>3. n = (d * (n \div d)) + (n % d)
    OBVIOUS
  <1>4. 0 <= n % d /\ n % d < d
    OBVIOUS
  <1>5. n = d * q + r
    BY <1>2, <1>3
  <1>6. 0 <= r /\ r < d
    BY <1>2, <1>4
  <1>7. 0 <= q
    <2> SUFFICES ASSUME q <= -1 PROVE FALSE
      OBVIOUS
    <2>1. PICK p \in Nat : p = (-1) - q
      OBVIOUS
    <2>2. d * q = (-d) - (d * p)
      BY <2>1
    <2>3. PICK x \in Nat : x = d * p
      BY <2>1
    <2>4. PICK y \in Int : y = d * q
      OBVIOUS
    <2>5. n = y + r /\ y = (-d) - x
      BY <1>5, <2>2, <2>3, <2>4
    <2> QED BY <1>6, <2>3, <2>5
  <1>8. n % d = 0 => d * q = n
    <2> SUFFICES ASSUME n % d = 0 PROVE d * q = n
      OBVIOUS
    <2>1. r = 0
      BY <1>2
    <2>2. PICK y \in Int : y = d * q
      OBVIOUS
    <2> QED BY <1>5, <2>1, <2>2
  <1> QED BY <1>2, <1>7, <1>8

LEMMA QuotientOfMultiple ==
    ASSUME NEW n \in Nat, NEW d \in Nat \ {0}
    PROVE  (d * n) % d = 0 /\ (d * n) \div d = n
  <1>1. PICK m \in Nat : m = d * n
    OBVIOUS
  <1>2. m \div d \in Nat
    BY ExactQuotient
  <1>3. m = (d * (m \div d)) + (m % d) /\ 0 <= m % d /\ m % d < d /\ m % d \in Int
    OBVIOUS
  <1>4. PICK q \in Nat : q = m \div d
    BY <1>2
  <1>5. PICK r \in Int : r = m % d
    BY <1>3
  <1>6. d * n = d * q + r /\ 0 <= r /\ r < d
    BY <1>1, <1>3, <1>4, <1>5
  <1>7. q = n
    <2>1. ASSUME n <= q - 1 PROVE FALSE
      <3>1. PICK t \in Nat : q = n + 1 + t
        BY <2>1
      <3>2. d * q = d * n + d + d * t
        BY <3>1
      <3>3. PICK x, y, z \in Nat : x = d * q /\ y = d * n /\ z = d * t
        BY <3>1
      <3> QED BY <1>6, <3>2, <3>3
    <2>2. ASSUME q <= n - 1 PROVE FALSE
      <3>1. PICK t \in Nat : n = q + 1 + t
        BY <2>2
      <3>2. d * n = d * q + d + d * t
        BY <3>1
      <3>3. PICK x, y, z \in Nat : x = d * q /\ y = d * n /\ z = d * t
        BY <3>1
      <3> QED BY <1>6, <3>2, <3>3
    <2> QED BY <2>1, <2>2
  <1>8. r = 0
    <2>1. PICK y \in Nat : y = d * n
      OBVIOUS
    <2>2. y = y + r
      BY <1>6, <1>7, <2>1
    <2> QED BY <2>2
  <1> QED BY <1>1, <1>4, <1>5, <1>7, <1>8

\* An average that comes out even times the shares is what they cost.
LEMMA AverageFacts ==
    ASSUME NEW cost \in Nat, NEW held \in Nat, NEW rate \in Nat, NEW more \in Nat \ {0}
    PROVE  /\ Average(cost, held, rate, more) \in Nat
           /\ ~Uneven(cost, held, rate, more) =>
                  Average(cost, held, rate, more) * (held + more) = cost * held + rate * more
           /\ held = 0 => Average(cost, held, rate, more) = rate
  <1>1. PICK n \in Nat : n = cost * held + rate * more
    <2>1. cost * held \in Nat /\ rate * more \in Nat
      OBVIOUS
    <2> QED BY <2>1
  <1>2. PICK d \in Nat \ {0} : d = held + more
    OBVIOUS
  <1>3. PICK q \in Nat : q = n \div d
    BY ExactQuotient
  <1>4. Average(cost, held, rate, more) = q
    BY <1>1, <1>2, <1>3 DEF Average
  <1>5. ~Uneven(cost, held, rate, more) => q * d = n
    <2>1. ~Uneven(cost, held, rate, more) => n % d = 0
      BY <1>1, <1>2 DEF Uneven
    <2>2. n % d = 0 => d * q = n
      BY <1>3, ExactQuotient
    <2>3. d * q = q * d
      OBVIOUS
    <2> QED BY <2>1, <2>2, <2>3
  <1>6. held = 0 => q = rate
    <2> SUFFICES ASSUME held = 0 PROVE q = rate
      OBVIOUS
    <2>1. d = more /\ n = rate * more
      BY <1>1, <1>2
    <2>2. n = d * rate
      BY <2>1
    <2>3. (d * rate) \div d = rate
      BY QuotientOfMultiple
    <2> QED BY <1>3, <2>2, <2>3
  <1> QED BY <1>1, <1>2, <1>4, <1>5, <1>6

LEMMA AverageType ==
    \A cost, held, rate \in Nat : \A more \in Nat \ {0} : Average(cost, held, rate, more) \in Nat
  BY AverageFacts

LEMMA AverageFromFlat ==
    \A cost, rate \in Nat : \A more \in Nat \ {0} : Average(cost, 0, rate, more) = rate
  BY AverageFacts

LEMMA AverageEven ==
    \A cost, held, rate \in Nat : \A more \in Nat \ {0} :
        ~Uneven(cost, held, rate, more) =>
            Average(cost, held, rate, more) * (held + more) = cost * held + rate * more
  BY AverageFacts

LEMMA LeastOfTwo ==
    ASSUME NEW a \in Int, NEW b \in Int
    PROVE  Min({a, b}) = IF a <= b THEN a ELSE b
  <1>1. \E x \in {a, b} : \A y \in {a, b} : x <= y
    OBVIOUS
  <1>2. Min({a, b}) \in {a, b} /\ \A x \in {a, b} : Min({a, b}) <= x
    BY <1>1 DEF Min
  <1> QED BY <1>2

Net(p) == AtCost(p) - p.realised

\* A purchase is worth its cost, whether it adds, closes or reverses.
LEMMA LongAddFacts ==
    ASSUME NEW p \in Holding, NEW q \in Nat \ {0}, NEW rate \in Nat,
           p.qty > 0 => ~Uneven(p.long, p.qty, rate, q)
    PROVE  /\ ApplyLongAdd(p, q, rate) \in Holding
           /\ Net(ApplyLongAdd(p, q, rate)) = Net(p) + q * rate
  <1> PICK n : n = ApplyLongAdd(p, q, rate)
    OBVIOUS
  <1>1. p.qty \in Int /\ p.long \in Nat /\ p.short \in Nat /\ p.realised \in Int /\ p.mark \in Nat
    BY DEF Holding
  <1>2. PICK c \in Int : c = IF p.qty < 0 THEN Min({q, -p.qty}) ELSE 0
    BY <1>1, LeastOfTwo
  <1>3. n = [p EXCEPT !.qty = @ + q,
                      !.realised = @ + (p.short - rate) * c,
                      !.short = IF (p.qty + c) < 0 THEN @ ELSE 0,
                      !.long = IF (q - c) > 0 THEN Average(p.long, (p.qty + c), rate, (q - c)) ELSE @]
    BY Zenon, <1>2 DEF ApplyLongAdd
  <1>4. /\ n.qty = p.qty + q /\ n.mark = p.mark
        /\ n.realised = p.realised + (p.short - rate) * c
        /\ n.short = IF (p.qty + c) < 0 THEN p.short ELSE 0
        /\ n.long = IF (q - c) > 0 THEN Average(p.long, (p.qty + c), rate, (q - c)) ELSE p.long
        /\ n = [qty |-> n.qty, realised |-> n.realised, short |-> n.short, long |-> n.long, mark |-> n.mark]
    BY <1>3 DEF Holding
  <1>5. CASE p.qty >= 0
    <2>1. PICK held \in Nat : held = p.qty
      BY <1>1, <1>5
    <2>2. PICK a \in Nat : a = Average(p.long, held, rate, q)
      BY <1>1, AverageType
    <2>3. c = 0
      BY <1>1, <1>2, <1>5
    <2>4. n.long = a /\ n.realised = p.realised /\ n.short \in Nat
      <3>1. (p.short - rate) * 0 = 0 /\ p.qty + 0 = held /\ q - 0 = q /\ q > 0
        BY <1>1, <2>1
      <3> QED BY <1>1, <1>4, <2>2, <2>3, <3>1
    <2>5. n \in Holding
      BY <1>1, <1>4, <2>4 DEF Holding
    <2>6. a * (held + q) = p.long * held + rate * q
      <3>1. CASE held > 0
        <4>1. ~Uneven(p.long, held, rate, q)
          BY <1>1, <2>1, <3>1
        <4> QED BY <1>1, <2>2, <4>1, AverageEven
      <3>2. CASE held = 0
        <4>1. a = rate
          BY <1>1, <2>2, <3>2, AverageFromFlat
        <4> QED BY <1>1, <3>2, <4>1
      <3> QED BY <3>1, <3>2
    <2>7. PICK x, y, z \in Int : x = a * (held + q) /\ y = p.long * held /\ z = rate * q
      BY <1>1
    <2>8. AtCost(n) = x
      <3>1. x = (p.qty + q) * a
        BY <1>1, <2>1, <2>7
      <3> QED BY <1>1, <1>4, <1>5, <2>4, <3>1 DEF AtCost
    <2>9. AtCost(p) = y
      <3>1. y = p.qty * p.long
        BY <1>1, <2>1, <2>7
      <3>2. p.qty = 0 => p.qty * p.long = 0 /\ p.qty * p.short = 0
        BY <1>1
      <3> QED BY <1>1, <1>5, <3>1, <3>2 DEF AtCost
    <2>10. q * rate = z
      BY <2>7
    <2>11. Net(n) = Net(p) + q * rate
      BY <1>1, <2>4, <2>6, <2>7, <2>8, <2>9, <2>10 DEF Net
    <2> QED BY <2>5, <2>11
  <1>6. CASE p.qty < 0 /\ q <= -p.qty
    <2>1. c = q
      BY <1>1, <1>2, <1>6, LeastOfTwo
    <2>2. PICK g \in Int : g = (p.short - rate) * q
      BY <1>1
    <2>3. n.realised = p.realised + g /\ n.long = p.long
      BY <1>1, <1>4, <2>1, <2>2
    <2>4. n.short = IF (p.qty + q) < 0 THEN p.short ELSE 0
      BY <1>4, <2>1
    <2>5. n \in Holding
      BY <1>1, <1>4, <2>3, <2>4 DEF Holding
    <2>6. AtCost(n) = (p.qty + q) * p.short
      <3>1. (p.qty + q) < 0 => AtCost(n) = (p.qty + q) * p.short
        BY <1>1, <1>4, <2>4 DEF AtCost
      <3>2. (p.qty + q) = 0 => AtCost(n) = 0 /\ (p.qty + q) * p.short = 0
        BY <1>1, <1>4, <2>3, <2>4 DEF AtCost
      <3> QED BY <1>1, <1>6, <3>1, <3>2
    <2>7. AtCost(p) = p.qty * p.short
      BY <1>1, <1>6 DEF AtCost
    <2>8. PICK x, y, z \in Int : x = p.qty * p.short /\ y = q * p.short /\ z = q * rate
      BY <1>1
    <2>9. (p.qty + q) * p.short = x + y /\ g = y - z
      <3>1. (p.qty + q) * p.short = p.qty * p.short + q * p.short
        BY <1>1
      <3>2. (p.short - rate) * q = q * p.short - q * rate
        BY <1>1
      <3> QED BY <2>2, <2>8, <3>1, <3>2
    <2>10. Net(n) = (x + y) - (p.realised + (y - z)) /\ Net(p) = x - p.realised
      BY <2>3, <2>6, <2>7, <2>8, <2>9 DEF Net
    <2> QED BY <1>1, <2>5, <2>8, <2>10
  <1>7. CASE p.qty < 0 /\ q > -p.qty
    <2>1. c = -p.qty
      BY <1>1, <1>2, <1>7, LeastOfTwo
    <2>2. PICK g \in Int : g = (p.short - rate) * c
      BY <1>1, <2>1
    <2>3. PICK o \in Nat \ {0} : o = q - c
      BY <1>1, <1>7, <2>1
    <2>4. n.long = rate
      <3>1. (p.qty + c) = 0 /\ q - c > 0
        BY <1>1, <2>1, <2>3
      <3>2. Average(p.long, 0, rate, o) = rate
        BY <1>1, AverageFromFlat
      <3> QED BY <1>4, <2>3, <3>1, <3>2
    <2>5. n.short \in Nat /\ n.realised = p.realised + g
      BY <1>1, <1>4, <2>2
    <2>6. n \in Holding
      BY <1>1, <1>4, <2>4, <2>5 DEF Holding
    <2>7. AtCost(n) = (p.qty + q) * rate
      BY <1>1, <1>4, <1>7, <2>4 DEF AtCost
    <2>8. AtCost(p) = p.qty * p.short
      BY <1>1, <1>7 DEF AtCost
    <2>9. PICK x, y, z \in Int : x = p.qty * p.short /\ y = p.qty * rate /\ z = q * rate
      BY <1>1
    <2>10. (p.qty + q) * rate = y + z /\ g = y - x
      <3>1. (p.qty + q) * rate = p.qty * rate + q * rate
        BY <1>1
      <3>2. (p.short - rate) * (-p.qty) = p.qty * rate - p.qty * p.short
        BY <1>1
      <3> QED BY <2>1, <2>2, <2>9, <3>1, <3>2
    <2>11. Net(n) = (y + z) - (p.realised + (y - x)) /\ Net(p) = x - p.realised
      BY <2>5, <2>7, <2>8, <2>9, <2>10 DEF Net
    <2> QED BY <1>1, <2>6, <2>9, <2>11
  <1> QED BY <1>1, <1>5, <1>6, <1>7

\* And so is a sale.
LEMMA SellFacts ==
    ASSUME NEW p \in Holding, NEW q \in Nat \ {0}, NEW rate \in Nat,
           p.qty < 0 => ~Uneven(p.short, -p.qty, rate, q)
    PROVE  /\ ApplySell(p, q, rate) \in Holding
           /\ Net(ApplySell(p, q, rate)) = Net(p) - q * rate
  <1> PICK n : n = ApplySell(p, q, rate)
    OBVIOUS
  <1>1. p.qty \in Int /\ p.long \in Nat /\ p.short \in Nat /\ p.realised \in Int /\ p.mark \in Nat
    BY DEF Holding
  <1>2. PICK c \in Int : c = IF p.qty > 0 THEN Min({q, p.qty}) ELSE 0
    BY <1>1, LeastOfTwo
  <1>3. n = [p EXCEPT !.qty = @ - q,
                      !.realised = @ + (rate - p.long) * c,
                      !.long = IF (p.qty - c) > 0 THEN @ ELSE 0,
                      !.short = IF (q - c) > 0 THEN Average(p.short, (-(p.qty - c)), rate, (q - c)) ELSE @]
    BY Zenon, <1>2 DEF ApplySell
  <1>4. /\ n.qty = p.qty - q /\ n.mark = p.mark
        /\ n.realised = p.realised + (rate - p.long) * c
        /\ n.long = IF (p.qty - c) > 0 THEN p.long ELSE 0
        /\ n.short = IF (q - c) > 0 THEN Average(p.short, (-(p.qty - c)), rate, (q - c)) ELSE p.short
        /\ n = [qty |-> n.qty, realised |-> n.realised, short |-> n.short, long |-> n.long, mark |-> n.mark]
    BY <1>3 DEF Holding
  <1>5. CASE p.qty <= 0
    <2>1. PICK held \in Nat : held = -p.qty
      BY <1>1, <1>5
    <2>2. PICK a \in Nat : a = Average(p.short, held, rate, q)
      BY <1>1, AverageType
    <2>3. c = 0
      BY <1>1, <1>2, <1>5
    <2>4. n.short = a /\ n.realised = p.realised /\ n.long \in Nat
      <3>1. (rate - p.long) * 0 = 0 /\ -(p.qty - 0) = held /\ q - 0 = q /\ q > 0
        BY <1>1, <2>1
      <3> QED BY <1>1, <1>4, <2>2, <2>3, <3>1
    <2>5. n \in Holding
      BY <1>1, <1>4, <2>4 DEF Holding
    <2>6. a * (held + q) = p.short * held + rate * q
      <3>1. CASE held > 0
        <4>1. ~Uneven(p.short, held, rate, q)
          BY <1>1, <2>1, <3>1
        <4> QED BY <1>1, <2>2, <4>1, AverageEven
      <3>2. CASE held = 0
        <4>1. a = rate
          BY <1>1, <2>2, <3>2, AverageFromFlat
        <4> QED BY <1>1, <3>2, <4>1
      <3> QED BY <3>1, <3>2
    <2>7. PICK x, y, z \in Int : x = a * (held + q) /\ y = p.short * held /\ z = rate * q
      BY <1>1
    <2>8. AtCost(n) = -x
      <3>1. -x = (p.qty - q) * a
        BY <1>1, <2>1, <2>7
      <3> QED BY <1>1, <1>4, <1>5, <2>4, <3>1 DEF AtCost
    <2>9. AtCost(p) = -y
      <3>1. -y = p.qty * p.short
        <4>1. PICK k \in Int : k = p.qty * p.short
          BY <1>1
        <4>2. p.short * (-p.qty) = -(p.qty * p.short)
          BY <1>1
        <4>3. y = p.short * (-p.qty)
          BY <1>1, <2>1, <2>7
        <4> QED BY <4>1, <4>2, <4>3
      <3>2. p.qty = 0 => p.qty * p.long = 0 /\ p.qty * p.short = 0
        BY <1>1
      <3> QED BY <1>1, <1>5, <3>1, <3>2 DEF AtCost
    <2>10. q * rate = z
      BY <2>7
    <2>11. Net(n) = Net(p) - q * rate
      <3>1. Net(n) = (-x) - p.realised /\ Net(p) = (-y) - p.realised
        BY <2>4, <2>8, <2>9 DEF Net
      <3>2. x = y + z
        BY <2>6, <2>7
      <3> QED BY <1>1, <2>7, <2>10, <3>1, <3>2
    <2> QED BY <2>5, <2>11
  <1>6. CASE p.qty > 0 /\ q <= p.qty
    <2>1. c = q
      BY <1>1, <1>2, <1>6, LeastOfTwo
    <2>2. PICK g \in Int : g = (rate - p.long) * q
      BY <1>1
    <2>3. n.realised = p.realised + g /\ n.short = p.short
      BY <1>1, <1>4, <2>1, <2>2
    <2>4. n.long = IF (p.qty - q) > 0 THEN p.long ELSE 0
      BY <1>4, <2>1
    <2>5. n \in Holding
      BY <1>1, <1>4, <2>3, <2>4 DEF Holding
    <2>6. AtCost(n) = (p.qty - q) * p.long
      <3>1. (p.qty - q) > 0 => AtCost(n) = (p.qty - q) * p.long
        BY <1>1, <1>4, <2>4 DEF AtCost
      <3>2. (p.qty - q) = 0 => AtCost(n) = 0 /\ (p.qty - q) * p.long = 0
        BY <1>1, <1>4, <2>3, <2>4 DEF AtCost
      <3> QED BY <1>1, <1>6, <3>1, <3>2
    <2>7. AtCost(p) = p.qty * p.long
      BY <1>1, <1>6 DEF AtCost
    <2>8. PICK x, y, z \in Int : x = p.qty * p.long /\ y = q * p.long /\ z = q * rate
      BY <1>1
    <2>9. (p.qty - q) * p.long = x - y /\ g = z - y
      <3>1. (p.qty - q) * p.long = p.qty * p.long - q * p.long
        BY <1>1
      <3>2. (rate - p.long) * q = q * rate - q * p.long
        BY <1>1
      <3> QED BY <2>2, <2>8, <3>1, <3>2
    <2>10. Net(n) = (x - y) - (p.realised + (z - y)) /\ Net(p) = x - p.realised
      BY <2>3, <2>6, <2>7, <2>8, <2>9 DEF Net
    <2> QED BY <1>1, <2>5, <2>8, <2>10
  <1>7. CASE p.qty > 0 /\ q > p.qty
    <2>1. c = p.qty
      BY <1>1, <1>2, <1>7, LeastOfTwo
    <2>2. PICK g \in Int : g = (rate - p.long) * c
      BY <1>1, <2>1
    <2>3. PICK o \in Nat \ {0} : o = q - c
      BY <1>1, <1>7, <2>1
    <2>4. n.short = rate
      <3>1. (-(p.qty - c)) = 0 /\ q - c > 0
        BY <1>1, <2>1, <2>3
      <3>2. Average(p.short, 0, rate, o) = rate
        BY <1>1, AverageFromFlat
      <3> QED BY <1>4, <2>3, <3>1, <3>2
    <2>5. n.long \in Nat /\ n.realised = p.realised + g
      BY <1>1, <1>4, <2>2
    <2>6. n \in Holding
      BY <1>1, <1>4, <2>4, <2>5 DEF Holding
    <2>7. AtCost(n) = (p.qty - q) * rate
      BY <1>1, <1>4, <1>7, <2>4 DEF AtCost
    <2>8. AtCost(p) = p.qty * p.long
      BY <1>1, <1>7 DEF AtCost
    <2>9. PICK x, y, z \in Int : x = p.qty * p.long /\ y = p.qty * rate /\ z = q * rate
      BY <1>1
    <2>10. (p.qty - q) * rate = y - z /\ g = y - x
      <3>1. (p.qty - q) * rate = p.qty * rate - q * rate
        BY <1>1
      <3>2. (rate - p.long) * (p.qty) = p.qty * rate - p.qty * p.long
        BY <1>1
      <3> QED BY <2>1, <2>2, <2>9, <3>1, <3>2
    <2>11. Net(n) = (y - z) - (p.realised + (y - x)) /\ Net(p) = x - p.realised
      BY <2>5, <2>7, <2>8, <2>9, <2>10 DEF Net
    <2> QED BY <1>1, <2>6, <2>9, <2>11
  <1> QED BY <1>1, <1>5, <1>6, <1>7

-----------------------------------------------------------------------------
(* The backtest engine: parts of a rate level                             *)

LEMMA CutsFacts ==
    ASSUME NEW p \in Holding, NEW side \in {"BUY", "SELL"}, NEW q \in Nat \ {0}, NEW x \in Nat,
           NEW k, k = Cuts(p, side, q, x)
    PROVE  /\ k \in Nat \ {0}
           /\ side = "BUY" /\ p.qty > 0 => ~Uneven(k * p.long, p.qty, k * x, q)
           /\ side = "SELL" /\ p.qty < 0 => ~Uneven(k * p.short, -p.qty, k * x, q)
  <1>1. p.qty \in Int /\ p.long \in Nat /\ p.short \in Nat
    BY DEF Holding
  <1>2. Abs(p.qty) \in Nat /\ (p.qty > 0 => Abs(p.qty) = p.qty) /\ (p.qty < 0 => Abs(p.qty) = -p.qty)
    BY <1>1 DEF Abs
  <1>3. k \in {1, Abs(p.qty) + q}
    BY DEF Cuts
  <1>4. k \in Nat \ {0}
    BY <1>2, <1>3
  <1>5. ASSUME NEW c \in Nat, NEW h \in Nat, k = h + q \/ (k = 1 /\ ~Uneven(c, h, x, q))
        PROVE  ~Uneven(k * c, h, k * x, q)
    <2>1. CASE k = h + q
      <3>1. PICK n \in Nat : n = c * h + x * q
        <4>1. c * h \in Nat /\ x * q \in Nat
          OBVIOUS
        <4> QED BY <4>1
      <3>2. (k * c) * h + (k * x) * q = k * n
        <4>1. (k * c) * h = k * (c * h) /\ (k * x) * q = k * (x * q)
          BY <1>4
        <4>2. PICK u, v \in Nat : u = c * h /\ v = x * q
          OBVIOUS
        <4>3. k * (u + v) = k * u + k * v
          BY <1>4, <4>2
        <4> QED BY <3>1, <4>1, <4>2, <4>3
      <3>3. (k * n) % k = 0
        BY <1>4, <3>1, QuotientOfMultiple
      <3> QED BY <2>1, <3>2, <3>3 DEF Uneven
    <2>2. CASE k = 1 /\ ~Uneven(c, h, x, q)
      <3>1. 1 * c = c /\ 1 * x = x
        OBVIOUS
      <3> QED BY <2>2, <3>1
    <2> QED BY <1>5, <2>1, <2>2
  <1>6. ASSUME side = "BUY", p.qty > 0 PROVE ~Uneven(k * p.long, p.qty, k * x, q)
    <2>1. p.qty \in Nat /\ (k = p.qty + q \/ (k = 1 /\ ~Uneven(p.long, p.qty, x, q)))
      BY <1>1, <1>2, <1>6 DEF Cuts
    <2> QED BY <1>1, <1>5, <2>1
  <1>7. ASSUME side = "SELL", p.qty < 0 PROVE ~Uneven(k * p.short, -p.qty, k * x, q)
    <2>1. -p.qty \in Nat /\ (k = (-p.qty) + q \/ (k = 1 /\ ~Uneven(p.short, -p.qty, x, q)))
      BY <1>1, <1>2, <1>7 DEF Cuts
    <2> QED BY <1>1, <1>5, <2>1
  <1> QED BY <1>4, <1>6, <1>7

LEMMA HoldingInFacts ==
    ASSUME NEW p \in Holding, NEW k \in Nat \ {0}
    PROVE  /\ HoldingIn(k, p) \in Holding
           /\ HoldingIn(k, p).qty = p.qty
           /\ HoldingIn(k, p).long = k * p.long /\ HoldingIn(k, p).short = k * p.short
           /\ Net(HoldingIn(k, p)) = k * Net(p)
           /\ Net(p) \in Int
  <1>1. p.qty \in Int /\ p.long \in Nat /\ p.short \in Nat /\ p.realised \in Int
    BY DEF Holding
  <1>2. PICK l \in Nat, s \in Nat, r \in Int : l = k * p.long /\ s = k * p.short /\ r = k * p.realised
    BY <1>1
  <1>3. HoldingIn(k, p) = [p EXCEPT !.long = l, !.short = s, !.realised = r]
    BY Zenon, <1>2 DEF HoldingIn
  <1>4. /\ HoldingIn(k, p) \in Holding
        /\ HoldingIn(k, p).qty = p.qty /\ HoldingIn(k, p).long = l
        /\ HoldingIn(k, p).short = s /\ HoldingIn(k, p).realised = r
    BY <1>3 DEF Holding
  <1>5. ASSUME NEW c \in Nat PROVE p.qty * (k * c) = k * (p.qty * c)
    BY <1>1
  <1>6. PICK u, v \in Int : u = p.qty * p.long /\ v = p.qty * p.short
    BY <1>1
  <1>7. AtCost(p) = IF p.qty > 0 THEN u ELSE v
    BY <1>6 DEF AtCost
  <1>8. AtCost(HoldingIn(k, p)) = k * AtCost(p)
    <2>1. AtCost(HoldingIn(k, p)) = IF p.qty > 0 THEN p.qty * l ELSE p.qty * s
      BY <1>4 DEF AtCost
    <2>2. p.qty * l = k * u /\ p.qty * s = k * v
      BY <1>1, <1>2, <1>5, <1>6
    <2> QED BY <1>7, <2>1, <2>2
  <1>9. PICK w \in Int : w = AtCost(p)
    BY <1>6, <1>7
  <1>10. k * (w - p.realised) = k * w - k * p.realised
    BY <1>1, <1>9
  <1> QED BY <1>1, <1>2, <1>4, <1>8, <1>9, <1>10 DEF Net

LEMMA FilledFacts ==
    ASSUME NEW p \in Holding, NEW side \in {"BUY", "SELL"}, NEW q \in Nat \ {0}, NEW x \in Nat,
           NEW k \in Nat \ {0}, k = Cuts(p, side, q, x), NEW y \in Nat, y = k * x
    PROVE  /\ Filled(HoldingIn(k, p), side, q, y) \in Holding
           /\ Net(Filled(HoldingIn(k, p), side, q, y)) = Net(HoldingIn(k, p)) + Outflow(side, q, y)
           /\ Outflow(side, q, y) \in Int
  <1>1. /\ side = "BUY" /\ p.qty > 0 => ~Uneven(k * p.long, p.qty, k * x, q)
        /\ side = "SELL" /\ p.qty < 0 => ~Uneven(k * p.short, -p.qty, k * x, q)
    BY CutsFacts
  <1>2. PICK n : n = HoldingIn(k, p)
    OBVIOUS
  <1>3. /\ n \in Holding /\ n.qty = p.qty /\ n.long = k * p.long /\ n.short = k * p.short
        /\ Net(n) \in Int
    <2>1. n \in Holding /\ n.qty = p.qty /\ n.long = k * p.long /\ n.short = k * p.short
      BY <1>2, HoldingInFacts
    <2>2. 1 \in Nat \ {0}
      OBVIOUS
    <2> QED BY <2>1, <2>2, HoldingInFacts
  <1>4. PICK z \in Int : z = q * y
    OBVIOUS
  <1>5. PICK w \in Int : w = Net(n)
    BY <1>3
  <1>6. CASE side = "BUY"
    <2>1. n.qty > 0 => ~Uneven(n.long, n.qty, y, q)
      BY <1>1, <1>3, <1>6
    <2>2. ApplyLongAdd(n, q, y) \in Holding /\ Net(ApplyLongAdd(n, q, y)) = Net(n) + q * y
      BY <1>3, <2>1, LongAddFacts
    <2>3. Filled(n, side, q, y) = ApplyLongAdd(n, q, y) /\ Outflow(side, q, y) = z
      BY <1>4, <1>6 DEF Filled, Outflow
    <2> QED BY <1>2, <1>4, <1>5, <2>2, <2>3
  <1>7. CASE side = "SELL"
    <2>1. n.qty < 0 => ~Uneven(n.short, -n.qty, y, q)
      BY <1>1, <1>3, <1>7
    <2>2. ApplySell(n, q, y) \in Holding /\ Net(ApplySell(n, q, y)) = Net(n) - q * y
      BY <1>3, <2>1, SellFacts
    <2>3. Filled(n, side, q, y) = ApplySell(n, q, y) /\ Outflow(side, q, y) = -z
      BY <1>4, <1>7 DEF Filled, Outflow
    <2>4. Net(n) - q * y = Net(n) + (-z)
      BY <1>4, <1>5
    <2> QED BY <1>2, <1>4, <1>5, <2>2, <2>3, <2>4
  <1> QED BY <1>6, <1>7

-----------------------------------------------------------------------------
(* The backtest engine: what a fill and a mark do to the money             *)

Conserved(a, h) == a.cash + Total(Nets(h)) = InitialCash * a.parts + a.borrowed - a.fees

LEMMA EngineNumbers ==
    /\ InitialCash \in Nat /\ Fee \in Nat /\ BorrowRate \in Nat
    /\ Scale \in Nat /\ MaxNotional \in Nat /\ IsFiniteSet(Symbols)
    /\ Last \in [Symbols -> Nat] /\ Nothing \notin Int
    /\ Markets \subseteq [close : Nat, volume : Nat] /\ MaxRuns \in Nat
    /\ Lookback \in Nat \ {0}
    /\ \A i \in Instants : i \in Nat \ {0}
  <1>1. \A i \in Instants : i \in Nat \ {0}
    BY EngineAssumption DEF Instants
  <1> QED BY <1>1, EngineAssumption

LEMMA TotalFacts ==
    ASSUME NEW h \in [Symbols -> Holding]
    PROVE  /\ Total(Nets(h)) = Sum(Nets(h), Symbols)
           /\ \A s \in Symbols : Nets(h)[s] = Net(h[s]) /\ Nets(h)[s] \in Int
           /\ Total(Nets(h)) \in Int
  <1>1. Total(Nets(h)) = Sum(Nets(h), Symbols)
    BY DEF Total, Sum
  <1>2. \A s \in Symbols : Nets(h)[s] = Net(h[s]) /\ Nets(h)[s] \in Int
    <2> SUFFICES ASSUME NEW s \in Symbols PROVE Nets(h)[s] = Net(h[s]) /\ Nets(h)[s] \in Int
      OBVIOUS
    <2>1. Nets(h)[s] = Net(h[s])
      BY DEF Nets, Net
    <2>2. h[s] \in Holding /\ 1 \in Nat \ {0}
      OBVIOUS
    <2>3. Net(h[s]) \in Int
      BY <2>2, HoldingInFacts
    <2> QED BY <2>1, <2>3
  <1>3. Sum(Nets(h), Symbols) \in Int
    BY <1>2, EngineNumbers, SumInt
  <1> QED BY <1>1, <1>2, <1>3

LEMMA NetsInParts ==
    ASSUME NEW h \in [Symbols -> Holding], NEW g \in [Symbols -> Holding], NEW k \in Int,
           \A t \in Symbols : Net(g[t]) = k * Net(h[t])
    PROVE  Total(Nets(g)) = k * Total(Nets(h))
  <1>1. /\ Total(Nets(g)) = Sum(Nets(g), Symbols) /\ Total(Nets(h)) = Sum(Nets(h), Symbols)
        /\ Total(Nets(h)) \in Int
    BY TotalFacts
  <1>2. \A t \in Symbols : /\ Nets(h)[t] = Net(h[t]) /\ Nets(h)[t] \in Int
                           /\ Nets(g)[t] = Net(g[t]) /\ Nets(g)[t] \in Int
    BY TotalFacts
  <1>3. PICK zero : zero = [t \in Symbols |-> 0]
    OBVIOUS
  <1>4. \A t \in Symbols : zero[t] = 0
    BY <1>3
  <1>5. \A t \in Symbols : /\ Nets(h)[t] \in Int /\ zero[t] \in Int
                           /\ Nets(g)[t] = k * Nets(h)[t] + zero[t]
    <2> SUFFICES ASSUME NEW t \in Symbols
                 PROVE  /\ Nets(h)[t] \in Int /\ zero[t] \in Int
                        /\ Nets(g)[t] = k * Nets(h)[t] + zero[t]
      OBVIOUS
    <2>1. Nets(g)[t] = k * Nets(h)[t]
      BY <1>2
    <2> QED BY <1>2, <1>4, <2>1
  <1>6. IsFiniteSet(Symbols)
    BY EngineNumbers
  <1>7. PICK f, n : f = Nets(h) /\ n = Nets(g)
    OBVIOUS
  <1>8. Sum(n, Symbols) = k * Sum(f, Symbols) + Sum(zero, Symbols)
    <2>1. \A t \in Symbols : f[t] \in Int /\ zero[t] \in Int /\ n[t] = k * f[t] + zero[t]
      BY <1>5, <1>7
    <2> QED BY <1>6, <2>1, SumLinear
  <1>9. Sum(zero, Symbols) = 0
    BY <1>4, <1>6, SumZero
  <1>10. PICK m \in Int : m = k * Total(Nets(h))
    BY <1>1
  <1> QED BY <1>1, <1>7, <1>8, <1>9, <1>10

LEMMA OneNet ==
    ASSUME NEW g \in [Symbols -> Holding], NEW n \in [Symbols -> Holding], NEW s \in Symbols,
           \A t \in Symbols \ {s} : n[t] = g[t]
    PROVE  Total(Nets(n)) = (Total(Nets(g)) - Net(g[s])) + Net(n[s])
  <1>1. /\ Total(Nets(g)) = Sum(Nets(g), Symbols) /\ Total(Nets(n)) = Sum(Nets(n), Symbols)
    BY TotalFacts
  <1>2. \A t \in Symbols : /\ Nets(g)[t] = Net(g[t]) /\ Nets(g)[t] \in Int
                           /\ Nets(n)[t] = Net(n[t]) /\ Nets(n)[t] \in Int
    BY TotalFacts
  <1>3. \A t \in Symbols \ {s} : Nets(n)[t] = Nets(g)[t]
    BY <1>2
  <1>4. IsFiniteSet(Symbols)
    BY EngineNumbers
  <1>5. PICK f, m : f = Nets(g) /\ m = Nets(n)
    OBVIOUS
  <1>6. Sum(m, Symbols) = (Sum(f, Symbols) - f[s]) + m[s]
    <2>1. \A t \in Symbols : f[t] \in Int /\ m[t] \in Int
      BY <1>2, <1>5
    <2>2. \A t \in Symbols \ {s} : m[t] = f[t]
      BY <1>3, <1>5
    <2> QED BY <1>4, <2>1, <2>2, SumInstead
  <1> QED BY <1>1, <1>2, <1>5, <1>6

\* What a fill does to the account, whose parts may have become smaller.
LEMMA TotalsFacts ==
    ASSUME NEW a \in Account, NEW k \in Nat \ {0}, NEW b, b = AccountIn(k, a),
           NEW p \in Holding, NEW side, NEW q, NEW y, NEW out \in Int, out = Outflow(side, q, y),
           NEW at \in Instants, NEW c, c = Totals(b, p, side, q, y, at)
    PROVE  /\ b \in Account /\ b.parts = k * a.parts
           /\ c \in Account
           /\ \E fee \in Nat : /\ c.cash = (k * a.cash - out) - fee
                               /\ c.fees = k * a.fees + fee
                               /\ c.borrowed = k * a.borrowed
                               /\ c.parts = k * a.parts
  <1>1. /\ a.cash \in Int /\ a.realised \in Int /\ a.delta \in Int /\ a.fees \in Nat
        /\ a.borrowed \in Nat /\ a.parts \in Nat \ {0} /\ a.clock \in Instants \cup {Nothing}
    BY DEF Account
  <1>2. /\ k * a.cash \in Int /\ k * a.realised \in Int /\ k * a.delta \in Int
        /\ k * a.fees \in Nat /\ k * a.borrowed \in Nat /\ k * a.parts \in Nat \ {0}
    BY <1>1
  <1>3. PICK cash \in Int : cash = k * a.cash
    BY <1>2
  <1>4. PICK realised \in Int : realised = k * a.realised
    BY <1>2
  <1>5. PICK delta \in Int : delta = k * a.delta
    BY <1>2
  <1>6. PICK fees \in Nat : fees = k * a.fees
    BY <1>2
  <1>7. PICK borrowed \in Nat : borrowed = k * a.borrowed
    BY <1>2
  <1>8. PICK parts \in Nat \ {0} : parts = k * a.parts
    BY <1>2
  <1>9. b = [a EXCEPT !.cash = cash, !.realised = realised, !.delta = delta, !.fees = fees,
                      !.borrowed = borrowed, !.parts = parts]
    BY Zenon, <1>3, <1>4, <1>5, <1>6, <1>7, <1>8 DEF AccountIn
  <1>10. /\ b \in Account /\ b.cash = cash /\ b.fees = fees /\ b.borrowed = borrowed
         /\ b.parts = parts /\ b.realised = realised /\ b.delta = delta
    BY <1>1, <1>9 DEF Account
  <1>11. PICK fee \in Nat : fee = Fee * b.parts
    BY <1>10, EngineNumbers
  <1>12. PICK won \in Int : won = p.realised
    BY DEF Holding
  <1>13. c = [b EXCEPT !.cash = @ - out - fee, !.realised = @ + p.realised - b.delta,
                       !.delta = p.realised, !.clock = at, !.fees = @ + fee]
    BY Zenon, <1>11 DEF Totals
  <1>14. PICK gain \in Int, left \in Int, paid \in Nat :
             gain = b.realised + won - b.delta /\ left = b.cash - out - fee /\ paid = b.fees + fee
    BY <1>10
  <1>15. c = [b EXCEPT !.cash = left, !.realised = gain, !.delta = won, !.clock = at, !.fees = paid]
    BY Zenon, <1>12, <1>13, <1>14
  <1>16. /\ c \in Account /\ c.cash = left /\ c.fees = paid
         /\ c.borrowed = b.borrowed /\ c.parts = b.parts
    <2>1. at \in Instants \cup {Nothing}
      OBVIOUS
    <2> QED BY <1>10, <1>15, <2>1 DEF Account
  <1>17. c.cash = (cash - out) - fee /\ c.fees = fees + fee /\ c.borrowed = borrowed /\ c.parts = parts
    BY <1>10, <1>14, <1>16
  <1> QED BY Zenon, <1>3, <1>6, <1>7, <1>8, <1>10, <1>11, <1>16, <1>17

After(h, k, s, p) == [HoldingsIn(k, h) EXCEPT ![s] = p]

LEMMA FillConserves ==
    ASSUME NEW h \in [Symbols -> Holding], NEW a \in Account, Conserved(a, h),
           NEW s \in Symbols, NEW side \in {"BUY", "SELL"}, NEW q \in Nat \ {0},
           NEW x \in Nat, NEW k \in Nat \ {0}, k = Cuts(h[s], side, q, x),
           NEW y \in Nat, y = k * x, NEW at \in Instants,
           NEW p, p = Filled(HoldingIn(k, h[s]), side, q, y),
           NEW c, c = Totals(AccountIn(k, a), p, side, q, y, at),
           NEW n, n = After(h, k, s, p)
    PROVE  n \in [Symbols -> Holding] /\ c \in Account /\ Conserved(c, n)
  <1>1. PICK old \in Holding : old = h[s]
    OBVIOUS
  <1>2. k = Cuts(old, side, q, x) /\ p = Filled(HoldingIn(k, old), side, q, y)
    BY <1>1
  <1>3. /\ p \in Holding /\ Net(p) = Net(HoldingIn(k, old)) + Outflow(side, q, y)
        /\ Outflow(side, q, y) \in Int
    BY <1>2, FilledFacts
  <1>4. PICK out \in Int : out = Outflow(side, q, y)
    BY <1>3
  <1>5. PICK g : g = HoldingsIn(k, h)
    OBVIOUS
  <1>6. g \in [Symbols -> Holding] /\ \A t \in Symbols : g[t] = HoldingIn(k, h[t])
    <2>1. \A t \in Symbols : HoldingIn(k, h[t]) \in Holding
      BY HoldingInFacts
    <2> QED BY <1>5, <2>1 DEF HoldingsIn
  <1>7. \A t \in Symbols : Net(g[t]) = k * Net(h[t]) /\ Net(h[t]) \in Int /\ Net(g[t]) \in Int
    <2> SUFFICES ASSUME NEW t \in Symbols
                 PROVE  Net(g[t]) = k * Net(h[t]) /\ Net(h[t]) \in Int /\ Net(g[t]) \in Int
      OBVIOUS
    <2>1. PICK o \in Holding : o = h[t]
      OBVIOUS
    <2>2. Net(HoldingIn(k, o)) = k * Net(o) /\ Net(o) \in Int
      BY HoldingInFacts
    <2>3. k * Net(o) \in Int
      BY <2>2
    <2> QED BY Zenon, <1>6, <2>1, <2>2, <2>3
  <1>8. n \in [Symbols -> Holding] /\ n[s] = p /\ \A t \in Symbols \ {s} : n[t] = g[t]
    BY <1>3, <1>5, <1>6 DEF After
  <1>9. PICK nets \in Int : nets = Total(Nets(h))
    BY TotalFacts
  <1>10. PICK scaled \in Int : scaled = k * nets
    OBVIOUS
  <1>11. Total(Nets(n)) = scaled + out
    <2>1. Total(Nets(g)) = k * Total(Nets(h))
      <3>1. \A t \in Symbols : Net(g[t]) = k * Net(h[t])
        BY <1>7
      <3>2. k \in Int
        OBVIOUS
      <3> QED BY Zenon, <1>6, <3>1, <3>2, NetsInParts
    <2>2. Total(Nets(n)) = (Total(Nets(g)) - Net(g[s])) + Net(n[s])
      <3>1. PICK f \in [Symbols -> Holding], m \in [Symbols -> Holding] : f = g /\ m = n
        BY <1>6, <1>8
      <3>2. \A t \in Symbols \ {s} : m[t] = f[t]
        BY <1>8, <3>1
      <3>3. Total(Nets(m)) = (Total(Nets(f)) - Net(f[s])) + Net(m[s])
        BY <3>2, OneNet
      <3> QED BY <3>1, <3>3
    <2>3. Net(n[s]) = Net(g[s]) + out /\ Net(g[s]) \in Int
      BY Zenon, <1>1, <1>3, <1>4, <1>6, <1>7, <1>8
    <2>4. Total(Nets(g)) = scaled
      BY Zenon, <1>9, <1>10, <2>1
    <2> QED BY <2>2, <2>3, <2>4
  <1>12. /\ c \in Account
         /\ \E fee \in Nat : /\ c.cash = (k * a.cash - out) - fee
                             /\ c.fees = k * a.fees + fee
                             /\ c.borrowed = k * a.borrowed
                             /\ c.parts = k * a.parts
    <2>1. PICK b : b = AccountIn(k, a)
      OBVIOUS
    <2>2. c = Totals(b, p, side, q, y, at)
      BY <2>1
    <2> QED BY <1>3, <1>4, <2>1, <2>2, TotalsFacts
  <1>13. PICK fee \in Nat : /\ c.cash = (k * a.cash - out) - fee
                            /\ c.fees = k * a.fees + fee
                            /\ c.borrowed = k * a.borrowed
                            /\ c.parts = k * a.parts
    BY <1>12
  <1>14. Conserved(c, n)
    <2>1. a.cash \in Int /\ a.fees \in Nat /\ a.borrowed \in Nat /\ a.parts \in Nat
      BY DEF Account
    <2>2. PICK m \in Int : m = InitialCash * a.parts
      BY <2>1, EngineNumbers
    <2>3. PICK cash \in Int, borrowed \in Int, fees \in Int :
              cash = a.cash /\ borrowed = a.borrowed /\ fees = a.fees
      BY <2>1
    <2>4. cash + nets = m + borrowed - fees
      BY Zenon, <1>9, <2>2, <2>3 DEF Conserved
    <2>5. cash + nets = (m + borrowed) - fees
      BY <2>4
    <2>6. ((k * cash - out) - fee) + (k * nets + out) = k * m + k * borrowed - (k * fees + fee)
      <3>1. k * (cash + nets) = k * cash + k * nets
        OBVIOUS
      <3>2. k * ((m + borrowed) - fees) = (k * m + k * borrowed) - k * fees
        OBVIOUS
      <3>3. k * cash \in Int /\ k * nets \in Int /\ k * m \in Int /\ k * borrowed \in Int /\ k * fees \in Int
        OBVIOUS
      <3>4. PICK u \in Int : u = k * cash
        BY <3>3
      <3>5. PICK v \in Int : v = k * nets
        BY <3>3
      <3>6. PICK w \in Int : w = k * m
        BY <3>3
      <3>7. PICK i \in Int : i = k * borrowed
        BY <3>3
      <3>8. PICK j \in Int : j = k * fees
        BY <3>3
      <3>9. k * (cash + nets) = k * ((m + borrowed) - fees)
        BY Zenon, <2>5
      <3>10. u + v = k * (cash + nets) /\ (w + i) - j = k * ((m + borrowed) - fees)
        BY Zenon, <3>1, <3>2, <3>4, <3>5, <3>6, <3>7, <3>8
      <3>11. u + v = (w + i) - j
        BY Zenon, <3>9, <3>10
      <3>12. ((u - out) - fee) + (v + out) = w + i - (j + fee)
        BY <3>11
      <3> QED BY Zenon, <3>4, <3>5, <3>6, <3>7, <3>8, <3>12
    <2>7. InitialCash * (k * a.parts) = k * m
      <3>1. InitialCash * (k * a.parts) = k * (InitialCash * a.parts)
        BY <2>1, EngineNumbers
      <3> QED BY Zenon, <2>2, <3>1
    <2>8. /\ c.cash = (k * cash - out) - fee /\ Total(Nets(n)) = k * nets + out
          /\ InitialCash * c.parts = k * m /\ c.borrowed = k * borrowed /\ c.fees = k * fees + fee
      BY Zenon, <1>10, <1>11, <1>13, <2>3, <2>7
    <2> QED BY Zenon, <2>6, <2>8 DEF Conserved
  <1> QED BY <1>8, <1>12, <1>14

\* The borrow fees of a bar lower the realised P&L by what the account books as borrowed.
LEMMA MarkConserves ==
    ASSUME NEW h \in [Symbols -> Holding], NEW a \in Account, Conserved(a, h),
           NEW due, due \in [Symbols -> Nat], NEW n \in [Symbols -> Holding],
           \A s \in Symbols : /\ n[s].qty = h[s].qty /\ n[s].long = h[s].long /\ n[s].short = h[s].short
                              /\ n[s].realised = h[s].realised - due[s],
           NEW at \in Instants, NEW c,
           c = [a EXCEPT !.realised = @ - Total(due), !.borrowed = @ + Total(due), !.clock = at]
    PROVE  c \in Account /\ Conserved(c, n)
  <1>1. /\ a.cash \in Int /\ a.realised \in Int /\ a.delta \in Int /\ a.fees \in Nat
        /\ a.borrowed \in Nat /\ a.parts \in Nat \ {0} /\ a.clock \in Instants \cup {Nothing}
    BY DEF Account
  <1>2. PICK d \in Nat : d = Total(due)
    <2>1. Total(due) = Sum(due, Symbols)
      BY DEF Total, Sum
    <2>2. Sum(due, Symbols) \in Nat
      BY EngineNumbers, SumType
    <2> QED BY <2>1, <2>2
  <1>3. /\ c \in Account /\ c.cash = a.cash /\ c.fees = a.fees /\ c.parts = a.parts
        /\ c.borrowed = a.borrowed + d
    <2>1. c = [a EXCEPT !.realised = @ - d, !.borrowed = @ + d, !.clock = at]
      BY Zenon, <1>2
    <2>2. a.realised - d \in Int /\ a.borrowed + d \in Nat
      BY <1>1
    <2>3. at \in Instants \cup {Nothing}
      OBVIOUS
    <2> QED BY <1>1, <2>1, <2>2, <2>3 DEF Account
  <1>4. Total(Nets(n)) = Total(Nets(h)) + d
    <2>1. /\ Total(Nets(h)) = Sum(Nets(h), Symbols) /\ Total(Nets(n)) = Sum(Nets(n), Symbols)
          /\ Total(Nets(h)) \in Int
      BY TotalFacts
    <2>2. \A s \in Symbols : /\ Nets(h)[s] \in Int /\ Nets(h)[s] = Net(h[s])
                             /\ Nets(n)[s] \in Int /\ Nets(n)[s] = Net(n[s])
      BY TotalFacts
    <2>3. ASSUME NEW s \in Symbols PROVE Nets(n)[s] = 1 * Nets(h)[s] + due[s]
      <3>1. AtCost(n[s]) = AtCost(h[s])
        BY DEF AtCost
      <3>2. h[s].qty \in Int /\ h[s].long \in Nat /\ h[s].short \in Nat /\ h[s].realised \in Int
        BY DEF Holding
      <3>3. PICK u, v \in Int : u = h[s].qty * h[s].long /\ v = h[s].qty * h[s].short
        BY <3>2
      <3>4. AtCost(h[s]) \in Int
        BY <3>3 DEF AtCost
      <3>5. Net(n[s]) = AtCost(h[s]) - (h[s].realised - due[s]) /\ Net(h[s]) = AtCost(h[s]) - h[s].realised
        BY <3>1 DEF Net
      <3>6. due[s] \in Nat
        OBVIOUS
      <3>7. Net(n[s]) = Net(h[s]) + due[s]
        BY <3>2, <3>4, <3>5, <3>6
      <3> QED BY <2>2, <3>7
    <2>4. Sum(Nets(n), Symbols) = 1 * Sum(Nets(h), Symbols) + Sum(due, Symbols)
      <3>1. \A s \in Symbols : /\ Nets(h)[s] \in Int /\ due[s] \in Int
                               /\ Nets(n)[s] = 1 * Nets(h)[s] + due[s]
        BY <2>2, <2>3
      <3>2. 1 \in Int
        OBVIOUS
      <3> QED BY <3>1, <3>2, EngineNumbers, SumLinear
    <2>5. Total(due) = Sum(due, Symbols)
      BY DEF Total, Sum
    <2> QED BY <1>2, <2>1, <2>4, <2>5
  <1>5. Conserved(c, n)
    <2>1. PICK t \in Int : t = Total(Nets(h))
      BY TotalFacts
    <2>2. PICK m \in Int : m = InitialCash * a.parts
      BY <1>1, EngineNumbers
    <2>3. PICK cash \in Int, borrowed \in Nat, fees \in Nat :
              cash = a.cash /\ borrowed = a.borrowed /\ fees = a.fees
      BY <1>1
    <2>4. cash + t = (m + borrowed) - fees
      BY <2>1, <2>2, <2>3 DEF Conserved
    <2>5. cash + (t + d) = (m + (borrowed + d)) - fees
      BY <2>4
    <2>6. /\ c.cash = cash /\ Total(Nets(n)) = t + d /\ InitialCash * c.parts = m
          /\ c.borrowed = borrowed + d /\ c.fees = fees
      BY <1>3, <1>4, <2>1, <2>2, <2>3
    <2> QED BY <2>5, <2>6 DEF Conserved
  <1> QED BY <1>3, <1>5
-----------------------------------------------------------------------------
(* The backtest engine: the invariant                                      *)

\* Nothing queued is older than what was consumed last; a bar at hand is of that time.
InOrder ==
    /\ pc = "stream" => consumed = Nothing
    /\ consumed # Nothing => \A e \in queue : e.at >= consumed
    /\ pc = "signals" => bar \in Bar /\ bar.at = consumed

Drained == pc = "done" => stopping \/ queue = {}

EngineInv == EngineTypeOK /\ InOrder /\ Drained /\ Conserved(account, book)

LEMMA EngineStarts == EngineInit => EngineInv
  <1> SUFFICES ASSUME EngineInit PROVE EngineInv
    OBVIOUS
  <1>1. InitialCash \in Nat /\ MaxRuns \in Nat /\ Lookback \in Nat /\ Last \in [Symbols -> Nat]
    BY EngineNumbers
  <1>2. book \in [Symbols -> Holding]
    BY DEF EngineInit, Holding, Flat
  <1>3. account \in Account /\ account.cash = InitialCash /\ account.parts = 1
        /\ account.borrowed = 0 /\ account.fees = 0
    BY <1>1 DEF EngineInit, Account, NewAccount
  <1>4. EngineTypeOK
    <2>1. view \in [Strategies -> [Symbols -> Sides \cup {"FLAT"}]]
      BY DEF EngineInit, NoViews
    <2>2. next \in [Symbols -> Nat \ {0}] /\ \A s \in Symbols : next[s] <= Last[s] + 1
      BY <1>1 DEF EngineInit
    <2>3. window \in [Symbols -> 0..Lookback]
      BY <1>1 DEF EngineInit
    <2>4. /\ pc \in {"idle", "stream", "loop", "signals", "mark", "done", "raised"}
          /\ runs \in 0..MaxRuns /\ queue \subseteq Entry /\ consumed \in Instants \cup {Nothing}
          /\ stopping \in BOOLEAN /\ bar \in Bar \cup {Nothing} /\ signals \subseteq Signal
          /\ rejected \in Nat /\ known \subseteq OrderIds
      <3>1. runs = 0 /\ 0 \in 0..MaxRuns
        BY <1>1 DEF EngineInit
      <3> QED BY <3>1 DEF EngineInit
    <2> QED BY <1>2, <1>3, <2>1, <2>2, <2>3, <2>4 DEF EngineTypeOK
  <1>5. Conserved(account, book)
    <2>1. \A s \in Symbols : Nets(book)[s] = 0
      BY DEF EngineInit, Nets, AtCost, Flat
    <2>2. Total(Nets(book)) = 0
      <3>1. Sum(Nets(book), Symbols) = 0
        BY <2>1, EngineNumbers, SumZero
      <3> QED BY <1>2, <3>1, TotalFacts
    <2> QED BY <1>1, <1>3, <2>2 DEF Conserved
  <1>6. InOrder /\ Drained
    BY DEF EngineInit, InOrder, Drained
  <1> QED BY <1>4, <1>5, <1>6 DEF EngineInv

LEMMA OnFillKeeps ==
    ASSUME EngineTypeOK, Conserved(account, book), bar \in Bar,
           NEW side \in {"BUY", "SELL"}, NEW q \in Nat \ {0}, OnFill(side, q)
    PROVE  /\ book' \in [Symbols -> Holding] /\ account' \in Account /\ rejected' \in Nat
           /\ Conserved(account', book')
  <1>1. book \in [Symbols -> Holding] /\ account \in Account /\ rejected \in Nat
        /\ bar.symbol \in Symbols /\ bar.close \in Nat /\ bar.at \in Instants
    BY DEF EngineTypeOK, Bar
  <1>2. CASE rejected' = rejected + 1 /\ UNCHANGED <<book, account>>
    BY <1>1, <1>2
  <1>3. CASE ~(rejected' = rejected + 1 /\ UNCHANGED <<book, account>>)
    <2>1. PICK s \in Symbols, close \in Nat, at \in Instants :
              s = bar.symbol /\ close = bar.close /\ at = bar.at
      BY <1>1
    <2>2. PICK x \in Nat : x = account.parts * close
      BY <1>1 DEF Account
    <2>3. PICK k \in Nat \ {0} : k = Cuts(book[s], side, q, x)
      BY <1>1, CutsFacts
    <2>4. k \in Nat \ {0}
      OBVIOUS
    <2>5. PICK y \in Nat : y = k * x
      BY <2>4
    <2>6. PICK p : p = Filled(HoldingIn(k, book[s]), side, q, y)
      OBVIOUS
    <2>7. PICK c : c = Totals(AccountIn(k, account), p, side, q, y, at)
      OBVIOUS
    <2>8. PICK n : n = After(book, k, s, p)
      OBVIOUS
    <2>9. n \in [Symbols -> Holding] /\ c \in Account /\ Conserved(c, n)
      BY <1>1, <2>3, <2>4, <2>5, <2>6, <2>7, <2>8, FillConserves
    <2>10. AccountIn(k, account).parts * close = y
      <3>1. AccountIn(k, account).parts = k * account.parts
        BY <1>1 DEF AccountIn, Account
      <3>2. (k * account.parts) * close = k * (account.parts * close)
        BY <1>1, <2>4 DEF Account
      <3> QED BY Zenon, <2>2, <2>5, <3>1, <3>2
    <2>11. HoldingsIn(k, book)[s] = HoldingIn(k, book[s])
      BY DEF HoldingsIn
    <2>12. book' = n /\ account' = c /\ rejected' = rejected
      BY Zenon, <1>3, <2>1, <2>2, <2>3, <2>6, <2>7, <2>8, <2>10, <2>11 DEF OnFill, After
    <2> QED BY <1>1, <2>9, <2>12
  <1> QED BY <1>2, <1>3

LEMMA RunKeeps == EngineInv /\ Run => EngineInv'
  <1> SUFFICES ASSUME EngineInv, Run PROVE EngineInv'
    OBVIOUS
  <1> USE DEF Run, portfolio
  <1>1. EngineTypeOK /\ Conserved(account, book)
    BY DEF EngineInv
  <1>2. EngineTypeOK'
    <2>1. Last \in [Symbols -> Nat] /\ Lookback \in Nat \ {0} /\ MaxRuns \in Nat
      BY EngineNumbers
    <2>2. view' \in [Strategies -> [Symbols -> Sides \cup {"FLAT"}]]
      BY DEF NoViews
    <2>3. next' \in [Symbols -> Nat \ {0}] /\ \A s \in Symbols : next'[s] <= Last[s] + 1
      BY <2>1
    <2>4. window' \in [Symbols -> 0..Lookback]
      BY <2>1
    <2>5. runs' \in 0..MaxRuns
      BY <1>1, <2>1 DEF EngineTypeOK
    <2>6. queue' \subseteq Entry /\ signals' \subseteq Signal /\ stopping' \in BOOLEAN
          /\ bar' \in Bar \cup {Nothing} /\ consumed' \in Instants \cup {Nothing}
          /\ pc' \in {"idle", "stream", "loop", "signals", "mark", "done", "raised"}
      OBVIOUS
    <2>7. book' \in [Symbols -> Holding] /\ account' \in Account /\ rejected' \in Nat
      BY <1>1 DEF EngineTypeOK
    <2> QED BY <2>2, <2>3, <2>4, <2>5, <2>6, <2>7 DEF EngineTypeOK
  <1>3. InOrder' /\ Drained'
    BY DEF InOrder, Drained
  <1>4. Conserved(account', book')
    BY <1>1
  <1> QED BY <1>2, <1>3, <1>4 DEF EngineInv

LEMMA StreamKeeps == EngineInv /\ (Stream \/ EndStream) => EngineInv'
  <1> SUFFICES ASSUME EngineInv, Stream \/ EndStream PROVE EngineInv'
    OBVIOUS
  <1>1. EngineTypeOK /\ InOrder /\ Drained /\ Conserved(account, book)
    BY DEF EngineInv
  <1>2. CASE Stream
    <2> USE <1>2 DEF Stream, portfolio
    <2>1. PICK s \in Symbols : next[s] <= Last[s] /\
              IF stopping THEN pc' = "raised" /\ UNCHANGED <<next, queue>>
              ELSE /\ queue' = queue \cup {[kind |-> "MARKET", at |-> next[s], symbol |-> s]}
                   /\ next' = [next EXCEPT ![s] = @ + 1]
                   /\ UNCHANGED pc
      OBVIOUS
    <2>2. next[s] \in Nat \ {0} /\ Last[s] \in Nat
      BY <1>1, EngineNumbers DEF EngineTypeOK
    <2>3. next[s] \in Instants
      <3>1. next[s] \in 1..Last[s]
        BY <2>1, <2>2
      <3> QED BY <3>1 DEF Instants
    <2>4. queue' \subseteq Entry
      BY <1>1, <2>1, <2>3 DEF EngineTypeOK, Entry
    <2>5. next' \in [Symbols -> Nat \ {0}] /\ \A t \in Symbols : next'[t] <= Last[t] + 1
      <3>1. Last \in [Symbols -> Nat]
        BY EngineNumbers
      <3> QED BY <1>1, <2>1, <2>2, <3>1 DEF EngineTypeOK
    <2>6. pc' \in {"stream", "raised"}
      BY <2>1
    <2>7. EngineTypeOK'
      BY <1>1, <2>4, <2>5, <2>6 DEF EngineTypeOK
    <2>8. InOrder' /\ Drained'
      BY <1>1, <2>6 DEF InOrder, Drained
    <2>9. Conserved(account', book')
      BY <1>1
    <2> QED BY <2>7, <2>8, <2>9 DEF EngineInv
  <1>3. CASE EndStream
    <2> USE <1>3 DEF EndStream, portfolio
    <2>1. EngineTypeOK'
      BY <1>1 DEF EngineTypeOK
    <2>2. InOrder' /\ Drained'
      BY <1>1 DEF InOrder, Drained
    <2>3. Conserved(account', book')
      BY <1>1
    <2> QED BY <2>1, <2>2, <2>3 DEF EngineInv
  <1> QED BY <1>2, <1>3

\* The first entry is the oldest: what it leaves is not older, and none is ever late.
LEMMA ConsumeKeeps == EngineInv /\ Consume => EngineInv'
  <1> SUFFICES ASSUME EngineInv, Consume PROVE EngineInv'
    OBVIOUS
  <1>1. EngineTypeOK /\ InOrder /\ Drained /\ Conserved(account, book) /\ pc = "loop" /\ ~stopping
        /\ UNCHANGED <<runs, next, known, stopping, book, account, rejected>>
    BY DEF EngineInv, Consume, portfolio
  <1>2. PICK e \in queue :
           /\ First(e)
           /\ queue' = queue \ {e}
           /\ IF consumed # Nothing /\ e.at < consumed
              THEN pc' = "done" /\ UNCHANGED <<consumed, bar, signals, window, view>>
              ELSE /\ consumed' = e.at
                   /\ \/ \E market \in Markets : ConsumeBar(e, market)
                      \/ e.kind = "ORDER" /\ UNCHANGED <<pc, bar, signals, window, view>>
    BY DEF Consume
  <1>3. e \in Entry /\ e.at \in Instants /\ \A o \in queue : o.at \in Instants
    BY <1>1 DEF EngineTypeOK, Entry
  <1>4. \A i \in Instants : i \in Nat
    BY EngineNumbers
  <1>5. ~(consumed # Nothing /\ e.at < consumed)
    <2>1. consumed # Nothing => consumed \in Instants /\ e.at >= consumed
      BY <1>1, <1>2 DEF InOrder, EngineTypeOK
    <2> QED BY <1>3, <1>4, <2>1
  <1>6. consumed' = e.at /\ queue' \subseteq queue
    BY <1>2, <1>5
  <1>7. \A o \in queue' : o.at >= e.at
    <2> SUFFICES ASSUME NEW o \in queue' PROVE o.at >= e.at
      OBVIOUS
    <2>1. o \in queue /\ o.at \in Nat /\ e.at \in Nat
      BY <1>3, <1>4, <1>6
    <2>2. e.at < o.at \/ e.at = o.at
      BY <1>2, <2>1 DEF First
    <2> QED BY <2>1, <2>2
  <1>8. CASE e.kind = "ORDER" /\ UNCHANGED <<pc, bar, signals, window, view>>
    <2>1. EngineTypeOK'
      BY <1>1, <1>3, <1>6, <1>8 DEF EngineTypeOK
    <2>2. InOrder' /\ Drained'
      BY <1>1, <1>6, <1>7, <1>8 DEF InOrder, Drained
    <2> QED BY <1>1, <2>1, <2>2 DEF EngineInv
  <1>9. ASSUME NEW market \in Markets, ConsumeBar(e, market)
        PROVE  EngineInv'
    <2>1. market.close \in Nat /\ market.volume \in Nat
      BY EngineNumbers
    <2>2. e.kind = "MARKET" /\ pc' = "signals"
          /\ bar' = [at |-> e.at, symbol |-> e.symbol, close |-> market.close, volume |-> market.volume]
      BY <1>9 DEF ConsumeBar
    <2>3. e.symbol \in Symbols
      BY <1>3, <2>2 DEF Entry
    <2>4. bar' \in Bar /\ bar'.at = e.at
      BY <1>3, <2>1, <2>2, <2>3 DEF Bar
    <2>5. window' \in [Symbols -> 0..Lookback]
      <3>1. window' = [window EXCEPT ![e.symbol] = IF window[e.symbol] + 1 >= Lookback THEN Lookback
                                                   ELSE window[e.symbol] + 1]
        BY <1>9 DEF ConsumeBar
      <3>2. window \in [Symbols -> 0..Lookback] /\ Lookback \in Nat \ {0}
        BY <1>1, EngineNumbers DEF EngineTypeOK
      <3> QED BY <2>3, <3>1, <3>2
    <2>6. PICK opinion \in [Strategies -> Sides \cup {"FLAT"}] :
             /\ view' = [g \in Strategies |-> [view[g] EXCEPT ![e.symbol] = opinion[g]]]
             /\ signals' = {[strategy |-> g, type |-> IF opinion[g] = "FLAT" THEN "EXIT" ELSE opinion[g]] :
                               g \in {h \in Strategies : opinion[h] # view[h][e.symbol]}}
      BY <1>9 DEF ConsumeBar
    <2>7. view' \in [Strategies -> [Symbols -> Sides \cup {"FLAT"}]]
      <3>1. view \in [Strategies -> [Symbols -> Sides \cup {"FLAT"}]]
        BY <1>1 DEF EngineTypeOK
      <3> QED BY <2>3, <2>6, <3>1
    <2>8. signals' \subseteq Signal
      BY <2>6 DEF Signal, Sides
    <2>9. EngineTypeOK'
      <3>1. queue' \subseteq Entry /\ consumed' \in Instants \cup {Nothing} /\ bar' \in Bar \cup {Nothing}
            /\ pc' \in {"idle", "stream", "loop", "signals", "mark", "done", "raised"}
        BY <1>1, <1>3, <1>6, <2>2, <2>4 DEF EngineTypeOK
      <3> QED BY <1>1, <2>5, <2>7, <2>8, <3>1 DEF EngineTypeOK
    <2>10. InOrder' /\ Drained'
      BY <1>6, <1>7, <2>2, <2>4 DEF InOrder, Drained
    <2> QED BY <1>1, <2>9, <2>10 DEF EngineInv
  <1> QED BY <1>2, <1>5, <1>8, <1>9

LEMMA SignalKeeps ==
    ASSUME EngineInv, NEW signal \in signals, HandleSignal(signal)
    PROVE  EngineInv'
  <1>1. EngineTypeOK /\ InOrder /\ Drained /\ Conserved(account, book) /\ pc = "signals"
        /\ UNCHANGED <<runs, next, consumed, stopping, bar, window, view>>
        /\ signals' = signals \ {signal}
    BY DEF EngineInv, HandleSignal
  <1>2. bar \in Bar /\ bar.at = consumed /\ bar.at \in Instants /\ bar.symbol \in Symbols
        /\ bar.volume \in Nat
    BY <1>1 DEF InOrder, Bar
  <1>3. PICK n \in Int : n = Ordered(signal)
    <2>1. book[bar.symbol].qty \in Int
      BY <1>1, <1>2 DEF EngineTypeOK, Holding
    <2>2. Target(signal) \in Int
      BY EngineNumbers DEF Target
    <2> QED BY <2>1, <2>2 DEF Ordered
  <1>4. PICK side \in {"BUY", "SELL"} : side = IF n > 0 THEN "BUY" ELSE "SELL"
    OBVIOUS
  <1>5. IF n = 0 \/ ~Affordable(signal)
        THEN UNCHANGED <<pc, queue, known, book, account, rejected>>
        ELSE IF stopping \/ OrderId(signal) \in known
        THEN pc' = "raised" /\ UNCHANGED <<queue, known, book, account, rejected>>
        ELSE /\ known' = known \cup {OrderId(signal)}
             /\ queue' = queue \cup {Queued(bar.at)}
             /\ IF bar.volume = 0 THEN UNCHANGED <<book, account, rejected>>
                ELSE OnFill(side, Min({Abs(n), bar.volume}))
             /\ UNCHANGED pc
    BY Zenon, <1>3, <1>4 DEF HandleSignal, portfolio
  <1>6. /\ book' \in [Symbols -> Holding] /\ account' \in Account /\ rejected' \in Nat
        /\ Conserved(account', book')
    <2>1. CASE UNCHANGED <<book, account, rejected>>
      <3>1. book \in [Symbols -> Holding] /\ account \in Account /\ rejected \in Nat
        BY <1>1 DEF EngineTypeOK
      <3> QED BY <1>1, <2>1, <3>1
    <2>2. CASE n # 0 /\ bar.volume # 0 /\ OnFill(side, Min({Abs(n), bar.volume}))
      <3>1. Abs(n) \in Nat \ {0}
        BY <2>2 DEF Abs
      <3>2. PICK q \in Nat \ {0} : q = Min({Abs(n), bar.volume})
        BY <1>2, <2>2, <3>1, LeastOfTwo
      <3>3. OnFill(side, q)
        BY <2>2, <3>2
      <3> QED BY <1>1, <1>2, <3>3, OnFillKeeps
    <2> QED BY <1>5, <2>1, <2>2
  <1>7. pc' \in {"signals", "raised"}
    BY <1>1, <1>5
  <1>8. queue' \subseteq queue \cup {[kind |-> "ORDER", at |-> bar.at]}
    BY <1>5 DEF Queued
  <1>9. EngineTypeOK'
    <2>1. [kind |-> "ORDER", at |-> bar.at] \in Entry
      BY <1>2 DEF Entry
    <2>2. queue' \subseteq Entry
      BY <1>1, <1>8, <2>1 DEF EngineTypeOK
    <2>3. OrderId(signal) \in OrderIds
      <3>1. Abs(n) \in Nat
        BY DEF Abs
      <3>2. OrderId(signal) = <<IF signal.type = "EXIT" THEN "X" ELSE "O", bar.symbol, bar.at, Abs(n)>>
        BY Zenon, <1>3 DEF OrderId
      <3> QED BY <1>2, <3>1, <3>2 DEF OrderIds
    <2>4. known' \subseteq OrderIds
      <3>1. known \subseteq OrderIds /\ known' \in {known, known \cup {OrderId(signal)}}
        BY <1>1, <1>5 DEF EngineTypeOK
      <3> QED BY <2>3, <3>1
    <2> QED BY <1>1, <1>6, <1>7, <2>2, <2>4 DEF EngineTypeOK
  <1>10. InOrder'
    <2>1. \A e \in queue' : e.at >= consumed
      <3> SUFFICES ASSUME NEW e \in queue' PROVE e.at >= consumed
        OBVIOUS
      <3>1. consumed \in Nat
        BY <1>2, EngineNumbers
      <3>2. CASE e \in queue
        BY <1>1, <3>1, <3>2, EngineNumbers DEF InOrder
      <3>3. CASE e = [kind |-> "ORDER", at |-> bar.at]
        BY <1>2, <3>1, <3>3
      <3> QED BY <1>8, <3>2, <3>3
    <2> QED BY <1>1, <1>2, <1>7, <2>1 DEF InOrder
  <1>11. Drained'
    BY <1>7 DEF Drained
  <1> QED BY <1>6, <1>9, <1>10, <1>11 DEF EngineInv

Remarking(p, d, mark) == [p EXCEPT !.realised = @ - d, !.mark = mark]

LEMMA Remarked ==
  ASSUME NEW p \in Holding, NEW d \in Nat, NEW mark \in Nat, NEW q,
         q = Remarking(p, d, mark)
  PROVE  /\ q \in Holding /\ q.qty = p.qty /\ q.long = p.long /\ q.short = p.short
         /\ q.realised = p.realised - d
  <1>1. PICK r \in Int : r = p.realised - d
    BY DEF Holding
  <1>2. q = [p EXCEPT !.realised = r, !.mark = mark]
    BY Zenon, <1>1 DEF Remarking
  <1> QED BY <1>1, <1>2 DEF Holding

LEMMA MarkKeeps == EngineInv /\ Mark => EngineInv'
  <1> SUFFICES ASSUME EngineInv, Mark PROVE EngineInv'
    OBVIOUS
  <1>1. EngineTypeOK /\ InOrder /\ Drained /\ Conserved(account, book) /\ pc = "signals"
        /\ pc' = "loop" /\ bar' = Nothing
        /\ UNCHANGED <<runs, next, queue, consumed, known, stopping, signals, window, view, rejected>>
    BY DEF EngineInv, Mark
  <1>2. bar.at \in Instants /\ bar.close \in Nat /\ bar.symbol \in Symbols
    BY <1>1 DEF InOrder, Bar
  <1>3. PICK elapsed : elapsed = IF account.clock # Nothing /\ bar.at > account.clock
                                 THEN bar.at - account.clock ELSE 0
    OBVIOUS
  <1>4. PICK due : due = [s \in Symbols |->
            BorrowFee(book[s], IF s = bar.symbol THEN bar.close ELSE book[s].mark, elapsed)]
    OBVIOUS
  <1>5. /\ book' = [s \in Symbols |->
              [book[s] EXCEPT !.realised = @ - due[s],
                              !.mark = IF s = bar.symbol /\ book[s].qty # 0 THEN bar.close ELSE @]]
        /\ account' = [account EXCEPT !.realised = @ - Total(due), !.borrowed = @ + Total(due),
                                      !.clock = Clock(bar.at)]
    BY Zenon, <1>3, <1>4 DEF Mark
  <1>6. elapsed \in Nat
    <2>1. account.clock \in Instants \cup {Nothing}
      BY <1>1 DEF EngineTypeOK, Account
    <2>2. \A i \in Instants : i \in Nat
      BY EngineNumbers
    <2> QED BY <1>2, <1>3, <2>1, <2>2
  <1>7. due \in [Symbols -> Nat]
    <2>1. ASSUME NEW p \in Holding, NEW close \in Nat
          PROVE  BorrowFee(p, close, elapsed) \in Nat
      <3>1. p.qty \in Int /\ account.parts \in Nat
        BY <1>1 DEF EngineTypeOK, Account, Holding
      <3>2. Abs(p.qty) \in Nat
        BY <3>1 DEF Abs
      <3>3. PICK a \in Nat : a = BorrowRate * Abs(p.qty)
        BY <3>2, EngineNumbers
      <3>4. PICK b \in Nat : b = a * close
        OBVIOUS
      <3>5. PICK c \in Nat : c = b * elapsed
        BY <1>6
      <3>6. PICK d \in Nat : d = c * account.parts
        BY <3>1
      <3>7. BorrowFee(p, close, elapsed) \in {0, d}
        BY Zenon, <3>3, <3>4, <3>5, <3>6 DEF BorrowFee
      <3> QED BY <3>7
    <2>2. ASSUME NEW s \in Symbols
          PROVE  BorrowFee(book[s], IF s = bar.symbol THEN bar.close ELSE book[s].mark, elapsed) \in Nat
      <3>1. book[s] \in Holding /\ book[s].mark \in Nat
        BY <1>1 DEF EngineTypeOK, Holding
      <3>2. PICK close \in Nat : close = IF s = bar.symbol THEN bar.close ELSE book[s].mark
        BY <1>2, <3>1
      <3>3. BorrowFee(book[s], close, elapsed) \in Nat
        BY <2>1, <3>1
      <3> QED BY Zenon, <3>2, <3>3
    <2> QED BY <1>4, <2>2
  <1>8. book \in [Symbols -> Holding] /\ account \in Account
    BY <1>1 DEF EngineTypeOK
  <1>9. PICK n : n = [s \in Symbols |->
              [book[s] EXCEPT !.realised = @ - due[s],
                              !.mark = IF s = bar.symbol /\ book[s].qty # 0 THEN bar.close ELSE @]]
    OBVIOUS
  <1>10. \A s \in Symbols :
             /\ n[s] \in Holding
             /\ n[s].qty = book[s].qty /\ n[s].long = book[s].long /\ n[s].short = book[s].short
             /\ n[s].realised = book[s].realised - due[s]
    <2> SUFFICES ASSUME NEW s \in Symbols
                 PROVE  /\ n[s] \in Holding
                        /\ n[s].qty = book[s].qty /\ n[s].long = book[s].long /\ n[s].short = book[s].short
                        /\ n[s].realised = book[s].realised - due[s]
      OBVIOUS
    <2>1. PICK p \in Holding : p = book[s]
      BY <1>8
    <2>2. PICK d \in Nat : d = due[s]
      BY <1>7
    <2>3. PICK mark \in Nat : mark = IF s = bar.symbol /\ p.qty # 0 THEN bar.close ELSE p.mark
      BY <1>2 DEF Holding
    <2>4. n[s] = [book[s] EXCEPT !.realised = @ - due[s],
                                 !.mark = IF s = bar.symbol /\ book[s].qty # 0 THEN bar.close ELSE @]
      BY Zenon, <1>9
    <2>5. n[s] = [p EXCEPT !.realised = @ - d,
                           !.mark = IF s = bar.symbol /\ p.qty # 0 THEN bar.close ELSE @]
      BY Zenon, <2>1, <2>2, <2>4
    <2>6. n[s] = Remarking(p, d, mark)
      BY Zenon, <2>3, <2>5 DEF Remarking
    <2>7. /\ n[s] \in Holding /\ n[s].qty = p.qty /\ n[s].long = p.long /\ n[s].short = p.short
          /\ n[s].realised = p.realised - d
      BY <2>6, Remarked
    <2> QED BY <2>1, <2>2, <2>7
  <1>11. n \in [Symbols -> Holding]
    BY <1>9, <1>10
  <1>12. PICK c : c = [account EXCEPT !.realised = @ - Total(due), !.borrowed = @ + Total(due),
                                      !.clock = bar.at]
    OBVIOUS
  <1>13. c \in Account /\ Conserved(c, n)
    <2>1. \A s \in Symbols : /\ n[s].qty = book[s].qty /\ n[s].long = book[s].long
                             /\ n[s].short = book[s].short /\ n[s].realised = book[s].realised - due[s]
      BY <1>10
    <2>2. PICK at \in Instants : at = bar.at
      BY <1>2
    <2>3. c = [account EXCEPT !.realised = @ - Total(due), !.borrowed = @ + Total(due), !.clock = at]
      BY <1>12, <2>2
    <2> QED BY <1>1, <1>7, <1>8, <1>11, <2>1, <2>3, MarkConserves
  <1>14. book' = n /\ account' = c
    BY Zenon, <1>5, <1>9, <1>12 DEF Clock
  <1>15. EngineTypeOK'
    BY <1>1, <1>11, <1>13, <1>14 DEF EngineTypeOK
  <1>16. InOrder' /\ Drained'
    BY <1>1 DEF InOrder, Drained
  <1> QED BY <1>13, <1>14, <1>15, <1>16 DEF EngineInv

LEMMA EngineStep == EngineInv /\ [EngineNext]_engineVars => EngineInv'
  <1> SUFFICES ASSUME EngineInv, [EngineNext]_engineVars PROVE EngineInv'
    OBVIOUS
  <1>1. EngineTypeOK /\ InOrder /\ Drained /\ Conserved(account, book)
    BY DEF EngineInv
  <1>2. CASE EndRun
    <2>1. /\ pc' = "done" /\ (stopping \/ queue = {})
          /\ UNCHANGED <<runs, next, queue, consumed, known, bar, signals, window, view, book, account, rejected, stopping>>
      BY Zenon, <1>2 DEF EndRun, portfolio
    <2>2. EngineTypeOK'
      BY <1>1, <2>1 DEF EngineTypeOK
    <2>3. InOrder'
      BY <1>1, <2>1 DEF InOrder
    <2>4. Drained'
      BY <2>1 DEF Drained
    <2> QED BY <1>1, <2>1, <2>2, <2>3, <2>4 DEF EngineInv
  <1>4. CASE Shutdown
    <2>1. /\ stopping'
          /\ UNCHANGED <<pc, runs, next, queue, consumed, known, bar, signals, window, view, book, account, rejected>>
      BY Zenon, <1>4 DEF Shutdown, portfolio
    <2>2. stopping' = TRUE
      BY Zenon, <1>4 DEF Shutdown
    <2>3. EngineTypeOK'
      BY <1>1, <2>1, <2>2 DEF EngineTypeOK
    <2>4. InOrder' /\ Drained'
      BY <1>1, <2>1 DEF InOrder, Drained
    <2> QED BY <1>1, <2>1, <2>3, <2>4 DEF EngineInv
  <1>3. CASE UNCHANGED engineVars
    BY <1>1, <1>3 DEF engineVars, EngineInv, EngineTypeOK, InOrder, Drained
  <1> QED BY <1>2, <1>3, <1>4, RunKeeps, StreamKeeps, ConsumeKeeps, SignalKeeps, MarkKeeps
          DEF EngineNext, Step

LEMMA EngineAlways == EngineSpec => []EngineInv
  BY EngineStarts, EngineStep, PTL DEF EngineSpec

-----------------------------------------------------------------------------
(* The backtest engine: the size of a position, and the portfolio's clock  *)

LEMMA FilledSize ==
    ASSUME NEW p \in Holding, NEW side \in {"BUY", "SELL"}, NEW q \in Nat \ {0}, NEW y \in Nat
    PROVE  Filled(p, side, q, y).qty = IF side = "BUY" THEN p.qty + q ELSE p.qty - q
  <1>1. CASE side = "BUY"
    <2>1. PICK c, l, s : ApplyLongAdd(p, q, y) =
              [p EXCEPT !.qty = @ + q, !.realised = @ + (p.short - y) * c, !.short = s, !.long = l]
      BY Zenon DEF ApplyLongAdd
    <2>2. ApplyLongAdd(p, q, y).qty = p.qty + q
      BY <2>1 DEF Holding
    <2> QED BY <1>1, <2>2 DEF Filled
  <1>2. CASE side = "SELL"
    <2>1. PICK c, l, s : ApplySell(p, q, y) =
              [p EXCEPT !.qty = @ - q, !.realised = @ + (y - p.long) * c, !.long = l, !.short = s]
      BY Zenon DEF ApplySell
    <2>2. ApplySell(p, q, y).qty = p.qty - q
      BY <2>1 DEF Holding
    <2> QED BY <1>2, <2>2 DEF Filled
  <1> QED BY <1>1, <1>2

\* A fill sets the clock to its own time.
LEMMA TotalsClock ==
    ASSUME NEW a \in Account, NEW k, NEW p, NEW side, NEW q, NEW y, NEW at
    PROVE  Totals(AccountIn(k, a), p, side, q, y, at).clock = at
  <1>1. PICK u, v, w, x, f, m : AccountIn(k, a) =
            [a EXCEPT !.cash = u, !.realised = v, !.delta = w, !.fees = x, !.borrowed = f, !.parts = m]
    BY Zenon DEF AccountIn
  <1>2. PICK b \in [cash : {u}, realised : {v}, delta : {w}, clock : Instants \cup {Nothing},
                    fees : {x}, borrowed : {f}, parts : {m}] : b = AccountIn(k, a)
    BY <1>1 DEF Account
  <1>3. PICK c, r, d, e : Totals(b, p, side, q, y, at) =
            [b EXCEPT !.cash = c, !.realised = r, !.delta = d, !.clock = at, !.fees = e]
    BY Zenon DEF Totals
  <1> QED BY <1>2, <1>3

\* on_fill refuses a fill older than the clock, and else changes one position by its size.
LEMMA OnFillSizes ==
    ASSUME EngineTypeOK, bar \in Bar, NEW side \in {"BUY", "SELL"}, NEW q \in Nat \ {0},
           OnFill(side, q)
    PROVE  \/ /\ account.clock # Nothing /\ bar.at < account.clock
              /\ rejected' = rejected + 1 /\ UNCHANGED <<book, account>>
           \/ /\ rejected' = rejected /\ account'.clock = bar.at
              /\ \A s \in Symbols : book'[s].qty =
                     IF s # bar.symbol THEN book[s].qty
                     ELSE IF side = "BUY" THEN book[s].qty + q ELSE book[s].qty - q
  <1>1. book \in [Symbols -> Holding] /\ account \in Account
        /\ bar.symbol \in Symbols /\ bar.close \in Nat /\ bar.at \in Instants
    BY DEF EngineTypeOK, Bar
  <1>2. CASE account.clock # Nothing /\ bar.at < account.clock
    BY <1>2 DEF OnFill
  <1>3. CASE ~(account.clock # Nothing /\ bar.at < account.clock)
    <2>1. PICK t \in Symbols : t = bar.symbol
      BY <1>1
    <2>2. PICK x \in Nat : x = account.parts * bar.close
      BY <1>1 DEF Account
    <2>3. PICK k \in Nat \ {0} : k = Cuts(book[t], side, q, x)
      BY <1>1, CutsFacts
    <2>4. PICK a : a = AccountIn(k, account)
      OBVIOUS
    <2>5. PICK y \in Nat : y = a.parts * bar.close
      <3>1. a.parts = k * account.parts /\ account.parts \in Nat
        BY <1>1, <2>4 DEF AccountIn, Account
      <3>2. a.parts \in Nat
        BY <3>1
      <3> QED BY <1>1, <3>2
    <2>6. PICK h : h = HoldingsIn(k, book)
      OBVIOUS
    <2>7. \A s \in Symbols : h[s] \in Holding /\ h[s].qty = book[s].qty
      BY <1>1, <2>6, HoldingInFacts DEF HoldingsIn
    <2>8. PICK p : p = Filled(h[t], side, q, y)
      OBVIOUS
    <2>9. /\ book' = [h EXCEPT ![t] = p]
          /\ account' = Totals(a, p, side, q, y, bar.at)
          /\ rejected' = rejected
      BY Zenon, <1>3, <2>1, <2>2, <2>3, <2>4, <2>5, <2>6, <2>8 DEF OnFill
    <2>10. account'.clock = bar.at
      BY <1>1, <2>4, <2>9, TotalsClock
    <2>11. p.qty = IF side = "BUY" THEN book[t].qty + q ELSE book[t].qty - q
      BY <2>7, <2>8, FilledSize
    <2>12. \A s \in Symbols : book'[s] = IF s = t THEN p ELSE h[s]
      BY <2>6, <2>9 DEF HoldingsIn
    <2> QED BY <2>1, <2>7, <2>9, <2>10, <2>11, <2>12
  <1> QED BY <1>2, <1>3

\* mark_to_market changes no size and takes the time of the bar.
LEMMA MarkSizes ==
    ASSUME EngineTypeOK, Mark
    PROVE  /\ \A s \in Symbols : book'[s].qty = book[s].qty
           /\ account'.clock = bar.at /\ rejected' = rejected
  <1>1. book \in [Symbols -> Holding] /\ account \in Account
    BY DEF EngineTypeOK
  <1>2. PICK due :
          /\ book' = [s \in Symbols |->
                 [book[s] EXCEPT !.realised = @ - due[s],
                                 !.mark = IF s = bar.symbol /\ book[s].qty # 0 THEN bar.close ELSE @]]
          /\ account' = [account EXCEPT !.realised = @ - Total(due), !.borrowed = @ + Total(due),
                                        !.clock = Clock(bar.at)]
    BY Zenon DEF Mark
  <1>3. ASSUME NEW s \in Symbols PROVE book'[s].qty = book[s].qty
    <2>1. PICK p \in Holding : p = book[s]
      BY <1>1
    <2>2. PICK r, m : book'[s] = [p EXCEPT !.realised = r, !.mark = m]
      BY Zenon, <1>2, <2>1
    <2>3. book'[s].qty = p.qty
      BY <2>2 DEF Holding
    <2> QED BY <2>1, <2>3
  <1>4. account'.clock = bar.at
    <2>1. PICK r, b : account' = [account EXCEPT !.realised = r, !.borrowed = b, !.clock = Clock(bar.at)]
      BY Zenon, <1>2
    <2> QED BY <1>1, <2>1 DEF Account, Clock
  <1> QED BY <1>3, <1>4 DEF Mark

\* What a signal may do to the portfolio.
LEMMA SignalSizes ==
    ASSUME EngineInv, NEW signal \in signals, HandleSignal(signal)
    PROVE  \/ UNCHANGED <<book, account, rejected>>
           \/ \E side \in {"BUY", "SELL"}, q \in Nat \ {0} :
                /\ OnFill(side, q)
                /\ side = "BUY" => q <= Target(signal) - book[bar.symbol].qty
                /\ side = "SELL" => q <= book[bar.symbol].qty - Target(signal)
  <1>1. bar \in Bar /\ bar.symbol \in Symbols /\ bar.volume \in Nat
    BY DEF EngineInv, InOrder, HandleSignal, Bar
  <1>2. PICK size \in Int : size = book[bar.symbol].qty
    BY <1>1 DEF EngineInv, EngineTypeOK, Holding
  <1>3. PICK target \in Int : target = Target(signal)
    BY EngineNumbers DEF Target
  <1>4. PICK n \in Int : n = target - size
    OBVIOUS
  <1>5. Ordered(signal) = n
    BY Zenon, <1>2, <1>3, <1>4 DEF Ordered
  <1>6. PICK side \in {"BUY", "SELL"} : side = IF n > 0 THEN "BUY" ELSE "SELL"
    OBVIOUS
  <1>7. UNCHANGED <<book, account, rejected>>
        \/ (n # 0 /\ bar.volume # 0 /\ OnFill(side, Min({Abs(n), bar.volume})))
    BY Zenon, <1>5, <1>6 DEF HandleSignal, portfolio
  <1>8. CASE n # 0 /\ bar.volume # 0 /\ OnFill(side, Min({Abs(n), bar.volume}))
    <2>1. Abs(n) \in Nat \ {0} /\ Abs(n) = IF n > 0 THEN n ELSE -n
      BY <1>8 DEF Abs
    <2>2. PICK q \in Nat \ {0} : q = Min({Abs(n), bar.volume}) /\ q <= Abs(n)
      BY <1>1, <1>8, <2>1, LeastOfTwo
    <2>3. OnFill(side, q)
      BY <1>8, <2>2
    <2>4. /\ side = "BUY" => q <= target - size
          /\ side = "SELL" => q <= size - target
      BY <1>2, <1>3, <1>4, <1>6, <2>1, <2>2
    <2> QED BY <1>2, <1>3, <2>3, <2>4
  <1> QED BY <1>7, <1>8

LEMMA OthersLeavePortfolio ==
    ASSUME [EngineNext]_engineVars
    PROVE  \/ UNCHANGED portfolio
           \/ Mark
           \/ \E g \in signals : HandleSignal(g)
  BY DEF EngineNext, Step, Run, Stream, EndStream, Consume, EndRun, Shutdown, engineVars, portfolio

\* No position is larger than what one signal asks for.
Scaled == \A s \in Symbols : -Scale <= book[s].qty /\ book[s].qty <= Scale

LEMMA ScaledStep == EngineInv /\ Scaled /\ [EngineNext]_engineVars => Scaled'
  <1> SUFFICES ASSUME EngineInv, Scaled, [EngineNext]_engineVars PROVE Scaled'
    OBVIOUS
  <1>1. EngineTypeOK /\ Scale \in Nat
    BY EngineNumbers DEF EngineInv
  <1>2. CASE UNCHANGED <<book, account, rejected>>
    BY <1>2 DEF Scaled
  <1>3. CASE Mark
    BY <1>1, <1>3, MarkSizes DEF Scaled
  <1>4. ASSUME NEW signal \in signals, HandleSignal(signal) PROVE Scaled'
    <2>1. PICK side \in {"BUY", "SELL"}, q \in Nat \ {0} :
              \/ UNCHANGED <<book, account, rejected>>
              \/ /\ OnFill(side, q)
                 /\ side = "BUY" => q <= Target(signal) - book[bar.symbol].qty
                 /\ side = "SELL" => q <= book[bar.symbol].qty - Target(signal)
      BY <1>4, SignalSizes
    <2>2. CASE OnFill(side, q) /\ (side = "BUY" => q <= Target(signal) - book[bar.symbol].qty)
               /\ (side = "SELL" => q <= book[bar.symbol].qty - Target(signal))
      <3>1. bar \in Bar /\ bar.symbol \in Symbols
        BY <1>4 DEF EngineInv, InOrder, HandleSignal, Bar
      <3>2. PICK size \in Int : size = book[bar.symbol].qty
        BY <1>1, <3>1 DEF EngineTypeOK, Holding
      <3>3. Target(signal) \in {Scale, -Scale, 0}
        BY DEF Target
      <3>4. -Scale <= size /\ size <= Scale
        BY <3>1, <3>2 DEF Scaled
      <3>5. /\ side = "BUY" => -Scale <= size + q /\ size + q <= Scale
            /\ side = "SELL" => -Scale <= size - q /\ size - q <= Scale
        BY <1>1, <2>2, <3>2, <3>3, <3>4
      <3>6. CASE UNCHANGED <<book, account>>
        BY <3>6 DEF Scaled
      <3>7. CASE \A s \in Symbols : book'[s].qty =
                     IF s # bar.symbol THEN book[s].qty
                     ELSE IF side = "BUY" THEN book[s].qty + q ELSE book[s].qty - q
        BY <3>2, <3>5, <3>7 DEF Scaled
      <3> QED BY <1>1, <2>2, <3>1, <3>6, <3>7, OnFillSizes
    <2> QED BY <1>2, <2>1, <2>2
  <1> QED BY <1>2, <1>3, <1>4, OthersLeavePortfolio DEF portfolio

\* In the first run of a fresh portfolio its clock never passes the bar at hand.
Behind ==
    /\ runs = 0 => pc = "idle" /\ account.clock = Nothing
    /\ runs <= 1 => rejected = 0
    /\ runs <= 1 /\ account.clock # Nothing => consumed # Nothing /\ account.clock <= consumed

LEMMA BehindStep == EngineInv /\ Behind /\ [EngineNext]_engineVars => Behind'
  <1> SUFFICES ASSUME EngineInv, Behind, [EngineNext]_engineVars PROVE Behind'
    OBVIOUS
  <1>1. EngineTypeOK /\ InOrder /\ runs \in Nat /\ Nothing \notin Int
        /\ (\A i \in Instants : i \in Nat) /\ account \in Account
        /\ (account.clock = Nothing \/ account.clock \in Nat)
        /\ (consumed = Nothing \/ consumed \in Nat)
    BY EngineNumbers DEF EngineInv, EngineTypeOK, Account
  <1>2. CASE Run
    <2>1. runs' = runs + 1 /\ UNCHANGED <<book, account, rejected>>
      BY <1>2 DEF Run, portfolio
    <2> QED BY <1>1, <2>1 DEF Behind
  <1>3. CASE Stream \/ EndStream \/ EndRun \/ Shutdown \/ UNCHANGED engineVars
    <2>1. UNCHANGED <<runs, consumed, book, account, rejected>>
          /\ (runs = 0 => pc # "idle" \/ pc' = pc)
      BY <1>3 DEF Stream, EndStream, EndRun, Shutdown, engineVars, portfolio
    <2> QED BY <1>1, <2>1 DEF Behind
  <1>4. CASE Consume
    <2>1. UNCHANGED <<runs, book, account, rejected>> /\ pc = "loop"
      BY <1>4 DEF Consume, portfolio
    <2>2. PICK e \in queue : consumed' = consumed \/ consumed' = e.at
      BY <1>4 DEF Consume
    <2>3. e.at \in Nat /\ (consumed # Nothing => consumed <= e.at)
      BY <1>1 DEF EngineTypeOK, Entry, InOrder
    <2> QED BY <1>1, <2>1, <2>2, <2>3 DEF Behind
  <1>5. CASE Mark
    <2>1. UNCHANGED <<runs, consumed>> /\ pc = "signals"
      BY <1>5 DEF Mark
    <2>2. account'.clock = bar.at /\ rejected' = rejected
      BY <1>1, <1>5, MarkSizes
    <2>3. bar \in Bar /\ bar.at = consumed /\ bar.at \in Nat
      BY <1>1, <2>1 DEF InOrder, Bar
    <2> QED BY <1>1, <2>1, <2>2, <2>3 DEF Behind
  <1>6. ASSUME NEW signal \in signals, HandleSignal(signal) PROVE Behind'
    <2>1. UNCHANGED <<runs, consumed>> /\ pc = "signals"
      BY <1>6 DEF HandleSignal
    <2>2. bar \in Bar /\ bar.at = consumed /\ bar.at \in Nat
      BY <1>1, <2>1 DEF InOrder, Bar
    <2>3. CASE UNCHANGED <<book, account, rejected>>
      BY <1>1, <2>1, <2>3 DEF Behind
    <2>4. ASSUME NEW side \in {"BUY", "SELL"}, NEW q \in Nat \ {0}, OnFill(side, q) PROVE Behind'
      <3>1. \/ account.clock # Nothing /\ bar.at < account.clock /\ rejected' = rejected + 1
               /\ UNCHANGED <<book, account>>
            \/ rejected' = rejected /\ account'.clock = bar.at
        BY <1>1, <2>2, <2>4, OnFillSizes
      <3> QED BY <1>1, <2>1, <2>2, <3>1 DEF Behind
    <2> QED BY <1>6, <2>3, <2>4, SignalSizes
  <1> QED BY <1>2, <1>3, <1>4, <1>5, <1>6 DEF EngineNext, Step

\* While every symbol is watched by one strategy, no order id of the bars to come is known.
LoneWatchers == \A g, h \in Strategies : Watches[g] \cap Watches[h] # {} => g = h

IdOf(id, symbol, at) == id[2] = symbol /\ id[3] = at
Fresh ==
    /\ pc = "raised" => stopping
    /\ pc = "stream" => known = {}
    /\ \A e \in queue, id \in known : e.kind = "MARKET" => ~IdOf(id, e.symbol, e.at)
    /\ pc = "signals" => /\ \A g, h \in signals : g = h
                         /\ \A e \in queue : e.kind = "MARKET" => e.symbol # bar.symbol \/ e.at # bar.at
                         /\ signals # {} => \A id \in known : ~IdOf(id, bar.symbol, bar.at)

LEMMA OneSignal ==
    ASSUME LoneWatchers, EngineTypeOK, NEW e \in queue, NEW market, ConsumeBar(e, market)
    PROVE  \A g, h \in signals' : g = h
  <1>1. PICK opinion \in [Strategies -> Sides \cup {"FLAT"}] :
          /\ \A g \in Strategies :
                IF (IF window[e.symbol] + 1 >= Lookback THEN TRUE ELSE FALSE) /\ e.symbol \in Watches[g]
                THEN opinion[g] \in Opinions(view[g][e.symbol]) ELSE opinion[g] = view[g][e.symbol]
          /\ signals' = {[strategy |-> g, type |-> IF opinion[g] = "FLAT" THEN "EXIT" ELSE opinion[g]] :
                            g \in {h \in Strategies : opinion[h] # view[h][e.symbol]}}
    BY DEF ConsumeBar
  <1>2. \A g \in Strategies : opinion[g] # view[g][e.symbol] => e.symbol \in Watches[g]
    BY <1>1
  <1>3. \A g, h \in Strategies :
            opinion[g] # view[g][e.symbol] /\ opinion[h] # view[h][e.symbol] => g = h
    BY <1>2 DEF LoneWatchers
  <1> QED BY <1>1, <1>3

LEMMA FreshStep == LoneWatchers /\ EngineInv /\ Fresh /\ [EngineNext]_engineVars => Fresh'
  <1> SUFFICES ASSUME LoneWatchers, EngineInv, Fresh, [EngineNext]_engineVars PROVE Fresh'
    OBVIOUS
  <1>1. EngineTypeOK /\ InOrder
    BY DEF EngineInv
  <1>2. CASE Run
    <2>1. pc' = "stream" /\ known' = {} /\ queue' = {}
      BY <1>2 DEF Run
    <2> QED BY <2>1 DEF Fresh
  <1>3. CASE Stream
    <2>1. /\ known' = known /\ pc = "stream" /\ stopping' = stopping
          /\ pc' = "stream" \/ (pc' = "raised" /\ stopping)
      BY <1>3 DEF Stream
    <2> QED BY <2>1 DEF Fresh
  <1>4. CASE EndStream \/ EndRun
    <2>1. /\ pc' \in {"loop", "done"} /\ UNCHANGED <<known, queue>>
      BY <1>4 DEF EndStream, EndRun
    <2> QED BY <2>1 DEF Fresh
  <1>5. CASE Shutdown \/ UNCHANGED engineVars
    <2>1. /\ UNCHANGED <<pc, known, queue, signals, bar>>
          /\ stopping => stopping'
      BY <1>5 DEF Shutdown, engineVars
    <2> QED BY <2>1 DEF Fresh
  <1>6. CASE Consume
    <2>1. PICK e \in queue : /\ queue' = queue \ {e} /\ pc = "loop" /\ known' = known
                             /\ \/ pc' \in {"done", "loop"}
                                \/ \E market \in Markets : ConsumeBar(e, market)
      BY <1>6 DEF Consume
    <2>2. CASE pc' \in {"done", "loop"}
      BY <2>1, <2>2 DEF Fresh
    <2>3. ASSUME NEW market \in Markets, ConsumeBar(e, market) PROVE Fresh'
      <3>1. /\ e.kind = "MARKET" /\ pc' = "signals"
            /\ bar' = [at |-> e.at, symbol |-> e.symbol, close |-> market.close, volume |-> market.volume]
        BY <2>3 DEF ConsumeBar
      <3>2. bar'.at = e.at /\ bar'.symbol = e.symbol
        BY <3>1
      <3>3. \A o \in queue : o.kind = "MARKET" =>
                o = [kind |-> "MARKET", at |-> o.at, symbol |-> o.symbol]
        BY <1>1 DEF EngineTypeOK, Entry
      <3>4. \A o \in queue : o.kind = "MARKET" /\ o.at = e.at /\ o.symbol = e.symbol => o = e
        BY <3>1, <3>3
      <3>5. \A g, h \in signals' : g = h
        BY <1>1, <2>3, OneSignal
      <3>6. \A id \in known : ~IdOf(id, e.symbol, e.at)
        BY <3>1 DEF Fresh
      <3> QED BY <2>1, <3>1, <3>2, <3>4, <3>5, <3>6 DEF Fresh
    <2> QED BY <2>1, <2>2, <2>3
  <1>7. ASSUME NEW g \in signals, HandleSignal(g) PROVE Fresh'
    <2>1. /\ pc = "signals" /\ bar' = bar /\ stopping' = stopping /\ signals' = signals \ {g}
          /\ signals' = {}
      BY <1>7 DEF HandleSignal, Fresh
    <2>2. OrderId(g) \notin known
      <3>1. IdOf(OrderId(g), bar.symbol, bar.at)
        BY DEF OrderId, IdOf
      <3> QED BY <2>1, <3>1 DEF Fresh
    <2>3. \/ UNCHANGED <<pc, queue, known>>
          \/ stopping /\ pc' = "raised" /\ UNCHANGED <<queue, known>>
          \/ UNCHANGED pc /\ known' = known \cup {OrderId(g)} /\ queue' = queue \cup {Queued(bar.at)}
      BY <1>7, <2>2 DEF HandleSignal
    <2>4. \A id \in known' : id \in known \/ IdOf(id, bar.symbol, bar.at)
      BY <2>3 DEF OrderId, IdOf
    <2>5. \A e \in queue' : e.kind = "MARKET" => e \in queue
      BY <2>3 DEF Queued
    <2>6. \A e \in queue', id \in known' : e.kind = "MARKET" => ~IdOf(id, e.symbol, e.at)
      <3> SUFFICES ASSUME NEW e \in queue', NEW id \in known', e.kind = "MARKET"
                   PROVE  ~IdOf(id, e.symbol, e.at)
        OBVIOUS
      <3>1. e \in queue /\ (e.symbol # bar.symbol \/ e.at # bar.at)
        BY <2>1, <2>5 DEF Fresh
      <3>2. CASE id \in known
        BY <3>1, <3>2 DEF Fresh
      <3>3. CASE IdOf(id, bar.symbol, bar.at)
        BY <3>1, <3>3 DEF IdOf
      <3> QED BY <2>4, <3>2, <3>3
    <2>7. pc' \in {"signals", "raised"} /\ (pc' = "raised" => stopping')
      BY <2>1, <2>3
    <2> QED BY <2>1, <2>5, <2>6, <2>7 DEF Fresh
  <1>8. CASE Mark
    <2>1. UNCHANGED <<queue, known>> /\ pc' = "loop"
      BY <1>8 DEF Mark
    <2> QED BY <2>1 DEF Fresh
  <1> QED BY <1>2, <1>3, <1>4, <1>5, <1>6, <1>7, <1>8 DEF EngineNext, Step

(***************************************************************************)
(* The types of the engine's state hold for all bars, markets and bounds.  *)
(***************************************************************************)
THEOREM EngineTypes == EngineSpec => []EngineTypeOK
  <1>1. EngineInv => EngineTypeOK
    BY DEF EngineInv
  <1> QED BY <1>1, EngineAlways, PTL

(***************************************************************************)
(* No fill, reversal, partial fill, commission or borrow fee creates or    *)
(* loses money (on_fill and mark_to_market), whatever the order, over any  *)
(* number of symbols, strategies, bars and runs.                           *)
(***************************************************************************)
THEOREM EngineConserves == EngineSpec => []ValueConserved
  <1>1. EngineInv => ValueConserved
    BY DEF EngineInv, Conserved, ValueConserved
  <1> QED BY <1>1, EngineAlways, PTL

(***************************************************************************)
(* A run that ends without an exception and was not asked to stop has      *)
(* emptied its queue: the check for a time in the past, which would end    *)
(* the loop of EngineDriver.run, never does.                               *)
(***************************************************************************)
THEOREM EngineDrains == EngineSpec => [](pc = "done" => stopping \/ queue = {})
  <1>1. EngineInv => (pc = "done" => stopping \/ queue = {})
    BY DEF EngineInv, Drained
  <1> QED BY <1>1, EngineAlways, PTL

(***************************************************************************)
(* However many strategies signal on a symbol, in whatever order, and      *)
(* however the market cuts their orders, a position is never larger than   *)
(* signal_scale_qty on either side (on_signal orders the difference to its *)
(* target; _apply_long_add and _apply_sell cross zero).                    *)
(***************************************************************************)
THEOREM PositionsStayInScale ==
    EngineSpec => [](\A s \in Symbols : -Scale <= book[s].qty /\ book[s].qty <= Scale)
  <1>1. EngineInit => Scaled
    BY EngineNumbers DEF EngineInit, Scaled, Flat
  <1>2. EngineInv /\ Scaled /\ [EngineNext]_engineVars => Scaled'
    BY ScaledStep
  <1>3. Scaled => \A s \in Symbols : -Scale <= book[s].qty /\ book[s].qty <= Scale
    BY DEF Scaled
  <1> QED BY <1>1, <1>2, <1>3, EngineAlways, PTL DEF EngineSpec

(***************************************************************************)
(* A portfolio that no run has used takes every fill of its first run: the *)
(* clock that on_fill compares with is never ahead of the bar the fill is  *)
(* of, though both mark_to_market and the fills before have moved it.      *)
(***************************************************************************)
THEOREM FirstRunTakesFills ==
    EngineSpec /\ account.clock = Nothing => [](runs <= 1 => rejected = 0)
  <1>1. EngineInit /\ account.clock = Nothing => Behind
    BY DEF EngineInit, Behind
  <1>2. EngineInv /\ Behind /\ [EngineNext]_engineVars => Behind'
    BY BehindStep
  <1>3. Behind => (runs <= 1 => rejected = 0)
    BY DEF Behind
  <1> QED BY <1>1, <1>2, <1>3, EngineAlways, PTL DEF EngineSpec

(***************************************************************************)
(* Where no two strategies watch one symbol, a run raises only after a     *)
(* shutdown: the order ids of _on_signal name kind, symbol, time and size, *)
(* and no bar gives two orders.  With two on a symbol it may (EngineRuns   *)
(* reaches it): orders of one size on one bar have one id.                 *)
(***************************************************************************)
THEOREM LoneStrategiesNeverRaise ==
    LoneWatchers => (EngineSpec => [](pc = "raised" => stopping))
  <1> SUFFICES ASSUME LoneWatchers PROVE EngineSpec => [](pc = "raised" => stopping)
    OBVIOUS
  <1>1. EngineInit => Fresh
    BY DEF EngineInit, Fresh
  <1>2. EngineInv /\ Fresh /\ [EngineNext]_engineVars => Fresh'
    BY FreshStep
  <1>3. Fresh => (pc = "raised" => stopping)
    BY DEF Fresh
  <1> QED BY <1>1, <1>2, <1>3, EngineAlways, PTL DEF EngineSpec
=============================================================================
