-------------------------- MODULE TradePipelineProofs --------------------------
(***************************************************************************)
(* Theorems about the entry pipeline: for every set of tickers and frames, *)
(* all thresholds, and any number of scans, trade runs and lost fills.     *)
(***************************************************************************)
EXTENDS TradePipeline, SetSums

-----------------------------------------------------------------------------
(* What the frames show                                                    *)

LEMMA MinOfTwo ==
    ASSUME NEW a \in Int, NEW b \in Int
    PROVE  Min({a, b}) \in {a, b} /\ Min({a, b}) <= a /\ Min({a, b}) <= b
  <1>1. \E x \in {a, b} : \A y \in {a, b} : x <= y
    OBVIOUS
  <1> QED BY <1>1 DEF Min

LEMMA MaxOfTwo ==
    ASSUME NEW a \in Int, NEW b \in Int
    PROVE  Max({a, b}) \in {a, b} /\ Max({a, b}) >= a /\ Max({a, b}) >= b
  <1>1. \E x \in {a, b} : \A y \in {a, b} : x >= y
    OBVIOUS
  <1> QED BY <1>1 DEF Max

LEMMA EvidenceFacts ==
    ASSUME NEW ev \in Evidence
    PROVE  ev.raised \subseteq Checks /\ ev.allocation \in {0, 50, 100}
  <1>1. PICK f \in Frames : ev = EvidenceOf(f, Sight(f))
    BY DEF Evidence
  <1>2. PICK raised, allocation :
          /\ raised = Raised(f.daily, f.bars) /\ allocation = Allocation(f.exits)
          /\ Sight(f).raised = raised /\ Sight(f).allocation = allocation
    BY SMT DEF Sight
  <1>3. ev.raised = raised /\ ev.allocation = allocation
    BY <1>1, <1>2, SMTT(30) DEF EvidenceOf, Sight
  <1>4. Extension(f.daily) \subseteq Checks
    BY Zenon DEF Extension, Checks
  <1>5. raised \subseteq Checks
    BY <1>2, <1>4 DEF Raised, Checks
  <1>6. Allocation(f.exits) \in {0, 50, 100}
    BY Zenon DEF Allocation
  <1> QED BY <1>2, <1>3, <1>5, <1>6

LEMMA ChecksFinite == IsFiniteSet(Checks)
  <1>1. \A c : IsFiniteSet({c})
    BY FS_Singleton
  <1>2. \A S, T : IsFiniteSet(S) /\ IsFiniteSet(T) => IsFiniteSet(S \cup T)
    BY FS_Union
  <1>3. Checks = {"overbought"} \cup {"volume_non_confirmation"} \cup {"rsi_divergence"}
                 \cup {"resistance_proximity"} \cup {"regime_misalignment"}
                 \cup {"waning_momentum"} \cup {"volatility_spike"} \cup {"extension"}
                 \cup {"double_extension"}
    BY DEF Checks
  <1> QED BY <1>1, <1>2, <1>3, Zenon

LEMMA WeightFacts == \A ev, check : Weight(ev, check) \in {35, 60, 100}
  BY Zenon DEF Weight

\* The sum of CounterPenalty.
LEMMA PenaltyFacts ==
    ASSUME NEW ev \in Evidence
    PROVE  CounterPenalty(ev) \in 0..100
  <1> DEFINE S == Objections(ev)
             f == [check \in S |-> Weight(ev, check)]
             g == CHOOSE g : g = [s \in SUBSET S |->
                     IF s = {} THEN 0
                     ELSE Weight(ev, CHOOSE c \in s : TRUE) + g[s \ {CHOOSE c \in s : TRUE}]]
  <1>1. IsFiniteSet(S)
    BY EvidenceFacts, ChecksFinite, FS_Subset, FS_EmptySet DEF Objections
  <1> HIDE DEF S
  <1>2. \A check \in S : f[check] \in Nat /\ f[check] = Weight(ev, check)
    BY WeightFacts
  <1> HIDE DEF f
  <1>3. PICK h : Tabulates(h, f, S) /\ Sum(f, S) = h[S]
    BY <1>1, SumIsTabulated
  <1>4. h = [s \in SUBSET S |->
                IF s = {} THEN 0 ELSE f[CHOOSE c \in s : TRUE] + h[s \ {CHOOSE c \in s : TRUE}]]
    BY <1>3 DEF Tabulates, Element
  <1>5. \A s \in SUBSET S : s # {} =>
          f[CHOOSE c \in s : TRUE] = Weight(ev, CHOOSE c \in s : TRUE)
    <2>1. \A s \in SUBSET S : s # {} => (CHOOSE c \in s : TRUE) \in S
      BY ElementOf DEF Element
    <2> QED BY <1>2, <2>1
  <1>6. h = [s \in SUBSET S |->
                IF s = {} THEN 0
                ELSE Weight(ev, CHOOSE c \in s : TRUE) + h[s \ {CHOOSE c \in s : TRUE}]]
    BY <1>4, <1>5
  <1>7. g = [s \in SUBSET S |->
                IF s = {} THEN 0
                ELSE Weight(ev, CHOOSE c \in s : TRUE) + g[s \ {CHOOSE c \in s : TRUE}]]
    BY <1>6
  <1>8. MapThenSumSet(LAMBDA check : Weight(ev, check), S) = g[S]
    BY DEF MapThenSumSet, MapThenFoldSet
  <1> HIDE DEF g
  <1>9. Tabulates(g, f, S)
    BY <1>5, <1>7 DEF Tabulates, Element
  <1>10. g[S] = h[S]
    BY <1>1, <1>3, <1>9, TablesAgree
  <1>11. PICK sum : sum = Sum(f, S)
    OBVIOUS
  <1>12. sum \in Nat
    BY <1>1, <1>2, <1>11, SumType
  <1>13. CounterPenalty(ev) = Min({100, sum})
    BY <1>3, <1>8, <1>10, <1>11 DEF CounterPenalty, S
  <1>14. sum \in Int /\ 100 \in Int
    BY <1>12
  <1>15. Min({100, sum}) \in {100, sum} /\ Min({100, sum}) <= 100
    BY <1>14, MinOfTwo
  <1> QED BY <1>12, <1>13, <1>15

-----------------------------------------------------------------------------
(* Sizes                                                                   *)

LEMMA ScaledFacts ==
    ASSUME NEW size \in Nat \ {0}, NEW m \in 0..100
    PROVE  Scaled(size, m) \in 1..size /\ (m = 100 => Scaled(size, m) = size)
  <1>1. PICK part : part = (size * m) \div 100
    OBVIOUS
  <1>2. part \in 0..size /\ (m = 100 => part = size)
    BY <1>1
  <1>3. part \in Int /\ 1 \in Int
    BY <1>2
  <1>4. Max({1, part}) \in {1, part} /\ Max({1, part}) >= 1 /\ Max({1, part}) >= part
    BY <1>3, MaxOfTwo
  <1>5. Scaled(size, m) = Max({1, part})
    BY <1>1 DEF Scaled
  <1> QED BY <1>2, <1>4, <1>5

LEMMA ScaledGrows ==
    ASSUME NEW size \in Nat \ {0}, NEW more \in Nat, size <= more, NEW m \in 0..100
    PROVE  Scaled(size, m) <= Scaled(more, m)
  <1>1. PICK a, b : a = (size * m) \div 100 /\ b = (more * m) \div 100
    OBVIOUS
  <1>2. a \in Nat /\ b \in Nat /\ a <= b
    BY <1>1
  <1>3. a \in Int /\ b \in Int /\ 1 \in Int
    BY <1>2
  <1>4. /\ Max({1, a}) \in {1, a} /\ Max({1, a}) >= 1
        /\ Max({1, b}) \in {1, b} /\ Max({1, b}) >= 1 /\ Max({1, b}) >= b
    BY <1>3, MaxOfTwo
  <1>5. Scaled(size, m) = Max({1, a}) /\ Scaled(more, m) = Max({1, b})
    BY <1>1 DEF Scaled
  <1> QED BY <1>2, <1>4, <1>5

LEMMA SizeFacts ==
    ASSUME NEW equity \in Nat, NEW d \in Nat \ {0}
    PROVE  /\ SizeAt(equity, d) \in Nat
           /\ SizeAt(equity, d) * d * 100 <= RiskShare * equity
           /\ SizeAt(equity, d) * Price * 100 <= TickerShare * equity
  <1> DEFINE byRisk == (equity * RiskShare) \div (100 * d)
             byTicker == (equity * TickerShare) \div (100 * Price)
  <1>1. RiskShare \in Nat /\ TickerShare \in Nat /\ Price \in Nat \ {0}
    BY DecisionAssumption
  <1>2. byRisk \in Nat /\ byTicker \in Nat
    BY <1>1
  <1>3. \A q \in Nat : q <= byRisk => q * d * 100 <= RiskShare * equity
    BY <1>1
  <1>4. \A q \in Nat : q <= byTicker => q * Price * 100 <= TickerShare * equity
    BY <1>1
  <1>5. SizeAt(equity, d) = Min({byRisk, byTicker})
    BY DEF SizeAt
  <1> HIDE DEF byRisk, byTicker
  <1>6. SizeAt(equity, d) \in Nat /\ SizeAt(equity, d) <= byRisk /\ SizeAt(equity, d) <= byTicker
    <2>1. PICK a, b : a = byRisk /\ b = byTicker
      OBVIOUS
    <2>2. Min({a, b}) \in Nat /\ Min({a, b}) <= a /\ Min({a, b}) <= b
      BY <1>2, <2>1, MinOfTwo
    <2> QED BY <1>5, <2>1, <2>2
  <1> QED BY <1>3, <1>4, <1>6

LEMMA DistanceFacts ==
    ASSUME NEW ev \in Evidence
    PROVE  Distance(ev) \in Nat \ {0}
  <1>1. ev.stop \in 1..Price /\ ev.atr \in Nat \cup {None} /\ AtrMultiplier \in Nat \ {0} /\ Price \in Nat
    BY FramesAssumption, DecisionAssumption
  <1>2. CASE ev.atr \in {None, 0}
    BY <1>1, <1>2 DEF Distance
  <1>3. CASE ev.atr \notin {None, 0}
    <2>1. ev.atr \in Nat \ {0}
      BY <1>1, <1>3
    <2>2. ev.atr * AtrMultiplier \in Nat \ {0}
      BY <1>1, <2>1
    <2> QED BY <1>3, <2>2 DEF Distance
  <1> QED BY <1>2, <1>3

LEMMA CorrelationFacts ==
    ASSUME NEW correlation \in Int \cup {None}
    PROVE  /\ CorrelationMultiplier(correlation) \in 0..100
           /\ CorrelationMultiplier(None) = 100 /\ ~TooCorrelated(None)
  <1>1. MaxCorrelation \in 1..99 /\ None \notin Int
    BY DecisionAssumption
  <1>2. CASE correlation = None \/ correlation <= MaxCorrelation
    BY <1>2 DEF CorrelationMultiplier, TooCorrelated
  <1>3. CASE ~(correlation = None \/ correlation <= MaxCorrelation)
    <2> DEFINE cut == (100 * (correlation - MaxCorrelation)) \div (100 - MaxCorrelation)
    <2>1. correlation \in Int /\ correlation > MaxCorrelation
      BY <1>1, <1>3
    <2>2. cut \in Nat
      BY <1>1, <2>1
    <2>3. CorrelationMultiplier(correlation) = Max({25, 100 - cut})
      BY <1>3 DEF CorrelationMultiplier
    <2> HIDE DEF cut
    <2>a. PICK rest : rest = 100 - cut
      OBVIOUS
    <2>b. rest \in Int /\ 25 \in Int /\ rest <= 100
      BY <2>2, <2>a
    <2>c. Max({25, rest}) \in {25, rest} /\ Max({25, rest}) >= 25
      BY <2>b, MaxOfTwo
    <2>4. CorrelationMultiplier(correlation) \in 0..100
      BY <2>3, <2>a, <2>b, <2>c
    <2> QED BY <2>4 DEF CorrelationMultiplier, TooCorrelated
  <1> QED BY <1>2, <1>3

\* What the risk manager grants stays within the base size, and is no more than
\* it would be without a correlation.
LEMMA RiskFacts ==
    ASSUME NEW equity \in Nat, NEW hotness, NEW ev \in Evidence, NEW correlation \in Int \cup {None},
           NEW size, size = RiskSize(equity, hotness, ev, correlation)
    PROVE  /\ size \in Nat
           /\ size <= SizeAt(equity, Distance(ev))
           /\ RiskSize(equity, hotness, ev, None) \in Nat
           /\ size <= RiskSize(equity, hotness, ev, None)
           /\ size > 0 => ~hotness
  <1>0. PICK base, m, k : /\ base = SizeAt(equity, Distance(ev)) /\ k = CounterMultiplier(ev)
                          /\ m = CorrelationMultiplier(correlation)
    OBVIOUS
  <1> DEFINE granted(c) == Min({MaxShares, Scaled(Scaled(base, CorrelationMultiplier(c)), k)})
             refused(c) == \/ hotness \/ equity <= 0 \/ ~ev.rewarding \/ CounterBlocks(ev) \/ base = 0
                           \/ TooCorrelated(c)
  <1>1. base \in Nat
    BY <1>0, DistanceFacts, SizeFacts
  <1>2. m \in 0..100 /\ CorrelationMultiplier(None) = 100 /\ ~TooCorrelated(None)
    BY <1>0, CorrelationFacts
  <1>3. k \in 0..100
    BY <1>0, PenaltyFacts DEF CounterMultiplier
  <1>4. MaxShares \in Nat \ {0}
    BY DecisionAssumption
  <1>5. /\ size = IF refused(correlation) THEN 0 ELSE granted(correlation)
        /\ RiskSize(equity, hotness, ev, None) = IF refused(None) THEN 0 ELSE granted(None)
    BY <1>0 DEF RiskSize
  <1>6. refused(None) => refused(correlation)
    BY <1>2
  <1>7. ASSUME base # 0
        PROVE  /\ granted(correlation) \in 1..base /\ granted(None) \in 1..base
               /\ granted(correlation) <= granted(None)
    <2>1. base \in Nat \ {0} /\ 100 \in 0..100 /\ MaxShares \in Int
      BY <1>1, <1>4, <1>7
    <2>2. PICK n : n = Scaled(base, m)
      OBVIOUS
    <2>3. n \in 1..base /\ Scaled(base, 100) = base
      BY <1>2, <2>1, <2>2, ScaledFacts
    <2>4. n \in Nat \ {0} /\ base \in Nat /\ n <= base
      BY <2>1, <2>3
    <2>5. PICK a, b : a = Scaled(n, k) /\ b = Scaled(base, k)
      OBVIOUS
    <2>6. a \in 1..n /\ b \in 1..base
      BY <1>3, <2>1, <2>4, <2>5, ScaledFacts
    <2>7. a <= b
      BY <1>3, <2>4, <2>5, ScaledGrows
    <2>8. a \in Int /\ b \in Int
      BY <2>4, <2>6
    <2>9. /\ Min({MaxShares, a}) \in {MaxShares, a} /\ Min({MaxShares, a}) <= MaxShares
          /\ Min({MaxShares, a}) <= a
          /\ Min({MaxShares, b}) \in {MaxShares, b} /\ Min({MaxShares, b}) <= b
      BY <2>1, <2>8, MinOfTwo
    <2>10. granted(correlation) = Min({MaxShares, a}) /\ granted(None) = Min({MaxShares, b})
      BY <1>0, <1>2, <2>2, <2>3, <2>5
    <2> HIDE DEF granted
    <2> QED BY <1>4, <2>4, <2>6, <2>7, <2>9, <2>10
  <1> HIDE DEF granted
  <1>8. refused(correlation) => size = 0
    BY <1>5
  <1>9. ~refused(correlation) => base # 0 /\ ~refused(None) /\ ~hotness
    BY <1>6
  <1>10. refused(None) => RiskSize(equity, hotness, ev, None) = 0
    BY <1>5
  <1>11. ~refused(None) => RiskSize(equity, hotness, ev, None) = granted(None) /\ base # 0
    BY <1>5
  <1>12. ~refused(correlation) => size = granted(correlation)
    BY <1>5
  <1> HIDE DEF refused
  <1>13. CASE refused(correlation)
    <2>1. RiskSize(equity, hotness, ev, None) \in Nat
      BY <1>1, <1>7, <1>10, <1>11
    <2> QED BY <1>1, <1>8, <1>0, <1>13, <2>1
  <1>14. CASE ~refused(correlation)
    BY <1>1, <1>7, <1>9, <1>11, <1>0, <1>12, <1>14
  <1> QED BY <1>13, <1>14

LEMMA FinalFacts ==
    ASSUME NEW ev \in Evidence, NEW size \in Nat \ {0}
    PROVE  FinalSize(size, ev) \in 1..size
  <1>1. YellowShare \in 0..100 /\ PolicyMultiplier \in 0..100 /\ ev.allocation \in 0..100 /\ 50 \in 0..100
    BY DecisionAssumption, EvidenceFacts
  <1>2. ASSUME NEW n \in 1..size, NEW m \in 0..100
        PROVE  Scaled(n, m) \in 1..size
    <2>1. n \in Nat \ {0} /\ m \in 0..100 /\ n <= size
      BY <1>2
    <2>2. Scaled(n, m) \in 1..n
      BY <2>1, ScaledFacts
    <2> QED BY <2>1, <2>2
  <1>3. PICK full : full = IF ev.allocation < 100 THEN Scaled(size, ev.allocation) ELSE size
    OBVIOUS
  <1>4. PICK yellow : yellow = IF Quality(ev) # "GREEN" THEN Scaled(full, YellowShare) ELSE full
    OBVIOUS
  <1>5. PICK half : half = IF HalfSize(ev) THEN Scaled(yellow, 50) ELSE yellow
    OBVIOUS
  <1>6. FinalSize(size, ev) = IF PolicyApplies(ev) THEN Scaled(half, PolicyMultiplier) ELSE half
    BY <1>3, <1>4, <1>5 DEF FinalSize
  <1>7. full \in 1..size
    <2>1. size \in 1..size /\ ev.allocation \in 0..100
      BY <1>1
    <2>2. Scaled(size, ev.allocation) \in 1..size
      BY <1>2, <2>1
    <2> QED BY <1>3, <2>1, <2>2
  <1>8. yellow \in 1..size
    BY <1>1, <1>2, <1>4, <1>7
  <1>9. half \in 1..size
    BY <1>1, <1>2, <1>5, <1>8
  <1> QED BY <1>1, <1>2, <1>6, <1>9

-----------------------------------------------------------------------------
(* The portfolio and the broker                                            *)

HeldPositions == [Tickers -> Position \cup {None}]

LEMMA SharesFacts ==
    ASSUME NEW p \in HeldPositions
    PROVE  Shares(p) \in [Tickers -> Nat] /\ \A t \in Tickers : Shares(p)[t] = 0 <=> p[t] = None
  BY NoneAssumption DEF Shares, HeldPositions, Position

LEMMA PriceFacts ==
    /\ Price \in Nat /\ Slippage \in Nat /\ Fee \in Nat /\ FillPrice \in Nat
    /\ \A q \in Nat : Cost(q) \in Nat /\ Cost(q) = Price * q + q * Slippage + Fee
  <1>1. Price \in Nat /\ Slippage \in Nat /\ Fee \in Nat
    BY DecisionAssumption, PipelineAssumption
  <1>2. PICK p, w \in Nat : p = Price /\ w = Slippage
    BY <1>1
  <1>3. FillPrice \in Nat /\ FillPrice = p + w
    BY <1>2 DEF FillPrice
  <1>4. ASSUME NEW q \in Nat
        PROVE  Cost(q) \in Nat /\ Cost(q) = Price * q + q * Slippage + Fee
    <2>1. (p + w) * q = p * q + q * w /\ p * q \in Nat /\ q * w \in Nat
      BY <1>2
    <2> QED BY <1>1, <1>2, <1>3, <2>1 DEF Cost
  <1> QED BY <1>1, <1>3, <1>4

LEMMA ValueFacts ==
    ASSUME NEW s \in [Tickers -> Nat], NEW S \in SUBSET Tickers
    PROVE  /\ Sum(s, S) \in Nat /\ IsFiniteSet(S)
           /\ Value(s, S) = FillPrice * Sum(s, S) /\ Value(s, S) \in Nat
  <1>1. IsFiniteSet(S)
    BY FramesAssumption, FS_Subset
  <1>2. Sum(s, S) \in Nat
    BY <1>1, SumType
  <1>3. Value(s, S) = FillPrice * Sum(s, S)
    BY DEF Value, Count, Sum
  <1>4. PICK n \in Nat : n = Sum(s, S)
    BY <1>2
  <1>5. FillPrice * n \in Nat
    BY <1>4, PriceFacts
  <1> QED BY <1>1, <1>2, <1>3, <1>4, <1>5

LEMMA FromBrokerFacts ==
    ASSUME held \in HeldPositions, NEW shares \in [Tickers -> Nat], NEW ev \in Evidence
    PROVE  /\ FromBroker(shares, ev) \in HeldPositions
           /\ Shares(FromBroker(shares, ev)) = shares
  <1> DEFINE anew == FromBroker(shares, ev)
             stop(t) == IF held[t] # None THEN held[t].stop ELSE ev.stop
             at(t) == IF shares[t] = 0 THEN None ELSE [qty |-> shares[t], stop |-> stop(t)]
  <1>1. anew = [t \in Tickers |-> at(t)]
    BY DEF FromBroker
  <1>2. ASSUME NEW t \in Tickers
        PROVE  /\ at(t) \in Position \cup {None}
               /\ (IF at(t) = None THEN 0 ELSE at(t).qty) = shares[t]
    <2>1. stop(t) \in 1..Price
      BY FramesAssumption DEF HeldPositions, Position
    <2> HIDE DEF stop
    <2>2. CASE shares[t] = 0
      BY <2>2
    <2>3. CASE shares[t] # 0
      <3>1. PICK p : p = [qty |-> shares[t], stop |-> stop(t)]
        OBVIOUS
      <3>2. p \in Position /\ p.qty = shares[t]
        BY <2>1, <2>3, <3>1 DEF Position
      <3> QED BY <2>3, <3>1, <3>2, NoneAssumption
    <2> QED BY <2>2, <2>3
  <1> HIDE DEF at
  <1>3. anew \in HeldPositions
    BY <1>1, <1>2 DEF HeldPositions
  <1>4. \A t \in Tickers : anew[t] = at(t)
    BY <1>1
  <1>5. Shares(anew) = shares
    BY <1>2, <1>4 DEF Shares
  <1> QED BY <1>3, <1>5

PipeTypes ==
    /\ TypeOK
    /\ broker \in [cash : Nat, shares : [Tickers -> Nat]]
    /\ orders <= MaxDailyOrders

LEMMA EquityFacts ==
    ASSUME PipeTypes
    PROVE  /\ held \in HeldPositions /\ cash \in Nat /\ Equity \in Nat
           /\ Shares(held) \in [Tickers -> Nat]
           /\ broker.cash \in Nat /\ broker.shares \in [Tickers -> Nat]
  <1>1. held \in HeldPositions /\ cash \in Nat /\ broker.cash \in Nat /\ broker.shares \in [Tickers -> Nat]
    BY DEF PipeTypes, TypeOK, HeldPositions
  <1>2. Shares(held) \in [Tickers -> Nat] /\ Value(Shares(held), Tickers) \in Nat
    BY <1>1, SharesFacts, ValueFacts
  <1> QED BY <1>1, <1>2 DEF Equity

-----------------------------------------------------------------------------
(* What is decided is what is submitted                                    *)

\* All that the gates have seen of an order of q shares.
Passed(t, ev, q) ==
    /\ t \notin open /\ ~hot /\ orders < MaxDailyOrders
    /\ Cost(q) <= broker.cash
    /\ ~SectorFull(t, Price * q)
    /\ q <= SizeAt(Equity, Distance(ev))

LEMMA DecidedFacts ==
    ASSUME PipeTypes, NEW t \in Tickers, NEW c \in Cases, NEW q, q = Decided(t, c)
    PROVE  /\ c.ev \in Evidence /\ q \in Nat
           /\ q # 0 => Passed(t, c.ev, q)
           /\ Submitted(t, c.ev, q) = q
  <1>1. c.ev \in Evidence
    BY DEF Cases
  <1>2. PICK corr, size, final :
          /\ corr = Correlation(t, c.ev) /\ size = RiskSize(Equity, hot, c.ev, corr)
          /\ final = FinalSize(size, c.ev)
    OBVIOUS
  <1>3. corr \in Int \cup {None}
    BY <1>1, <1>2, FramesAssumption DEF Correlation
  <1>4. PICK alone : alone = RiskSize(Equity, hot, c.ev, None)
    OBVIOUS
  <1>5. /\ size \in Nat /\ size <= SizeAt(Equity, Distance(c.ev))
        /\ alone \in Nat /\ size <= alone /\ (size > 0 => ~hot)
    BY <1>1, <1>2, <1>3, <1>4, EquityFacts, RiskFacts
  <1>6. SizeAt(Equity, Distance(c.ev)) \in Nat
    BY <1>1, EquityFacts, DistanceFacts, SizeFacts
  <1>7. size # 0 => final \in 1..size
    BY <1>1, <1>2, <1>5, FinalFacts
  <1>8. q = IF Shut(t) \/ ~c.accepted \/ c.ev.allocation = 0 THEN 0
            ELSE IF size = 0 \/ SectorFull(t, Price * final) \/ broker.cash < Cost(final)
                 THEN 0 ELSE final
    BY <1>2 DEF Decided
  <1>9. q # 0 => /\ q = final /\ size # 0 /\ ~Shut(t) /\ ~SectorFull(t, Price * final)
                 /\ ~(broker.cash < Cost(final))
    BY <1>8
  <1>10. q \in Nat /\ q <= alone
    BY <1>5, <1>7, <1>8
  <1>11. ASSUME q # 0 PROVE Passed(t, c.ev, q)
    <2>1. t \notin open /\ ~OrderLimitHit
      BY <1>9, <1>11 DEF Shut
    <2>2. orders < MaxDailyOrders
      BY <2>1, PipelineAssumption DEF OrderLimitHit, PipeTypes, TypeOK
    <2>3. Cost(q) <= broker.cash
      <3>1. PICK n \in Nat : n = Cost(q)
        BY <1>10, PriceFacts
      <3> QED BY <1>9, <1>11, <3>1, EquityFacts
    <2>4. q <= SizeAt(Equity, Distance(c.ev)) /\ ~hot
      BY <1>5, <1>6, <1>7, <1>9, <1>11
    <2> QED BY <1>9, <1>11, <2>1, <2>2, <2>3, <2>4 DEF Passed
  <1>12. Submitted(t, c.ev, q) = q
    <2>1. CASE t \in open
      BY <1>11, <2>1 DEF Submitted, Passed
    <2>2. CASE t \notin open
      <3>1. q \in Int /\ alone \in Int
        BY <1>5, <1>10
      <3>2. Min({q, alone}) \in {q, alone} /\ Min({q, alone}) <= q /\ Min({q, alone}) <= alone
        BY <3>1, MinOfTwo
      <3>3. Submitted(t, c.ev, q) = Min({q, alone})
        BY <1>4, <2>2 DEF Submitted
      <3> QED BY <1>10, <3>1, <3>2, <3>3
    <2> QED BY <2>1, <2>2
  <1> QED BY <1>1, <1>10, <1>11, <1>12

LEMMA TradeFacts ==
    ASSUME PipeTypes, NEW t \in Tickers, NEW c \in Cases, Trade(t, c)
    PROVE  \E q \in Nat :
             /\ c.ev \in Evidence
             /\ last' = IF q = 0 THEN None ELSE Order(t, c.ev, q, q)
             /\ q = 0 => UNCHANGED <<cash, held, broker, open, orders, exited, hot, faults>>
             /\ q # 0 => /\ Passed(t, c.ev, q) /\ broker' = Filled(t, q)
                         /\ Record(t, c.ev) \/ LoseRecord
  <1>1. PICK q : q = Decided(t, c)
    OBVIOUS
  <1>2. /\ c.ev \in Evidence /\ q \in Nat
        /\ q # 0 => Passed(t, c.ev, q)
        /\ Submitted(t, c.ev, q) = q
    BY <1>1, DecidedFacts
  <1>3. /\ last' = IF q = 0 THEN None ELSE Order(t, c.ev, q, q)
        /\ IF q = 0 THEN UNCHANGED <<cash, held, broker, open, orders, exited, hot, faults>>
           ELSE broker' = Filled(t, q) /\ (Record(t, c.ev) \/ LoseRecord)
    BY <1>1, <1>2 DEF Trade
  <1> QED BY <1>2, <1>3

LEMMA FilledFacts ==
    ASSUME PipeTypes, NEW t \in Tickers, NEW q \in Nat \ {0}, Cost(q) <= broker.cash
    PROVE  /\ Filled(t, q) \in [cash : Nat, shares : [Tickers -> Nat]]
           /\ Filled(t, q).shares = [broker.shares EXCEPT ![t] = broker.shares[t] + q]
           /\ Filled(t, q).cash = broker.cash - Cost(q)
  <1>1. PICK cost \in Nat : cost = Cost(q)
    BY PriceFacts
  <1>2. broker.cash \in Nat /\ broker.shares \in [Tickers -> Nat] /\ broker.cash - cost \in Nat
    BY <1>1, EquityFacts
  <1>3. Filled(t, q) = [cash |-> broker.cash - cost,
                        shares |-> [broker.shares EXCEPT ![t] = broker.shares[t] + q]]
    BY <1>1 DEF Filled
  <1> QED BY <1>1, <1>2, <1>3

-----------------------------------------------------------------------------
(* The invariant                                                           *)

\* The heat verdict of a trade run is of the portfolio as it is.
HeatRead == phase = "trade" => (hot <=> Hot(held, cash))

PipeInv == PipeTypes /\ OrderWithinBudget /\ DecisionStands /\ BrokerIsPortfolio /\ HeatRead

\* The paper broker of a run that begins.
LEMMA BeginFacts ==
    ASSUME PipeTypes
    PROVE  /\ [cash |-> cash, shares |-> Shares(held)] \in [cash : Nat, shares : [Tickers -> Nat]]
           /\ [cash |-> 0, shares |-> Flat] \in [cash : Nat, shares : [Tickers -> Nat]]
  BY EquityFacts DEF Flat

LEMMA PipeInit == Init => PipeInv
  <1> SUFFICES ASSUME Init PROVE PipeInv
    OBVIOUS
  <1>1. 0 \in 0..MaxTime /\ 0 \in 0..MaxSymbols /\ 0 \in 0..MaxFaults /\ 0 <= MaxDailyOrders /\ Cash \in Nat
    BY PipelineAssumption
  <1>2. file \in Seq([ticker : Tickers, at : Int, scan : Nat])
    <2>1. PICK row : row = [ticker |-> Yesterday, at |-> -MaxCandidateAge, scan |-> 0]
      OBVIOUS
    <2>2. -MaxCandidateAge \in Int /\ Yesterday \in Tickers
      BY PipelineAssumption
    <2>3. row \in [ticker : Tickers, at : Int, scan : Nat] /\ file = <<row>>
      BY <2>1, <2>2 DEF Init
    <2> QED BY <2>3
  <1>3. held \in [Tickers -> Position \cup {None}]
    BY DEF Init
  <1>4. broker \in [cash : Nat, shares : [Tickers -> Nat]]
    BY DEF Init, Flat
  <1>5. TypeOK
    BY <1>1, <1>2, <1>3, <1>4 DEF Init, TypeOK
  <1> QED BY <1>1, <1>4, <1>5
          DEF Init, PipeInv, PipeTypes, OrderWithinBudget, DecisionStands, BrokerIsPortfolio, HeatRead

\* A step that decides on no order, by what it leaves alone.
LEMMA NoOrder ==
    ASSUME PipeInv, PipeTypes', last' \in {last, None},
           phase' # "trade"
           \/ UNCHANGED <<phase, cash, held, broker, hot, faults, down>>
    PROVE  PipeInv'
  <1>1. OrderWithinBudget' /\ DecisionStands'
    <2>1. CASE last' = None
      BY <2>1 DEF OrderWithinBudget, DecisionStands
    <2>2. CASE last' = last
      BY <2>2 DEF PipeInv, OrderWithinBudget, DecisionStands
    <2> QED BY <2>1, <2>2
  <1>2. BrokerIsPortfolio' /\ HeatRead'
    <2>1. CASE phase' # "trade"
      BY <2>1 DEF BrokerIsPortfolio, HeatRead
    <2>2. CASE UNCHANGED <<phase, cash, held, broker, hot, faults, down>>
      BY <2>2 DEF PipeInv, BrokerIsPortfolio, HeatRead, Hot, Lost
    <2> QED BY <2>1, <2>2
  <1> QED BY <1>1, <1>2 DEF PipeInv

\* An order that passed keeps both shares of the equity, by the quote.
LEMMA BudgetFacts ==
    ASSUME PipeTypes, NEW t \in Tickers, NEW ev \in Evidence, NEW q \in Nat \ {0}, Passed(t, ev, q)
    PROVE  /\ q * Distance(ev) * 100 <= RiskShare * Equity
           /\ q * Price * 100 <= TickerShare * Equity
  <1>1. PICK d, e, size : d = Distance(ev) /\ e = Equity /\ size = SizeAt(e, d)
    OBVIOUS
  <1>2. d \in Nat \ {0} /\ e \in Nat /\ RiskShare \in Nat /\ TickerShare \in Nat /\ Price \in Nat
    BY <1>1, DistanceFacts, EquityFacts, DecisionAssumption
  <1>3. size \in Nat /\ size * d * 100 <= RiskShare * e /\ size * Price * 100 <= TickerShare * e
    BY <1>1, <1>2, SizeFacts
  <1>4. q <= size
    BY <1>1 DEF Passed
  <1>5. q * d <= size * d /\ q * Price <= size * Price
    BY <1>2, <1>3, <1>4
  <1>6. /\ q * d \in Nat /\ size * d \in Nat /\ q * Price \in Nat /\ size * Price \in Nat
        /\ RiskShare * e \in Nat /\ TickerShare * e \in Nat
    BY <1>2, <1>3
  <1> HIDE <1>2
  <1>7. q * d * 100 <= RiskShare * e
    BY <1>3, <1>5, <1>6
  <1>8. q * Price * 100 <= TickerShare * e
    BY <1>3, <1>5, <1>6
  <1> QED BY <1>1, <1>7, <1>8

LEMMA TradeStep ==
    ASSUME PipeInv, NEW t \in Tickers, NEW c \in Cases, Trade(t, c)
    PROVE  PipeInv'
  <1>1. PipeTypes /\ TypeOK
    BY PipelineAssumption DEF PipeInv, PipeTypes
  <1>2. PICK q \in Nat :
             /\ c.ev \in Evidence
             /\ last' = IF q = 0 THEN None ELSE Order(t, c.ev, q, q)
             /\ q = 0 => UNCHANGED <<cash, held, broker, open, orders, exited, hot, faults>>
             /\ q # 0 => /\ Passed(t, c.ev, q) /\ broker' = Filled(t, q)
                         /\ Record(t, c.ev) \/ LoseRecord
    BY <1>1, TradeFacts
  <1>3. /\ phase = "trade" /\ left > 0 /\ left' = left - 1
        /\ UNCHANGED <<now, phase, file, scan, lossHit, down>>
    BY DEF Trade
  <1>4. left' \in 0..MaxSymbols
    BY <1>1, <1>3, PipelineAssumption DEF TypeOK
  <1>5. CASE q = 0
    <2>1. PipeTypes'
      BY <1>1, <1>2, <1>3, <1>4, <1>5 DEF PipeTypes, TypeOK
    <2> QED BY <1>2, <1>3, <1>5, <2>1, NoOrder
  <1>6. CASE q # 0
    <2>1. Passed(t, c.ev, q) /\ broker' = Filled(t, q) /\ last' = Order(t, c.ev, q, q)
      BY <1>2, <1>6
    <2>2. broker' \in [cash : Nat, shares : [Tickers -> Nat]]
      BY <1>1, <1>6, <2>1, FilledFacts DEF Passed
    <2>3. broker'.cash \in Nat /\ broker'.shares \in [Tickers -> Nat]
      BY <2>2
    <2>4. OrderWithinBudget' /\ DecisionStands'
      <3>1. PICK o, e : o = Order(t, c.ev, q, q) /\ e = Equity
        OBVIOUS
      <3>2. /\ last' = o /\ o.filled = q /\ o.decided = q /\ o.ev = c.ev /\ o.equity = e
            /\ o.paid = Cost(q)
        BY <1>6, <2>1, <3>1 DEF Order
      <3>3. /\ q * Distance(c.ev) * 100 <= RiskShare * e
            /\ q * Price * 100 <= TickerShare * e
        BY <1>1, <1>2, <1>6, <2>1, <3>1, BudgetFacts
      <3>4. Cost(q) * 100 <= TickerShare * e + (q * Slippage + Fee) * 100
        <4>1. PICK a, b : a = q * Price /\ b = q * Slippage
          OBVIOUS
        <4>2. a \in Nat /\ b \in Nat /\ Price * q = a /\ Fee \in Nat
          BY <4>1, PriceFacts
        <4>3. PICK w \in Nat : w = TickerShare * e
          BY <1>1, <3>1, EquityFacts, DecisionAssumption
        <4>4. Cost(q) = a + b + Fee /\ a * 100 <= w
          BY <3>3, <4>1, <4>2, <4>3, PriceFacts
        <4>5. (a + b + Fee) * 100 <= w + (b + Fee) * 100
          BY <4>2, <4>3, <4>4
        <4> QED BY <4>1, <4>3, <4>4, <4>5
      <3> QED BY <3>2, <3>3, <3>4 DEF OrderWithinBudget, DecisionStands
    <2>5. CASE Record(t, c.ev)
      <3>1. /\ cash' = broker'.cash /\ held' = FromBroker(broker'.shares, c.ev)
            /\ open' = open \cup {t} /\ orders' = orders + 1 /\ exited' = {}
            /\ hot' = Hot(held', cash') /\ faults' = faults
        BY <2>5 DEF Record
      <3>2. held' \in HeldPositions /\ Shares(held') = broker'.shares
        BY <1>1, <1>2, <2>3, <3>1, EquityFacts, FromBrokerFacts
      <3>3. hot' \in BOOLEAN /\ (hot' <=> Hot(held', cash'))
        BY <3>1, Zenon DEF Hot
      <3>4. orders' \in Nat /\ orders' <= MaxDailyOrders
        BY <1>1, <2>1, <3>1, PipelineAssumption DEF Passed, TypeOK
      <3>5. TypeOK'
        BY <1>1, <1>3, <1>4, <2>3, <3>1, <3>2, <3>3, <3>4 DEF TypeOK, HeldPositions
      <3>6. broker' = [cash |-> cash', shares |-> Shares(held')]
        BY <2>2, <3>1, <3>2
      <3>7. HeatRead'
        BY <1>3, <3>1, <3>3 DEF HeatRead, Hot, Lost
      <3>8. BrokerIsPortfolio'
        BY <3>6 DEF BrokerIsPortfolio
      <3> QED BY <2>2, <2>4, <3>4, <3>5, <3>7, <3>8 DEF PipeInv, PipeTypes
    <2>6. CASE LoseRecord
      <3>1. /\ faults < MaxFaults /\ faults' = faults + 1 /\ orders' \in {orders, orders + 1}
            /\ UNCHANGED <<cash, held, open, hot, exited>>
        BY <2>6 DEF LoseRecord
      <3>2. /\ orders' \in Nat /\ orders' <= MaxDailyOrders
            /\ faults' \in 0..MaxFaults /\ faults' # 0
        <4>1. orders \in Nat /\ orders < MaxDailyOrders /\ faults \in 0..MaxFaults
          BY <1>1, <2>1 DEF Passed, TypeOK
        <4>2. MaxDailyOrders \in Nat /\ MaxFaults \in Nat
          BY PipelineAssumption
        <4>3. orders' \in Nat /\ orders' <= MaxDailyOrders
          BY <3>1, <4>1, <4>2
        <4>4. faults' \in 0..MaxFaults /\ faults' # 0
          BY <3>1, <4>1, <4>2
        <4> QED BY <4>3, <4>4
      <3>3. TypeOK'
        BY <1>1, <1>3, <1>4, <2>3, <3>1, <3>2 DEF TypeOK
      <3>4. HeatRead'
        BY <1>3, <3>1 DEF PipeInv, HeatRead, Hot, Lost
      <3> QED BY <2>2, <2>4, <3>2, <3>3, <3>4 DEF PipeInv, PipeTypes, BrokerIsPortfolio
    <2> QED BY <1>2, <1>6, <2>5, <2>6
  <1> QED BY <1>5, <1>6

LEMMA PipeStep == PipeInv /\ [Next]_vars => PipeInv'
  <1> SUFFICES ASSUME PipeInv, [Next]_vars PROVE PipeInv'
    OBVIOUS
  <1>0. /\ TypeOK /\ PipeTypes /\ broker \in [cash : Nat, shares : [Tickers -> Nat]]
        /\ orders <= MaxDailyOrders
    BY DEF PipeInv, PipeTypes
  <1>1. CASE BeginScan
    <2>1. file' \in Seq([ticker : Tickers, at : Int, scan : Nat]) /\ faults' \in 0..MaxFaults
      <3>1. CASE file' = <<>> /\ UNCHANGED faults
        BY <1>0, <3>1 DEF TypeOK
      <3>2. CASE file # <<>> /\ faults < MaxFaults /\ faults' = faults + 1 /\ UNCHANGED file
        <4>1. file' \in Seq([ticker : Tickers, at : Int, scan : Nat])
          BY <1>0, <3>2 DEF TypeOK
        <4>2. faults \in 0..MaxFaults /\ MaxFaults \in Nat
          BY <1>0, PipelineAssumption DEF TypeOK
        <4>3. faults' \in 0..MaxFaults
          BY <3>2, <4>2
        <4> QED BY <4>1, <4>3
      <3> QED BY <1>1, <3>1, <3>2 DEF BeginScan
    <2>2. hot' \in BOOLEAN
      BY <1>1, Zenon DEF BeginScan, Hot
    <2>3. scan' \in Nat /\ left' \in 0..MaxSymbols /\ open' \subseteq Tickers /\ phase' = "scan"
      BY <1>0, <1>1, PipelineAssumption DEF BeginScan, TypeOK, Held
    <2>4. UNCHANGED <<books, broker, market>> /\ last' = None
      BY <1>1 DEF BeginScan
    <2>5. PipeTypes'
      BY <1>0, <2>1, <2>2, <2>3, <2>4 DEF PipeTypes, TypeOK, books, market
    <2> QED BY <2>3, <2>4, <2>5, NoOrder
  <1>2. ASSUME NEW t \in Tickers, NEW c \in Cases, ScanSymbol(t, c) PROVE PipeInv'
    <2>1. /\ phase = "scan" /\ left > 0 /\ left' = left - 1 /\ Emit(t, c)
          /\ UNCHANGED <<phase, scan, hot, broker, books, market, faults, last>>
      BY <1>2 DEF ScanSymbol
    <2>2. /\ file' \in Seq([ticker : Tickers, at : Int, scan : Nat])
          /\ open' \subseteq Tickers
      <3>1. CASE Approves(t, c)
        <4>1. file' = Written(t, c.ev) /\ open' = open \cup {t}
          BY <2>1, <3>1 DEF Emit
        <4>2. now - c.ev.age \in Int /\ scan \in Nat
          <5>1. c.ev \in Evidence
            BY DEF Cases
          <5>2. c.ev.age \in Nat
            BY <5>1, FramesAssumption
          <5>3. now \in Int
            BY <1>0, PipelineAssumption DEF TypeOK
          <5> QED BY <1>0, <5>2, <5>3 DEF TypeOK
        <4>3. PICK row : row = [ticker |-> t, at |-> now - c.ev.age, scan |-> scan]
          OBVIOUS
        <4>4. row \in [ticker : Tickers, at : Int, scan : Nat] /\ file' = Append(file, row)
          BY <4>1, <4>2, <4>3 DEF Written
        <4> QED BY <1>0, <4>1, <4>4 DEF TypeOK
      <3>2. CASE ~Approves(t, c)
        BY <1>0, <2>1, <3>2 DEF Emit, TypeOK
      <3> QED BY <3>1, <3>2
    <2>3. left' \in 0..MaxSymbols
      BY <1>0, <2>1, PipelineAssumption DEF TypeOK
    <2>4. PipeTypes'
      BY <1>0, <2>1, <2>2, <2>3 DEF PipeTypes, TypeOK, books, market
    <2> QED BY <2>1, <2>4, NoOrder
  <1>3. CASE EndScan
    <2>1. /\ phase' = "idle" /\ left' = 0 /\ open' = {} /\ hot' = FALSE
          /\ UNCHANGED <<file, scan, broker, books, market, faults, last>>
      BY <1>3 DEF EndScan
    <2>2. left' \in 0..MaxSymbols /\ open' \subseteq Tickers /\ hot' \in BOOLEAN
      <3>1. left' \in 0..MaxSymbols
        BY <2>1, PipelineAssumption
      <3>2. open' \subseteq Tickers /\ hot' \in BOOLEAN
        BY <2>1, Zenon
      <3> QED BY <3>1, <3>2
    <2>3. PipeTypes'
      BY <1>0, <2>1, <2>2 DEF PipeTypes, TypeOK, books, market
    <2> QED BY <2>1, <2>3, NoOrder
  <1>4. CASE BeginTrade
    <2>1. /\ phase' = "trade" /\ left' = MaxSymbols
          /\ broker' = [cash |-> cash, shares |-> Shares(held)]
          /\ open' = Held /\ UNCHANGED <<file, scan, books, market, faults, last>>
      BY <1>4 DEF BeginTrade
    <2>2. hot' \in BOOLEAN /\ (hot' <=> Hot(held, cash))
      BY <1>4, Zenon DEF BeginTrade, Hot
    <2>3. broker' \in [cash : Nat, shares : [Tickers -> Nat]]
      BY <1>0, <2>1, BeginFacts
    <2>4. PipeTypes'
      <3>1. left' \in 0..MaxSymbols /\ open' \subseteq Tickers
        BY <2>1, PipelineAssumption DEF Held
      <3>2. broker'.cash \in Nat /\ broker'.shares \in [Tickers -> Nat]
        BY <2>3
      <3>3. TypeOK'
        BY <1>0, <2>1, <2>2, <3>1, <3>2 DEF TypeOK, books, market
      <3> QED BY <1>0, <2>1, <2>3, <3>3 DEF PipeTypes, books
    <2>5. HeatRead' /\ BrokerIsPortfolio'
      BY <2>1, <2>2 DEF HeatRead, BrokerIsPortfolio, Hot, Lost, books, market
    <2>6. OrderWithinBudget' /\ DecisionStands'
      BY <2>1 DEF PipeInv, OrderWithinBudget, DecisionStands
    <2> QED BY <2>4, <2>5, <2>6 DEF PipeInv
  <1>5. CASE EndTrade
    <2>1. /\ phase' = "idle" /\ left' = 0 /\ open' = {} /\ hot' = FALSE /\ last' = None
          /\ broker' = [cash |-> 0, shares |-> Flat]
          /\ UNCHANGED <<file, scan, books, market, faults>>
      BY <1>5 DEF EndTrade
    <2>2. broker' \in [cash : Nat, shares : [Tickers -> Nat]]
      BY <1>0, <2>1, BeginFacts
    <2>3. /\ left' \in 0..MaxSymbols /\ open' \subseteq Tickers /\ hot' \in BOOLEAN
          /\ broker'.cash \in Nat /\ broker'.shares \in [Tickers -> Nat]
      <3>1. left' \in 0..MaxSymbols
        BY <2>1, PipelineAssumption
      <3>2. open' \subseteq Tickers /\ hot' \in BOOLEAN
        BY <2>1, Zenon
      <3>3. broker'.cash \in Nat /\ broker'.shares \in [Tickers -> Nat]
        BY <2>2
      <3> QED BY <3>1, <3>2, <3>3
    <2>4. PipeTypes'
      BY <1>0, <2>1, <2>2, <2>3 DEF PipeTypes, TypeOK, books, market
    <2> QED BY <2>1, <2>4, NoOrder
  <1>6. CASE Tick
    <2>1. /\ phase = "idle" /\ now < MaxTime /\ now' = now + 1 /\ exited' = {} /\ down' \subseteq Tickers
          /\ UNCHANGED <<phase, left, file, scan, broker, books, open, hot, faults, last>>
      BY <1>6 DEF Tick
    <2>2. PipeTypes'
      <3>1. now' \in 0..MaxTime
        BY <1>0, <2>1, PipelineAssumption DEF TypeOK
      <3>2. {open', exited', down'} \subseteq SUBSET Tickers
        BY <1>0, <2>1 DEF TypeOK
      <3>3. TypeOK'
        BY <1>0, <2>1, <3>1, <3>2 DEF TypeOK, books
      <3> QED BY <1>0, <2>1, <3>3 DEF PipeTypes, books
    <2> QED BY <2>1, <2>2, NoOrder
  <1>7. ASSUME NEW t \in Tickers, Exit(t) PROVE PipeInv'
    <2>1. /\ phase = "idle" /\ held[t] # None /\ held' = [held EXCEPT ![t] = None]
          /\ cash' = cash + (held[t].qty
                              * (Price - (IF t \in down THEN held[t].stop ELSE 0) - Slippage) - Fee)
          /\ cash' >= 0
          /\ exited' = exited \cup {t} /\ lossHit' \in {lossHit, TRUE}
          /\ UNCHANGED <<now, phase, left, file, scan, broker, open, hot, orders, down, faults, last>>
      BY <1>7 DEF Exit, Held
    <2>2. cash' \in Nat
      <3>1. PICK n, gain :
                 /\ n = held[t].qty
                 /\ gain = Price - (IF t \in down THEN held[t].stop ELSE 0) - Slippage
        OBVIOUS
      <3>2. held[t] \in Position
        BY <1>0, <2>1 DEF TypeOK
      <3>3. n \in Int /\ gain \in Int
        BY <3>1, <3>2, PriceFacts DEF Position
      <3>4. n * gain \in Int /\ cash \in Int /\ Fee \in Int
        BY <1>0, <3>3, PriceFacts DEF TypeOK
      <3>5. cash + (n * gain - Fee) \in Int
        BY <3>4
      <3>6. cash' = cash + (n * gain - Fee) /\ cash' >= 0
        BY <2>1, <3>1
      <3> QED BY <3>5, <3>6
    <2>3. lossHit' \in BOOLEAN
      BY <1>0, <2>1 DEF TypeOK
    <2>4. PipeTypes'
      BY <1>0, <2>1, <2>2, <2>3 DEF PipeTypes, TypeOK
    <2> QED BY <2>1, <2>4, NoOrder
  <1>8. CASE UNCHANGED vars
    <2>1. PipeTypes'
      BY <1>0, <1>8 DEF vars, PipeTypes, TypeOK
    <2> QED BY <1>8, <2>1, NoOrder DEF vars
  <1> QED BY <1>1, <1>2, <1>3, <1>4, <1>5, <1>6, <1>7, <1>8, TradeStep DEF Next

-----------------------------------------------------------------------------
(* The limits                                                              *)

WithinLimits ==
    /\ \A t \in Bought : SectorHeld(t)
    /\ Bought # {} => ~Hot(held, cash)
    /\ orders' <= MaxDailyOrders

\* What is held of a sector, when the shares of t are added to none.
LEMMA SectorSum ==
    ASSUME NEW s \in [Tickers -> Nat], NEW S \in SUBSET Tickers, NEW t \in S, s[t] = 0,
           NEW g \in [Tickers -> Nat], \A u \in S \ {t} : g[u] = s[u]
    PROVE  Sum(g, S) = Sum(s, S) + g[t]
  <1>1. \A u \in S : g[u] \in Nat /\ s[u] \in Nat
    OBVIOUS
  <1>2. IsFiniteSet(S) /\ IsFiniteSet(S \ {t})
    BY ValueFacts, FS_Subset
  <1>3. Sum(g, S \ {t}) = Sum(s, S \ {t}) /\ Sum(s, S \ {t}) \in Nat
    BY <1>1, <1>2, SumEqual, SumType
  <1>4. Sum(g, S) = g[t] + Sum(g, S \ {t}) /\ Sum(s, S) = s[t] + Sum(s, S \ {t})
    <2>1. Sum(g, S) = g[t] + Sum(g, S \ {t})
      BY <1>1, <1>2, SumElement
    <2>2. Sum(s, S) = s[t] + Sum(s, S \ {t})
      BY <1>1, <1>2, SumElement
    <2> QED BY <2>1, <2>2
  <1> QED BY <1>1, <1>3, <1>4

\* An order that passed leaves its sector within its share, but for its slippage.
LEMMA SectorFacts ==
    ASSUME PipeTypes, TickerShare <= SectorShare, NEW t \in Tickers, NEW ev \in Evidence,
           NEW q \in Nat \ {0}, Passed(t, ev, q), broker.cash = cash,
           held[t] = None, SectorOf[t] # None,
           NEW peers, peers = {u \in Tickers : SectorOf[u] = SectorOf[t]}
    PROVE  Value([Shares(held) EXCEPT ![t] = q], peers) * 100 <=
               SectorShare * Equity + q * Slippage * 100
  <1>1. PICK s \in [Tickers -> Nat] :
             s = Shares(held) /\ \A u \in Tickers : s[u] = 0 <=> held[u] = None
    BY EquityFacts, SharesFacts
  <1>2. PICK s2 \in [Tickers -> Nat] : s2 = [s EXCEPT ![t] = q]
    OBVIOUS
  <1>3. PICK e \in Nat : e = Equity /\ e = cash + Value(s, Tickers)
    BY <1>1, EquityFacts DEF Equity
  <1>4. PICK all, own : all = Sum(s, Tickers) /\ own = Sum(s, peers)
    OBVIOUS
  <1>5. /\ all \in Nat /\ own \in Nat /\ Value(s, Tickers) = FillPrice * all
        /\ Value(s, peers) = FillPrice * own /\ Value(s2, peers) = FillPrice * Sum(s2, peers)
    <2>1. Tickers \in SUBSET Tickers /\ peers \in SUBSET Tickers
      OBVIOUS
    <2> QED BY <1>4, <2>1, ValueFacts
  <1>6. Sum(s2, peers) = own + q
    <2>1. /\ peers \in SUBSET Tickers /\ t \in peers /\ s[t] = 0 /\ s2[t] = q
          /\ \A u \in peers \ {t} : s2[u] = s[u]
      BY <1>1, <1>2
    <2>2. Sum(s2, peers) = Sum(s, peers) + q
      BY <2>1, SectorSum
    <2> QED BY <1>4, <2>2
  <1>7. own <= all
    <2>1. Tickers \cap peers = peers /\ IsFiniteSet(Tickers)
      BY FramesAssumption
    <2>2. Sum(s, Tickers \cap peers) <= Sum(s, Tickers)
      BY <2>1, SumWithin
    <2> QED BY <1>4, <2>1, <2>2
  <1>8. Value(s, {u \in Held : SectorOf[u] = SectorOf[t]}) = FillPrice * own
    <2>1. PICK part : part = {u \in Held : SectorOf[u] = SectorOf[t]}
      OBVIOUS
    <2>2. part \in SUBSET Tickers /\ part = peers \cap Held /\ IsFiniteSet(peers)
          /\ peers \in SUBSET Tickers
      BY <2>1, ValueFacts DEF Held
    <2>3. (\A x \in peers : s[x] \in Nat) /\ (\A x \in peers \ Held : s[x] = 0)
      BY <1>1 DEF Held
    <2>4. Sum(s, part) = own
      BY <1>4, <2>2, <2>3, SumWithin
    <2>5. Value(s, part) = FillPrice * Sum(s, part)
      BY <2>2, ValueFacts
    <2> QED BY <2>1, <2>4, <2>5
  <1>9. /\ Price \in Nat /\ Fee \in Nat /\ cash \in Nat
        /\ SectorShare \in 0..100 /\ TickerShare \in 0..100
    BY EquityFacts, DecisionAssumption, PipelineAssumption
  <1>10. PICK a, b, w, slip :
              a = FillPrice * own /\ b = Price * q /\ w = FillPrice * all /\ slip = q * Slippage
    OBVIOUS
  <1>11. /\ a \in Nat /\ b \in Nat /\ w \in Nat /\ slip \in Nat /\ a <= w
         /\ FillPrice * (own + q) = a + b + slip
    <2>1. PICK f \in Nat : f = FillPrice
      BY PriceFacts
    <2>2. f * (own + q) = f * own + f * q /\ f * own <= f * all /\ f * own \in Nat /\ f * all \in Nat
      BY <1>5, <1>7
    <2>3. f * q = b + slip /\ b \in Nat /\ slip \in Nat
      <3>1. PICK p, m \in Nat : p = Price /\ m = Slippage
        BY PriceFacts
      <3>2. (p + m) * q = p * q + q * m /\ p * q \in Nat /\ q * m \in Nat
        BY <3>1
      <3> QED BY <1>10, <2>1, <3>1, <3>2 DEF FillPrice
    <2> QED BY <1>10, <2>1, <2>2, <2>3
  <1>12. e = cash + w /\ b + slip + Fee <= cash /\ Value(s2, peers) = a + b + slip
    <2>1. e = cash + w /\ Value(s2, peers) = a + b + slip
      BY <1>3, <1>5, <1>6, <1>10, <1>11
    <2>2. Cost(q) = b + slip + Fee /\ Cost(q) <= cash
      BY <1>10, PriceFacts DEF Passed
    <2> QED BY <2>1, <2>2
  <1>13. CASE SectorShare = 100
    <2>1. (a + b + slip) * 100 <= 100 * e + slip * 100
      BY <1>3, <1>9, <1>11, <1>12
    <2> QED BY <1>1, <1>2, <1>3, <1>10, <1>12, <1>13, <2>1
  <1>14. CASE Held = {}
    <2>1. own = 0
      <3>1. peers \in SUBSET Tickers /\ IsFiniteSet(peers) /\ \A x \in peers \ {} : s[x] = 0
        BY <1>1, <1>14, ValueFacts DEF Held
      <3>2. \A x \in peers : s[x] \in Nat
        OBVIOUS
      <3>3. Sum(s, peers \cap {}) = Sum(s, peers)
        BY <3>1, <3>2, SumWithin
      <3>4. Sum(s, {}) = 0 /\ peers \cap {} = {}
        BY SumRow, FS_EmptySet
      <3> QED BY <1>4, <3>3, <3>4
    <2>2. q * Price * 100 <= TickerShare * e
      BY <1>3, BudgetFacts
    <2>3. TickerShare * e <= SectorShare * e /\ TickerShare * e \in Nat /\ SectorShare * e \in Nat
      BY <1>9
    <2>4. a = 0 /\ b = q * Price
      <3>1. PICK f \in Nat : f = FillPrice
        BY PriceFacts
      <3>2. f * 0 = 0
        BY <3>1
      <3> QED BY <1>9, <1>10, <2>1, <3>1, <3>2
    <2>5. (a + b + slip) * 100 <= SectorShare * e + slip * 100
      BY <1>11, <2>2, <2>3, <2>4
    <2> QED BY <1>1, <1>2, <1>3, <1>10, <1>12, <2>5
  <1>15. CASE SectorShare < 100 /\ Held # {}
    <2>1. ~((Value(Shares(held), {u \in Held : SectorOf[u] = SectorOf[t]}) + Price * q) * 100
            > SectorShare * Equity)
      BY <1>15 DEF Passed, SectorFull
    <2>2. ~((a + b) * 100 > SectorShare * e)
      BY <1>1, <1>3, <1>8, <1>10, <2>1
    <2>3. (a + b) * 100 \in Nat /\ SectorShare * e \in Nat
      BY <1>9, <1>11
    <2>4. (a + b + slip) * 100 <= SectorShare * e + slip * 100
      BY <1>11, <2>2, <2>3
    <2> QED BY <1>1, <1>2, <1>3, <1>10, <1>12, <2>4
  <1> QED BY <1>9, <1>13, <1>14, <1>15

LEMMA TradeLimits ==
    ASSUME PipeInv, TickerShare <= SectorShare, NEW t \in Tickers, NEW c \in Cases, Trade(t, c)
    PROVE  Bought # {} => ~Hot(held, cash) /\ \A u \in Bought : SectorHeld(u)
  <1> SUFFICES ASSUME Bought # {} PROVE ~Hot(held, cash) /\ \A u \in Bought : SectorHeld(u)
    OBVIOUS
  <1>1. PipeTypes /\ phase = "trade"
    BY DEF PipeInv, Trade
  <1>2. PICK q \in Nat :
             /\ c.ev \in Evidence
             /\ q = 0 => held' = held
             /\ q # 0 => /\ Passed(t, c.ev, q) /\ broker' = Filled(t, q)
                         /\ Record(t, c.ev) \/ LoseRecord
    BY <1>1, TradeFacts
  <1>3. held' # held
    BY DEF Bought
  <1>4. /\ q # 0 /\ Passed(t, c.ev, q) /\ broker' = Filled(t, q)
        /\ held' = FromBroker(broker'.shares, c.ev) /\ faults' = faults
    BY <1>2, <1>3 DEF Record, LoseRecord
  <1>5. ~Hot(held, cash)
    BY <1>1, <1>4 DEF PipeInv, HeatRead, Passed
  <1>6. ASSUME NEW u \in Bought, faults' = 0, SectorOf[u] # None,
               NEW peers, peers = {x \in Tickers : SectorOf[x] = SectorOf[u]}
        PROVE  Value(Shares(held'), peers) * 100 <=
                   SectorShare * Equity + held'[u].qty * Slippage * 100
    <2>1. broker = [cash |-> cash, shares |-> Shares(held)]
      BY <1>1, <1>4, <1>6 DEF PipeInv, BrokerIsPortfolio
    <2>2. PICK s \in [Tickers -> Nat] :
               s = Shares(held) /\ \A x \in Tickers : s[x] = 0 <=> held[x] = None
      BY <1>1, EquityFacts, SharesFacts
    <2>3. broker.cash = cash /\ broker.shares = s
      BY <2>1, <2>2
    <2>4. broker'.shares = [s EXCEPT ![t] = s[t] + q]
      BY <1>1, <1>2, <1>4, <2>3, FilledFacts DEF Passed
    <2>5. broker'.shares \in [Tickers -> Nat]
      BY <1>2, <2>4
    <2>6. held' \in HeldPositions /\ Shares(held') = broker'.shares
      BY <1>1, <1>2, <1>4, <2>5, EquityFacts, FromBrokerFacts
    <2>7. \A x \in Tickers : broker'.shares[x] = 0 <=> held'[x] = None
      <3>1. PICK p : p = held'
        OBVIOUS
      <3>2. p \in HeldPositions /\ Shares(p) = broker'.shares
        BY <2>6, <3>1
      <3>3. \A x \in Tickers : broker'.shares[x] = 0 <=> p[x] = None
        BY <3>2, SharesFacts
      <3> QED BY <3>1, <3>3
    <2>8. u \in Tickers /\ held[u] = None /\ held'[u] # None
      BY DEF Bought
    <2>9. u = t /\ s[t] = 0
      BY <2>2, <2>4, <2>7, <2>8
    <2>10. Shares(held') = [Shares(held) EXCEPT ![t] = q]
      <3>1. s[t] + q = q
        BY <1>2, <2>9
      <3> QED BY <2>2, <2>4, <2>6, <3>1
    <2>11. Value([Shares(held) EXCEPT ![t] = q], peers) * 100 <=
               SectorShare * Equity + q * Slippage * 100
      BY <1>1, <1>2, <1>4, <1>6, <2>3, <2>8, <2>9, SectorFacts
    <2>12. held'[u].qty = q
      <3>1. PICK p : p = held'
        OBVIOUS
      <3>2. p[u] # None /\ Shares(p) = broker'.shares /\ u \in Tickers
        BY <2>6, <2>8, <3>1
      <3>3. Shares(p)[u] = p[u].qty
        BY <3>2 DEF Shares
      <3>4. broker'.shares[u] = q
        BY <1>2, <2>2, <2>4, <2>9
      <3> QED BY <3>1, <3>2, <3>3, <3>4
    <2> QED BY <2>10, <2>11, <2>12
  <1>7. \A u \in Bought : SectorHeld(u)
    BY <1>6 DEF SectorHeld
  <1> QED BY <1>5, <1>7

LEMMA LimitsStep ==
    ASSUME TickerShare <= SectorShare, PipeInv, [Next]_vars
    PROVE  WithinLimits
  <1>1. orders' <= MaxDailyOrders
    BY PipeStep DEF PipeInv, PipeTypes
  <1>2. Bought # {} => ~Hot(held, cash) /\ \A u \in Bought : SectorHeld(u)
    <2>1. CASE held' = held
      BY <2>1 DEF Bought
    <2>2. ASSUME NEW t \in Tickers, Exit(t) PROVE Bought = {}
      <3>1. held' = [held EXCEPT ![t] = None] /\ held \in [Tickers -> Position \cup {None}]
        BY <2>2 DEF Exit, PipeInv, PipeTypes, TypeOK
      <3> QED BY <3>1 DEF Bought
    <2>3. ASSUME NEW t \in Tickers, NEW c \in Cases, Trade(t, c)
          PROVE  Bought # {} => ~Hot(held, cash) /\ \A u \in Bought : SectorHeld(u)
      BY <2>3, TradeLimits
    <2>4. ASSUME NEW t \in Tickers, NEW c \in Cases, ScanSymbol(t, c) PROVE held' = held
      BY <2>4 DEF ScanSymbol, books
    <2>5. BeginScan \/ EndScan \/ BeginTrade \/ EndTrade \/ Tick \/ UNCHANGED vars => held' = held
      BY DEF BeginScan, EndScan, BeginTrade, EndTrade, Tick, vars, books
    <2> QED BY <2>1, <2>2, <2>3, <2>4, <2>5 DEF Next
  <1> QED BY <1>1, <1>2 DEF WithinLimits

-----------------------------------------------------------------------------
(* The theorems                                                            *)

\* Whatever scans, trade runs and exits follow one another, cash, shares and the
\* number of the day's BUY rows stay what portfolio.json may hold.
THEOREM PipelineTypes == Spec => []TypeOK
  <1>1. PipeInv => TypeOK
    BY DEF PipeInv, PipeTypes
  <1> QED BY <1>1, PipeInit, PipeStep, PTL DEF Spec

\* An order risks no more than its share of the equity, and ties up no more than
\* one ticker may and its slippage and fee besides (risk_manager.evaluate_signal),
\* through all that rounds its size up to a share.
THEOREM OrdersStayWithinBudget == Spec => []OrderWithinBudget
  <1>1. PipeInv => OrderWithinBudget
    BY DEF PipeInv
  <1> QED BY <1>1, PipeInit, PipeStep, PTL DEF Spec

\* submit_signal_as_order, which sizes the order again, fills what the gates of
\* run_paper_trade approved.
THEOREM ApprovedIsFilled == Spec => []DecisionStands
  <1>1. PipeInv => DecisionStands
    BY DEF PipeInv
  <1> QED BY <1>1, PipeInit, PipeStep, PTL DEF Spec

\* The portfolio rebuilt from the paper broker after each fill is the broker's, and
\* the broker built from it at the start of a run is the portfolio's.
THEOREM BrokerFollowsPortfolio == Spec => []BrokerIsPortfolio
  <1>1. PipeInv => BrokerIsPortfolio
    BY DEF PipeInv
  <1> QED BY <1>1, PipeInit, PipeStep, PTL DEF Spec

\* The limits of a run hold through all its fills, that of the sector but for the
\* slippage of the last fill, if one ticker may have no more than its sector: the
\* first position of a portfolio is not asked for its sector.
THEOREM LimitsStayHeld ==
    ASSUME TickerShare <= SectorShare
    PROVE  Spec => LimitsHeld
  <1>1. PipeInv /\ [Next]_vars => [WithinLimits]_vars
    BY LimitsStep
  <1> QED BY <1>1, PipeInit, PipeStep, PTL DEF Spec, LimitsHeld, WithinLimits
=============================================================================
