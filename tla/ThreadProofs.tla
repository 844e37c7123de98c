---------------------------- MODULE ThreadProofs ----------------------------
(***************************************************************************)
(* Theorems about the two components whose steps are those of threads: the *)
(* event queue, for every number of producers and consumers, every bound   *)
(* of the queue and every set of order ids; and the worker swarm, for      *)
(* every preset, any data, every number of pool threads, retries and runs. *)
(***************************************************************************)
EXTENDS EventQueue, Swarm, SetSums

-----------------------------------------------------------------------------
(* Event queue: the inductive invariant                                    *)

\* What a thread has in its hand follows from where it is.
ProducerHand(p) ==
    /\ pc[p] \in {"idle", "accept", "insert"}
    /\ pc[p] = "idle" => hand[p] = None
    /\ pc[p] = "accept" => hand[p] \in Event
    /\ pc[p] = "insert" => hand[p] \in Entry
ConsumerHand(c) ==
    /\ pc[c] \in {"idle", "poll", "wait", "timed", "check", "release", "recheck", "late", "return"}
    /\ pc[c] \in {"idle", "poll", "wait", "timed"} => hand[c] = None
    /\ pc[c] \in {"check", "release", "recheck", "late", "return"} => hand[c] \in Entry
Hands ==
    /\ \A p \in Producers : ProducerHand(p)
    /\ \A c \in Consumers : ConsumerHand(c)
    /\ pc[Joiner] \in {"idle", "join", "drain"} /\ hand[Joiner] = None

\* The numbers of the accepted entries are all different and below the next one,
\* and every order id among them is known.
Accounted ==
    /\ IsFiniteSet(Accepted) /\ Cardinality(Accepted) = seq
    /\ \A e \in Accepted : e \in Entry /\ e.seq < seq
    /\ \A e \in Accepted : e.id # None => e.id \in known
    /\ \A e, f \in Accepted : e.id = f.id /\ e.id # None => e = f

\* Entries that left the heap: the latest of them is the one the time consumed is of.
Popped == delivered \cup dropped \cup ({hand[c] : c \in Consumers} \ {None})
Ordered ==
    /\ lastConsumed # None => \E f \in Popped : f.at = lastConsumed
    /\ \A c \in Consumers : At(c, "late") => lastConsumed # None /\ hand[c].at < lastConsumed
    /\ \A e \in dropped : \E f \in Popped : f.at > e.at

\* The types of TypeOK without the two bounds, which Accounted and Bounded give.
Types ==
    /\ heap \subseteq Entry /\ delivered \subseteq Entry /\ dropped \subseteq Entry
    /\ seq \in Nat /\ finished \in Nat
    /\ lastConsumed \in 0..MaxTime \cup {None}
    /\ known \subseteq OrderIds
    /\ poisoned \in BOOLEAN /\ joined \in BOOLEAN
    /\ pc \in [Threads -> Steps]
    /\ hand \in [Threads -> Event \cup Entry \cup {None}]
Base == Types /\ Hands
Bounded ==
    /\ IsFiniteSet(Accepting) /\ seq + Cardinality(Accepting) <= MaxPuts
    /\ MaxSize > 0 => Cardinality(heap) <= MaxSize

-----------------------------------------------------------------------------
(* Types and hands                                                         *)

LEMMA EntryFacts ==
    /\ \A e \in Event : e.at \in 0..MaxTime /\ e.id \in OrderIds \cup {None} /\ e # None
    /\ \A e \in Entry : e.at \in 0..MaxTime /\ e.seq \in Nat /\ e.id \in OrderIds \cup {None}
                        /\ e # None
    /\ \A e \in Event : seq \in Nat => Numbered(e) \in Entry
    /\ 0..MaxTime \subseteq Nat /\ None \notin 0..MaxTime
  BY QueueAssumption, NoEntryAssumption DEF Event, Entry, Numbered

LEMMA BaseInit == Init => Base
  <1> SUFFICES ASSUME Init PROVE Base
    OBVIOUS
  <1>1. poisoned \in BOOLEAN /\ joined \in BOOLEAN
    BY DEF Init
  <1>2. pc \in [Threads -> Steps] /\ hand \in [Threads -> Event \cup Entry \cup {None}]
    BY DEF Init, Steps
  <1> QED
    BY <1>1, <1>2, QueueAssumption
       DEF Init, Base, Types, Hands, ProducerHand, ConsumerHand, Threads

LEMMA BaseStep == Base /\ [Next]_vars => Base'
  <1> SUFFICES ASSUME Base, [Next]_vars PROVE Base'
    OBVIOUS
  <1> USE DEF Base, Types, Hands, ProducerHand, ConsumerHand, At, Goto, Ends, Takes
  <1>0. /\ Producers \subseteq Threads /\ Consumers \subseteq Threads /\ Joiner \in Threads
        /\ Producers \cap Consumers = {} /\ Joiner \notin Producers \cup Consumers
    BY QueueAssumption DEF Threads
  <1>1. ASSUME NEW p \in Producers, NEW e \in Event, NEW nowait \in BOOLEAN,
               BeginPut(p, e, nowait)
        PROVE  Base'
    BY <1>0, <1>1 DEF BeginPut, Steps, consumed
  <1>2. ASSUME NEW p \in Producers, Accept(p) PROVE Base'
    <2>1. hand[p] \in Event /\ Numbered(hand[p]) \in Entry
      BY <1>2, EntryFacts DEF Accept
    <2> QED BY <1>0, <1>2, <2>1, EntryFacts DEF Accept, Steps, consumed
  <1>3. ASSUME NEW p \in Producers, Insert(p) PROVE Base'
    BY <1>0, <1>3 DEF Insert, Steps, consumed
  <1>4. ASSUME NEW c \in Consumers, NEW how \in {"poll", "wait", "timed"}, BeginGet(c, how)
        PROVE  Base'
    BY <1>0, <1>4 DEF BeginGet, Steps, consumed
  <1>5. ASSUME NEW c \in Consumers, Starve(c) PROVE Base'
    BY <1>0, <1>5 DEF Starve, Steps, consumed
  <1>6. ASSUME NEW c \in Consumers, Pop(c) PROVE Base'
    BY <1>0, <1>6 DEF Pop, Steps, consumed
  <1>7. ASSUME NEW c \in Consumers, CheckTime(c) PROVE Base'
    BY <1>0, <1>7, EntryFacts DEF CheckTime, Steps
  <1>8. ASSUME NEW c \in Consumers, Release(c) PROVE Base'
    BY <1>0, <1>8 DEF Release, Steps
  <1>9. ASSUME NEW c \in Consumers, CheckTimeAgain(c) PROVE Base'
    BY <1>0, <1>9, EntryFacts DEF CheckTimeAgain, Steps
  <1>10. ASSUME NEW c \in Consumers, EndGet(c) PROVE Base'
    BY <1>0, <1>10 DEF EndGet, Steps
  <1>11. CASE Poison
    BY <1>11 DEF Poison, consumed
  <1>12. CASE BeginJoin
    BY <1>0, <1>12 DEF BeginJoin, Steps, consumed
  <1>13. CASE Join
    BY <1>0, <1>13 DEF Join, Steps
  <1>14. CASE Drain
    <2>1. finished' \in Nat
      BY <1>14 DEF Drain
    <2>2. joined' \in BOOLEAN
      BY <1>14 DEF Drain
    <2>3. pc' \in [Threads -> Steps]
      BY <1>0, <1>14 DEF Drain, Steps
    <2> QED BY <1>0, <1>14, <2>1, <2>2, <2>3 DEF Drain
  <1>15. CASE UNCHANGED vars
    BY <1>15 DEF vars
  <1> HIDE DEF Base, Types, Hands, ProducerHand, ConsumerHand, At, Goto, Ends, Takes
  <1> QED
    BY <1>1, <1>2, <1>3, <1>4, <1>5, <1>6, <1>7, <1>8, <1>9, <1>10, <1>11, <1>12, <1>13,
       <1>14, <1>15 DEF Next, Put, FinalizePop

-----------------------------------------------------------------------------
(* No accepted entry is lost or doubled                                    *)

Holding == {"insert", "check", "release", "recheck", "late", "return"}
Holds(x) == \E t \in Threads : pc[t] \in Holding /\ hand[t] = x

Meaning == \A x : x \in Accepted <=> x \in heap \/ Holds(x) \/ x \in delivered \/ x \in dropped

LEMMA AcceptedMeans == Base => Meaning
  <1> SUFFICES ASSUME Base PROVE Meaning
    OBVIOUS
  <1>1. \A t \in Threads : pc[t] \in Holding <=> hand[t] # None /\ ~At(t, "accept")
    BY EntryFacts DEF Base, Hands, ProducerHand, ConsumerHand, Threads, Holding, At
  <1>2. \A x : x \in InHand <=> Holds(x)
    BY <1>1 DEF InHand, Holds
  <1> QED BY <1>2 DEF Accepted, Meaning

\* A step accepts one new entry, with the next number and an order id nobody knew,
\* or it leaves the accepted entries as they are.
Accepts(p) ==
    /\ hand[p] \in Event /\ hand[p].id \notin known
    /\ Accepted' = Accepted \cup {Numbered(hand[p])}
    /\ seq' = seq + 1
    /\ known' = known \cup ({hand[p].id} \ {None})
Keeps == Accepted' = Accepted /\ seq' = seq /\ known' = known

LEMMA AcceptedStep ==
    ASSUME Base, Base', [Next]_vars
    PROVE  Keeps \/ \E p \in Producers : Accept(p) /\ Accepts(p)
  <1> DEFINE Same == \A x : Holds(x)' <=> Holds(x)
  <1>m. Meaning /\ Meaning'
    BY AcceptedMeans, PTL
  <1>a. ASSUME Same, UNCHANGED <<heap, delivered, dropped, seq, known>> PROVE Keeps
    BY <1>a, <1>m DEF Meaning, Keeps
  <1>0. /\ Producers \subseteq Threads /\ Consumers \subseteq Threads /\ Joiner \in Threads
        /\ pc \in [Threads -> Steps] /\ hand \in [Threads -> Event \cup Entry \cup {None}]
    BY DEF Threads, Base, Types
  <1>1. ASSUME NEW p \in Producers, NEW e \in Event, NEW nowait \in BOOLEAN,
               BeginPut(p, e, nowait)
        PROVE  Keeps
    <2>1. Same
      BY <1>0, <1>1 DEF BeginPut, Holds, Holding, At, Goto, Ends, Takes
    <2> QED BY <1>1, <1>a, <2>1 DEF BeginPut, consumed
  <1>2. ASSUME NEW p \in Producers, Accept(p) PROVE Keeps \/ Accepts(p)
    <2>1. hand[p] \in Event /\ Numbered(hand[p]) \in Entry
      BY <1>2, EntryFacts DEF Accept, At, Base, Types, Hands, ProducerHand
    <2>2. CASE hand[p].id \in known
      <3>1. Same
        BY <1>0, <1>2, <2>2 DEF Accept, Holds, Holding, At, Goto, Ends, Takes
      <3> QED BY <1>2, <1>a, <2>2, <3>1 DEF Accept, consumed
    <2>3. CASE hand[p].id \notin known
      <3>1. \A x : Holds(x)' <=> Holds(x) \/ x = Numbered(hand[p])
        BY <1>0, <1>2, <2>1, <2>3 DEF Accept, Holds, Holding, At, Goto, Ends, Takes
      <3>2. Accepted' = Accepted \cup {Numbered(hand[p])}
        BY <1>2, <3>1, <1>m DEF Meaning, Accept, consumed
      <3> QED BY <1>2, <2>1, <2>3, <3>2 DEF Accept, Accepts
    <2> QED BY <2>2, <2>3
  <1>3. ASSUME NEW p \in Producers, Insert(p) PROVE Keeps
    <2>1. \A x : Holds(x)' \/ x = hand[p] <=> Holds(x)
      BY <1>0, <1>3 DEF Insert, Holds, Holding, At, Goto, Ends, Takes
    <2> QED BY <1>3, <2>1, <1>m DEF Meaning, Insert, consumed, Keeps
  <1>4. ASSUME NEW c \in Consumers, NEW how \in {"poll", "wait", "timed"}, BeginGet(c, how)
        PROVE  Keeps
    <2>1. Same
      BY <1>0, <1>4 DEF BeginGet, Holds, Holding, At, Goto, Ends
    <2> QED BY <1>4, <1>a, <2>1 DEF BeginGet, consumed
  <1>5. ASSUME NEW c \in Consumers, Starve(c) PROVE Keeps
    <2>1. Same
      BY <1>0, <1>5 DEF Starve, Holds, Holding, At, Goto, Ends
    <2> QED BY <1>5, <1>a, <2>1 DEF Starve, consumed
  <1>6. ASSUME NEW c \in Consumers, Pop(c) PROVE Keeps
    <2>1. PICK e \in heap : heap' = heap \ {e} /\ Takes(c, e)
      BY <1>6 DEF Pop
    <2>2. \A x : Holds(x)' <=> Holds(x) \/ x = e
      BY <1>0, <1>6, <2>1 DEF Pop, Holds, Holding, Goto, Takes
    <2> QED BY <1>6, <2>1, <2>2, <1>m DEF Meaning, Pop, consumed, Keeps
  <1>7. ASSUME NEW c \in Consumers, CheckTime(c) PROVE Keeps
    <2>1. CASE Late(c)
      <3>1. \A x : Holds(x)' \/ x = hand[c] <=> Holds(x)
        BY <1>0, <1>7, <2>1 DEF CheckTime, Holds, Holding, At, Goto, Ends, Takes
      <3> QED BY <1>7, <2>1, <3>1, <1>m DEF Meaning, CheckTime, Keeps
    <2>2. CASE ~Late(c)
      <3>1. Same
        BY <1>0, <1>7, <2>2 DEF CheckTime, Holds, Holding, At, Goto, Ends, Takes
      <3> QED BY <1>7, <1>a, <2>2, <3>1 DEF CheckTime
    <2> QED BY <2>1, <2>2
  <1>8. ASSUME NEW c \in Consumers, Release(c) PROVE Keeps
    <2>1. Same
      BY <1>0, <1>8 DEF Release, Holds, Holding, At, Goto
    <2> QED BY <1>8, <1>a, <2>1 DEF Release
  <1>9. ASSUME NEW c \in Consumers, CheckTimeAgain(c) PROVE Keeps
    <2>1. Same
      BY <1>0, <1>9 DEF CheckTimeAgain, Holds, Holding, At, Goto
    <2> QED BY <1>9, <1>a, <2>1 DEF CheckTimeAgain
  <1>10. ASSUME NEW c \in Consumers, EndGet(c) PROVE Keeps
    <2>1. \A x : Holds(x)' \/ x = hand[c] <=> Holds(x)
      BY <1>0, <1>10 DEF EndGet, Holds, Holding, At, Goto, Ends, Takes
    <2> QED BY <1>10, <2>1, <1>m DEF Meaning, EndGet, Keeps
  <1>11. ASSUME Poison \/ BeginJoin \/ Join \/ Drain \/ UNCHANGED vars PROVE Keeps
    <2>1. Same
      BY <1>0, <1>11 DEF Poison, BeginJoin, Join, Drain, vars, Holds, Holding, At, Goto, consumed
    <2> QED BY <1>11, <1>a, <2>1 DEF Poison, BeginJoin, Join, Drain, vars, consumed
  <1> QED
    BY <1>1, <1>2, <1>3, <1>4, <1>5, <1>6, <1>7, <1>8, <1>9, <1>10, <1>11
       DEF Next, Put, FinalizePop

LEMMA AccountedInit == Init => Accounted
  <1> SUFFICES ASSUME Init PROVE Accounted
    OBVIOUS
  <1>1. Accepted = {}
    BY DEF Init, Accepted, InHand
  <1> QED BY <1>1, FS_EmptySet DEF Init, Accounted

LEMMA AccountedStep == Base /\ Base' /\ Accounted /\ [Next]_vars => Accounted'
  <1> SUFFICES ASSUME Base, Base', Accounted, [Next]_vars PROVE Accounted'
    OBVIOUS
  <1>1. CASE Keeps
    BY <1>1 DEF Keeps, Accounted
  <1>2. ASSUME NEW p \in Producers, Accepts(p) PROVE Accounted'
    <2> DEFINE e == Numbered(hand[p])
    <2>0. seq \in Nat
      BY DEF Base, Types
    <2>1. e \in Entry /\ e.seq = seq /\ e.id = hand[p].id
      BY <1>2, <2>0, EntryFacts DEF Accepts, Numbered
    <2>2. e \notin Accepted
      BY <2>0, <2>1 DEF Accounted
    <2>3. Accepted' = Accepted \cup {e} /\ seq' = seq + 1 /\ known' = known \cup ({e.id} \ {None})
          /\ e.id \notin known
      BY <1>2, <2>1 DEF Accepts
    <2> HIDE DEF e
    <2>4. IsFiniteSet(Accepted') /\ Cardinality(Accepted') = seq'
      BY <2>2, <2>3, FS_AddElement DEF Accounted
    <2>5. \A f \in Accepted' : f \in Entry /\ f.seq < seq'
      BY <2>0, <2>1, <2>3, EntryFacts DEF Accounted
    <2>6. \A f \in Accepted' : f.id # None => f.id \in known'
      BY <2>3 DEF Accounted
    <2>7. \A f, g \in Accepted' : f.id = g.id /\ f.id # None => f = g
      BY <2>3 DEF Accounted
    <2> QED BY <2>4, <2>5, <2>6, <2>7 DEF Accounted
  <1> QED BY <1>1, <1>2, AcceptedStep

-----------------------------------------------------------------------------
(* Only what is behind the time consumed is dropped                        *)

\* What was popped stays popped, and the time consumed does not go back.
PopStep ==
    /\ Popped \subseteq Popped'
    /\ lastConsumed # None => lastConsumed' # None /\ lastConsumed' >= lastConsumed

LEMMA OrderedInit == Init => Ordered
  BY QueueAssumption DEF Init, Ordered, Threads, At

LEMMA PopStepHolds == ASSUME Base, Base', [Next]_vars PROVE PopStep
  <1>0. /\ Consumers \subseteq Threads /\ Producers \cap Consumers = {} /\ Joiner \notin Consumers
        /\ pc \in [Threads -> Steps] /\ hand \in [Threads -> Event \cup Entry \cup {None}]
        /\ lastConsumed \in 0..MaxTime \cup {None}
    BY QueueAssumption DEF Threads, Base, Types
  <1>a. ASSUME UNCHANGED <<lastConsumed, delivered, dropped>>,
               \A c \in Consumers : hand'[c] = hand[c] \/ hand[c] = None
        PROVE  PopStep
    BY <1>0, <1>a, EntryFacts DEF PopStep, Popped
  <1>1. ASSUME NEW p \in Producers,
               Put(p) \/ \E e \in Event, nowait \in BOOLEAN : BeginPut(p, e, nowait)
        PROVE  PopStep
    <2>1. \A c \in Consumers : hand'[c] = hand[c]
      BY <1>0, <1>1 DEF Put, Accept, Insert, BeginPut, Takes
    <2> QED BY <1>1, <1>a, <2>1 DEF Put, Accept, Insert, BeginPut, consumed
  <1>2. ASSUME NEW c \in Consumers,
               Starve(c) \/ \E how \in {"poll", "wait", "timed"} : BeginGet(c, how)
        PROVE  PopStep
    BY <1>2, <1>a DEF Starve, BeginGet, consumed
  <1>3. ASSUME NEW c \in Consumers, Pop(c) PROVE PopStep
    <2>1. hand[c] = None
      BY <1>3 DEF Pop, Base, Hands, ConsumerHand
    <2>2. \A d \in Consumers : hand'[d] = hand[d] \/ hand[d] = None
      BY <1>0, <1>3, <2>1 DEF Pop, Takes
    <2> QED BY <1>3, <1>a, <2>2 DEF Pop, consumed
  <1>4. ASSUME NEW c \in Consumers, CheckTime(c) PROVE PopStep
    <2>1. hand[c] \in Entry
      BY <1>4 DEF CheckTime, At, Base, Hands, ConsumerHand
    <2>2. Popped \subseteq Popped'
      BY <1>0, <1>4 DEF CheckTime, Takes, Popped
    <2> QED BY <1>0, <1>4, <2>1, <2>2, EntryFacts DEF CheckTime, Late, PopStep
  <1>5. ASSUME NEW c \in Consumers, Release(c) PROVE PopStep
    BY <1>5, <1>a DEF Release
  <1>6. ASSUME NEW c \in Consumers, CheckTimeAgain(c) PROVE PopStep
    <2>1. hand[c] \in Entry
      BY <1>6 DEF CheckTimeAgain, At, Base, Hands, ConsumerHand
    <2>2. Popped \subseteq Popped'
      BY <1>6 DEF CheckTimeAgain, Popped
    <2> QED BY <1>0, <1>6, <2>1, <2>2, EntryFacts DEF CheckTimeAgain, Late, PopStep
  <1>7. ASSUME NEW c \in Consumers, EndGet(c) PROVE PopStep
    <2>1. Popped \subseteq Popped'
      BY <1>0, <1>7 DEF EndGet, Takes, Popped
    <2> QED BY <1>0, <1>7, <2>1, EntryFacts DEF EndGet, PopStep
  <1>8. ASSUME Poison \/ BeginJoin \/ Join \/ Drain \/ UNCHANGED vars PROVE PopStep
    BY <1>8, <1>a DEF Poison, BeginJoin, Join, Drain, vars, consumed
  <1> QED
    BY <1>1, <1>2, <1>3, <1>4, <1>5, <1>6, <1>7, <1>8 DEF Next, FinalizePop

LEMMA OrderedStep == Base /\ Base' /\ Ordered /\ [Next]_vars => Ordered'
  <1> SUFFICES ASSUME Base, Base', Ordered, [Next]_vars PROVE Ordered'
    OBVIOUS
  <1>0. /\ Consumers \subseteq Threads /\ Producers \cap Consumers = {} /\ Joiner \notin Consumers
        /\ pc \in [Threads -> Steps] /\ hand \in [Threads -> Event \cup Entry \cup {None}]
        /\ lastConsumed \in 0..MaxTime \cup {None}
        /\ lastConsumed' \in 0..MaxTime \cup {None}
        /\ dropped \subseteq Entry
    BY QueueAssumption DEF Threads, Base, Types
  <1>p. PopStep
    BY PopStepHolds
  \* A step that drops nothing, sets no time consumed and finds nobody late.
  <1>a. ASSUME UNCHANGED <<lastConsumed, dropped>>,
               \A c \in Consumers : pc'[c] = "late" => pc[c] = "late" /\ hand'[c] = hand[c]
        PROVE  Ordered'
    BY <1>a, <1>p DEF Ordered, PopStep, At
  <1>1. ASSUME NEW p \in Producers,
               Put(p) \/ \E e \in Event, nowait \in BOOLEAN : BeginPut(p, e, nowait)
        PROVE  Ordered'
    <2>1. \A c \in Consumers : pc'[c] = pc[c] /\ hand'[c] = hand[c]
      BY <1>0, <1>1 DEF Put, Accept, Insert, BeginPut, Takes, Goto, Ends
    <2> QED BY <1>1, <1>a, <2>1 DEF Put, Accept, Insert, BeginPut, consumed
  <1>2. ASSUME NEW c \in Consumers,
               Starve(c) \/ \E how \in {"poll", "wait", "timed"} : BeginGet(c, how)
        PROVE  Ordered'
    <2>1. \A d \in Consumers : pc'[d] = "late" => pc[d] = "late" /\ hand'[d] = hand[d]
      BY <1>0, <1>2 DEF Starve, BeginGet, Goto, Ends
    <2> QED BY <1>2, <1>a, <2>1 DEF Starve, BeginGet, consumed
  <1>3. ASSUME NEW c \in Consumers, Pop(c) PROVE Ordered'
    <2>1. \A d \in Consumers : pc'[d] = "late" => pc[d] = "late" /\ hand'[d] = hand[d]
      BY <1>0, <1>3 DEF Pop, Goto, Takes
    <2> QED BY <1>3, <1>a, <2>1 DEF Pop, consumed
  <1>4. ASSUME NEW c \in Consumers, CheckTime(c) PROVE Ordered'
    <2>1. hand[c] \in Entry
      BY <1>4 DEF CheckTime, At, Base, Hands, ConsumerHand
    <2>2. \A d \in Consumers : pc'[d] = "late" => pc[d] = "late" /\ hand'[d] = hand[d] /\ d # c
      BY <1>0, <1>4 DEF CheckTime, At, Goto, Ends, Takes
    <2>3. CASE Late(c)
      <3>1. dropped' = dropped \cup {hand[c]} /\ lastConsumed' = lastConsumed
        BY <1>4, <2>3 DEF CheckTime
      <3>2. PICK f \in Popped : f.at = lastConsumed
        BY <2>3 DEF Late, Ordered
      <3>3. f \in Popped' /\ f.at > hand[c].at
        BY <1>0, <1>p, <2>1, <2>3, <3>2, EntryFacts DEF Late, PopStep
      <3> QED BY <1>p, <2>2, <3>1, <3>3 DEF Ordered, PopStep, At
    <2>4. CASE ~Late(c)
      <3>1. /\ lastConsumed' = hand[c].at /\ UNCHANGED <<hand, dropped>>
        BY <1>4, <2>4 DEF CheckTime
      <3>2. hand[c] \in Popped'
        BY <2>1, <3>1, EntryFacts DEF Popped
      <3>3. \A d \in Consumers : pc'[d] = "late" => hand[d].at < lastConsumed' /\ lastConsumed' # None
        <4> SUFFICES ASSUME NEW d \in Consumers, pc'[d] = "late"
                     PROVE  hand[d].at < lastConsumed' /\ lastConsumed' # None
          OBVIOUS
        <4>1. pc[d] = "late" /\ hand[d].at < lastConsumed /\ lastConsumed # None
          BY <2>2 DEF Ordered, At
        <4>2. hand[d] \in Entry
          BY <4>1 DEF Base, Hands, ConsumerHand
        <4> QED BY <1>0, <1>p, <4>1, <4>2, EntryFacts DEF PopStep
      <3> QED BY <1>p, <3>1, <3>2, <3>3 DEF Ordered, PopStep, At
    <2> QED BY <2>3, <2>4
  <1>5. ASSUME NEW c \in Consumers, Release(c) PROVE Ordered'
    <2>1. \A d \in Consumers : pc'[d] = "late" => pc[d] = "late" /\ hand'[d] = hand[d]
      BY <1>0, <1>5 DEF Release, Goto
    <2> QED BY <1>5, <1>a, <2>1 DEF Release
  <1>6. ASSUME NEW c \in Consumers, CheckTimeAgain(c) PROVE Ordered'
    <2>1. hand[c] \in Entry
      BY <1>6 DEF CheckTimeAgain, At, Base, Hands, ConsumerHand
    <2>2. \A d \in Consumers : pc'[d] = "late" => (pc[d] = "late" \/ (d = c /\ Late(c)))
      BY <1>0, <1>6 DEF CheckTimeAgain, At, Goto
    <2>3. hand' = hand /\ dropped' = dropped
      BY <1>6 DEF CheckTimeAgain
    <2>4. lastConsumed' # None => \E f \in Popped' : f.at = lastConsumed'
      <3>1. CASE Late(c)
        BY <1>6, <1>p, <3>1 DEF CheckTimeAgain, Ordered, PopStep
      <3>2. CASE ~Late(c)
        <4>1. hand[c] \in Popped'
          BY <2>1, <2>3, EntryFacts DEF Popped
        <4> QED BY <1>6, <3>2, <4>1 DEF CheckTimeAgain
      <3> QED BY <3>1, <3>2
    <2>5. \A d \in Consumers : pc'[d] = "late" => hand[d].at < lastConsumed' /\ lastConsumed' # None
      <3> SUFFICES ASSUME NEW d \in Consumers, pc'[d] = "late"
                   PROVE  hand[d].at < lastConsumed' /\ lastConsumed' # None
        OBVIOUS
      <3>1. hand[d].at < lastConsumed /\ lastConsumed # None
        BY <2>2 DEF Ordered, At, Late
      <3>2. hand[d] \in Entry
        <4>1. CASE pc[d] = "late"
          BY <4>1 DEF Base, Hands, ConsumerHand
        <4> QED BY <2>1, <2>2, <4>1
      <3> QED BY <1>0, <1>p, <3>1, <3>2, EntryFacts DEF PopStep
    <2> QED BY <1>p, <2>3, <2>4, <2>5 DEF Ordered, PopStep, At
  <1>7. ASSUME NEW c \in Consumers, EndGet(c) PROVE Ordered'
    <2>1. \A d \in Consumers : pc'[d] = "late" => pc[d] = "late" /\ hand'[d] = hand[d]
      BY <1>0, <1>7 DEF EndGet, Goto, Ends, Takes
    <2>2. CASE At(c, "return")
      BY <1>7, <1>a, <2>1, <2>2 DEF EndGet, At
    <2>3. CASE At(c, "late")
      <3>1. dropped' = dropped \cup {hand[c]} /\ lastConsumed' = lastConsumed
        BY <1>7, <2>3 DEF EndGet, At
      <3>2. hand[c] \in Entry /\ lastConsumed # None /\ hand[c].at < lastConsumed
        BY <2>3 DEF Ordered, Base, Hands, ConsumerHand, At
      <3>3. PICK f \in Popped : f.at = lastConsumed
        BY <3>2 DEF Ordered
      <3>4. f \in Popped' /\ f.at > hand[c].at
        BY <1>0, <1>p, <3>2, <3>3, EntryFacts DEF PopStep
      <3> QED BY <1>p, <2>1, <3>1, <3>4 DEF Ordered, PopStep, At
    <2> QED BY <1>7, <2>2, <2>3 DEF EndGet
  <1>8. ASSUME Poison \/ BeginJoin \/ Join \/ Drain \/ UNCHANGED vars PROVE Ordered'
    <2>1. \A d \in Consumers : pc'[d] = "late" => pc[d] = "late" /\ hand'[d] = hand[d]
      BY <1>0, <1>8 DEF Poison, BeginJoin, Join, Drain, vars, Goto
    <2> QED BY <1>8, <1>a, <2>1 DEF Poison, BeginJoin, Join, Drain, vars, consumed
  <1> QED
    BY <1>1, <1>2, <1>3, <1>4, <1>5, <1>6, <1>7, <1>8 DEF Next, FinalizePop

-----------------------------------------------------------------------------
(* Bounds                                                                  *)

LEMMA BoundedInit == Init => Bounded
  <1> SUFFICES ASSUME Init PROVE Bounded
    OBVIOUS
  <1>1. Accepting = {} /\ heap = {}
    BY DEF Init, Accepting, At, Threads
  <1> QED BY <1>1, FS_EmptySet, QueueAssumption DEF Init, Bounded

LEMMA BoundedStep == Base /\ Accounted /\ Bounded /\ [Next]_vars => Bounded'
  <1> SUFFICES ASSUME Base, Accounted, Bounded, [Next]_vars PROVE Bounded'
    OBVIOUS
  <1>0. /\ Producers \subseteq Threads /\ Consumers \subseteq Threads /\ Joiner \in Threads
        /\ Producers \cap Consumers = {} /\ Joiner \notin Producers
        /\ pc \in [Threads -> Steps] /\ seq \in Nat /\ MaxPuts \in Nat /\ MaxSize \in Nat
    BY QueueAssumption DEF Threads, Base, Types
  <1>f. IsFiniteSet(heap) /\ Cardinality(heap) \in Nat /\ Cardinality(Accepting) \in Nat
    <2>1. heap \subseteq Accepted
      BY DEF Accepted
    <2> QED BY <2>1, FS_Subset, FS_CardinalityType DEF Accounted, Bounded
  <1>a. ASSUME UNCHANGED <<heap, seq>>, \A p \in Producers : pc'[p] = "accept" <=> pc[p] = "accept"
        PROVE  Bounded'
    <2>1. Accepting' = Accepting
      BY <1>a DEF Accepting, At
    <2> QED BY <1>a, <2>1 DEF Bounded
  <1>1. ASSUME NEW p \in Producers, NEW e \in Event, NEW nowait \in BOOLEAN,
               BeginPut(p, e, nowait)
        PROVE  Bounded'
    <2>1. CASE pc' = [pc EXCEPT ![p] = "idle"]
      BY <1>0, <1>1, <1>a, <2>1 DEF BeginPut, At
    <2>2. CASE pc' = [pc EXCEPT ![p] = "accept"]
      <3>1. Accepting' = Accepting \cup {p} /\ p \notin Accepting
        BY <1>0, <1>1, <2>2 DEF BeginPut, Accepting, At
      <3>2. IsFiniteSet(Accepting') /\ Cardinality(Accepting') = Cardinality(Accepting) + 1
        BY <3>1, FS_AddElement DEF Bounded
      <3>3. seq + Cardinality(Accepting) < MaxPuts /\ UNCHANGED <<heap, seq>>
        BY <1>1 DEF BeginPut
      <3> QED BY <1>0, <1>f, <3>2, <3>3 DEF Bounded
    <2> QED BY <1>1, <2>1, <2>2 DEF BeginPut, Ends, Goto
  <1>2. ASSUME NEW p \in Producers, Accept(p) PROVE Bounded'
    <2>1. Accepting' = Accepting \ {p} /\ p \in Accepting
      BY <1>0, <1>2 DEF Accept, Accepting, At, Goto, Ends
    <2>2. IsFiniteSet(Accepting') /\ Cardinality(Accepting') = Cardinality(Accepting) - 1
      BY <2>1, FS_RemoveElement DEF Bounded
    <2>3. seq' \in {seq, seq + 1} /\ heap' = heap
      BY <1>2 DEF Accept
    <2> QED BY <1>0, <1>f, <2>2, <2>3 DEF Bounded
  <1>3. ASSUME NEW p \in Producers, Insert(p) PROVE Bounded'
    <2>1. Accepting' = Accepting /\ seq' = seq
      BY <1>0, <1>3 DEF Insert, Accepting, At, Goto, Ends
    <2>2. MaxSize > 0 => Cardinality(heap') <= MaxSize
      <3>1. heap' = heap \cup {hand[p]} /\ ~Full
        BY <1>3 DEF Insert
      <3>2. Cardinality(heap') = Cardinality(heap) \/ Cardinality(heap') = Cardinality(heap) + 1
        BY <1>f, <3>1, FS_AddElement
      <3> QED BY <1>0, <1>f, <3>1, <3>2 DEF Full
    <2> QED BY <2>1, <2>2 DEF Bounded
  <1>4. ASSUME NEW c \in Consumers, Pop(c) PROVE Bounded'
    <2>1. Accepting' = Accepting /\ seq' = seq
      BY <1>0, <1>4 DEF Pop, Accepting, At, Goto
    <2>2. PICK e \in heap : heap' = heap \ {e}
      BY <1>4 DEF Pop
    <2>3. Cardinality(heap') = Cardinality(heap) - 1
      BY <1>f, <2>2, FS_RemoveElement
    <2> QED BY <1>0, <1>f, <2>1, <2>3 DEF Bounded
  <1>5. ASSUME NEW c \in Consumers,
               \/ Starve(c) \/ FinalizePop(c)
               \/ \E how \in {"poll", "wait", "timed"} : BeginGet(c, how)
        PROVE  Bounded'
    <2>1. \A p \in Producers : pc'[p] = pc[p]
      BY <1>0, <1>5 DEF Starve, FinalizePop, CheckTime, Release, CheckTimeAgain, EndGet, BeginGet,
                        Goto, Ends
    <2> QED
      BY <1>5, <1>a, <2>1
         DEF Starve, FinalizePop, CheckTime, Release, CheckTimeAgain, EndGet, BeginGet
  <1>6. ASSUME Poison \/ BeginJoin \/ Join \/ Drain \/ UNCHANGED vars PROVE Bounded'
    <2>1. \A p \in Producers : pc'[p] = pc[p]
      BY <1>0, <1>6 DEF Poison, BeginJoin, Join, Drain, vars, Goto
    <2> QED BY <1>6, <1>a, <2>1 DEF Poison, BeginJoin, Join, Drain, vars
  <1> QED
    BY <1>1, <1>2, <1>3, <1>4, <1>5, <1>6 DEF Next, Put

-----------------------------------------------------------------------------
(* Event queue: theorems                                                   *)

QueueInv == Base /\ Accounted /\ Ordered /\ Bounded

\* The invariant holds, whatever the threads do (queue.py as a whole).
THEOREM QueueInvariant == Spec => []QueueInv
  <1>1. Init => QueueInv
    BY BaseInit, AccountedInit, OrderedInit, BoundedInit DEF QueueInv
  <1>2. QueueInv /\ [Next]_vars => QueueInv'
    BY BaseStep, AccountedStep, OrderedStep, BoundedStep DEF QueueInv
  <1> QED BY <1>1, <1>2, PTL DEF Spec

\* The state is well-formed, the heap never holds more than its bound.
THEOREM QueueTypes == Spec => []TypeOK
  <1>1. QueueInv => TypeOK
    <2> SUFFICES ASSUME QueueInv PROVE TypeOK
      OBVIOUS
    <2>1. Cardinality(Accepting) \in Nat
      BY FS_CardinalityType DEF QueueInv, Bounded
    <2>2. seq \in 0..MaxPuts
      BY <2>1, QueueAssumption DEF QueueInv, Bounded, Base, Types
    <2> QED BY <2>2 DEF QueueInv, Bounded, Base, Types, TypeOK
  <1> QED BY <1>1, QueueInvariant, PTL

\* put under races: one event per order id, and no accepted event is lost.
THEOREM OrdersOnce == Spec => []OneEventPerOrder
  <1>1. QueueInv => OneEventPerOrder
    BY DEF QueueInv, Accounted, OneEventPerOrder
  <1> QED BY <1>1, QueueInvariant, PTL

\* _finalize_pop: what a consumer drops is behind an event that was popped before.
THEOREM DropsAreLate == Spec => []DroppedBehindLater
  <1>1. QueueInv => DroppedBehindLater
    <2> SUFFICES ASSUME QueueInv PROVE DroppedBehindLater
      OBVIOUS
    <2>1. \A f \in Popped : f # None /\ f \in delivered \cup dropped \cup {hand[c] : c \in Consumers}
      BY EntryFacts DEF QueueInv, Base, Types, Popped
    <2> QED BY <2>1 DEF QueueInv, Ordered, DroppedBehindLater
  <1> QED BY <1>1, QueueInvariant, PTL

-----------------------------------------------------------------------------
(* Swarm: presets and weights                                              *)

LEMMA OneMore ==
    ASSUME NEW S, NEW T, NEW x, IsFiniteSet(S), T \subseteq S \cup {x}
    PROVE  IsFiniteSet(T)
  <1>1. IsFiniteSet(S \cup {x})
    BY FS_AddElement
  <1> QED BY <1>1, FS_Subset

LEMMA FewAreFinite ==
    \A a, b, c, d : IsFiniteSet({a, b, c, d}) /\ \A e : IsFiniteSet({a, b, c, d, e})
  <1> TAKE a, b, c, d
  <1>1. IsFiniteSet({a})
    BY FS_Singleton
  <1>2. IsFiniteSet({a, b})
    BY <1>1, OneMore, Zenon
  <1>3. IsFiniteSet({a, b, c})
    BY <1>2, OneMore, Zenon
  <1>4. IsFiniteSet({a, b, c, d})
    BY <1>3, OneMore, Zenon
  <1>5. \A e : IsFiniteSet({a, b, c, d, e})
    BY <1>4, OneMore, Zenon
  <1> QED BY <1>4, <1>5

LEMMA DeskFacts ==
    ASSUME NEW analysts, IsFiniteSet(ToSet(analysts)), NEW lead
    PROVE  /\ IsFiniteSet(Desk(analysts, lead))
           /\ \A m \in Desk(analysts, lead) :
                 /\ m.weight = 100
                 /\ \/ m.name = lead /\ m.deps = analysts
                    \/ m.name \in ToSet(analysts) /\ m.deps = <<>>
  <1> DEFINE team == {Worker(a, 100, <<>>) : a \in ToSet(analysts)}
             f == [a \in ToSet(analysts) |-> Worker(a, 100, <<>>)]
  <1>1. f \in Surjection(ToSet(analysts), team)
    BY Zenon DEF Surjection
  <1>2. IsFiniteSet(team)
    <2> HIDE DEF f, team
    <2> QED BY <1>1, FS_Surjection
  <1>3. IsFiniteSet(Desk(analysts, lead))
    <2>1. Desk(analysts, lead) = team \cup {Worker(lead, 100, analysts)}
      BY DEF Desk
    <2> HIDE DEF team
    <2> QED BY <1>2, <2>1, FS_AddElement
  <1>4. \A m \in Desk(analysts, lead) :
           /\ m.weight = 100
           /\ \/ m.name = lead /\ m.deps = analysts
              \/ m.name \in ToSet(analysts) /\ m.deps = <<>>
    BY DEF Desk, Worker
  <1> QED BY <1>3, <1>4

LEMMA ThreeAnalysts ==
    ASSUME NEW a, NEW b, NEW c
    PROVE  ToSet(<<a, b, c>>) = {a, b, c} /\ IsFiniteSet(ToSet(<<a, b, c>>))
  <1>1. ToSet(<<a, b, c>>) = {a, b, c}
    BY DEF ToSet
  <1>2. {a, b, c} = {a, b, c, c}
    OBVIOUS
  <1>3. IsFiniteSet({a, b, c, c})
    BY FewAreFinite, Zenon
  <1> QED BY <1>1, <1>2, <1>3

LEMMA PanelFacts == IsFiniteSet(ToSet(Panelists)) /\ "technical_consensus" \notin ToSet(Panelists)
  <1>1. ToSet(Panelists) = {"trend_follower", "mean_reversion", "volume_analyst",
                            "pattern_recognizer"}
    BY DEF ToSet, Panelists
  <1>2. IsFiniteSet({"trend_follower", "mean_reversion", "volume_analyst", "pattern_recognizer"})
    BY FewAreFinite, Zenon
  <1> QED BY <1>1, <1>2

\* Every worker weighs something; only the consensus of the panel looks at results, and
\* the others of the panel wait for nobody.
Orderly(configs) ==
    /\ IsFiniteSet(configs)
    /\ \A m \in configs : m.weight \in Nat \ {0}
    /\ \A m \in configs : m.name = "technical_consensus" =>
          /\ m.deps = Panelists
          /\ \A n \in configs : n.name # "technical_consensus" =>
                n.name \in ToSet(Panelists) /\ n.deps = <<>>

LEMMA CommitteeOrderly == Orderly(Committee)
  <1>1. IsFiniteSet(Committee)
    <2> DEFINE advisers == <<"technical_analyst", "fundamental_analyst", "sentiment_analyst">>
    <2>1. IsFiniteSet({Worker("technical_analyst", 110, <<>>),
                       Worker("fundamental_analyst", 100, <<>>),
                       Worker("sentiment_analyst", 90, <<>>),
                       Worker("risk_manager", 115, advisers),
                       Worker("macro_strategist", 95, <<>>)})
      BY FewAreFinite, Zenon
    <2> QED BY <2>1 DEF Committee
  <1>2. \A m \in Committee : m.weight \in Nat \ {0} /\ m.name # "technical_consensus"
    BY DEF Committee, Worker
  <1> QED BY <1>1, <1>2 DEF Orderly

LEMMA PanelOrderly == Orderly(Desk(Panelists, "technical_consensus"))
  BY PanelFacts, DeskFacts DEF Orderly

LEMMA TeamOrderly ==
    ASSUME NEW a, NEW b, NEW c, NEW lead, "technical_consensus" \notin {a, b, c, lead}
    PROVE  Orderly(Desk(<<a, b, c>>, lead))
  <1>1. IsFiniteSet(ToSet(<<a, b, c>>)) /\ ToSet(<<a, b, c>>) = {a, b, c}
    BY ThreeAnalysts
  <1> QED BY <1>1, DeskFacts DEF Orderly

LEMMA PresetsOrderly ==
    ASSUME NEW p \in Presets
    PROVE  Orderly(AllPresets[p])
  <1>1. CASE p = "investment_committee"
    BY <1>1, CommitteeOrderly DEF AllPresets
  <1>2. CASE p = "technical_analysis_panel"
    BY <1>2, PanelOrderly DEF AllPresets
  <1>3. CASE p = "quant_desk"
    BY <1>3, TeamOrderly DEF AllPresets
  <1>4. CASE p = "crypto_desk"
    BY <1>4, TeamOrderly DEF AllPresets
  <1>5. CASE p = "risk_committee"
    BY <1>5, TeamOrderly DEF AllPresets
  <1>6. CASE p = "fundamental_analysis_team"
    BY <1>6, TeamOrderly DEF AllPresets
  <1>7. CASE p = "macro_economics_team"
    BY <1>7, TeamOrderly DEF AllPresets
  <1> QED
    BY <1>1, <1>2, <1>3, <1>4, <1>5, <1>6, <1>7, PresetAssumption DEF AllPresets

LEMMA PresetFacts ==
    ASSUME NEW p \in Presets
    PROVE  Orderly(Configs(p)) /\ \A m \in Configs(p) : m.name \in Registered
  <1>1. Configs(p) \subseteq AllPresets[p] /\ \A m \in Configs(p) : m.name \in Registered
    BY DEF Configs
  <1> QED BY <1>1, PresetsOrderly, FS_Subset DEF Orderly

LEMMA ConfigFacts ==
    ASSUME preset \in Presets
    PROVE  /\ IsFiniteSet(Workers)
           /\ \A w \in Workers : /\ ConfigOf(preset, w) \in Configs(preset)
                                 /\ ConfigOf(preset, w).name = w
           /\ \A w \in Workers : w \in Registered /\ Weights[w] \in Nat \ {0}
           /\ "technical_consensus" \in Workers =>
                  /\ Deps("technical_consensus") = Panelists
                  /\ \A w \in Workers : w # "technical_consensus" =>
                        w \in ToSet(Panelists) /\ Deps(w) = <<>>
  <1>1. \A w \in Workers : /\ ConfigOf(preset, w) \in Configs(preset)
                           /\ ConfigOf(preset, w).name = w
    BY DEF Workers, ConfigOf
  <1>2. IsFiniteSet(Workers)
    <2> DEFINE f == [c \in Configs(preset) |-> c.name]
    <2>1. f \in Surjection(Configs(preset), Workers)
      BY DEF Surjection, Workers
    <2> HIDE DEF f
    <2> QED BY <2>1, PresetFacts, FS_Surjection DEF Orderly
  <1>3. \A w \in Workers : w \in Registered /\ Weights[w] \in Nat \ {0}
    BY <1>1, PresetFacts DEF Orderly, Weights
  <1>4. ASSUME "technical_consensus" \in Workers
        PROVE  /\ Deps("technical_consensus") = Panelists
               /\ \A w \in Workers : w # "technical_consensus" =>
                      w \in ToSet(Panelists) /\ Deps(w) = <<>>
    BY <1>1, <1>4, PresetFacts DEF Orderly, Deps
  <1> QED BY <1>1, <1>2, <1>3, <1>4

LEMMA WeightFacts ==
    ASSUME preset \in Presets
    PROVE  /\ \A ws \in SUBSET Workers : Weight(ws) \in Nat /\ Weight(ws) <= Weight(Workers)
           /\ Workers # {} => Weight(Workers) > 0
  <1>1. IsFiniteSet(Workers) /\ \A w \in Workers : Weights[w] \in Nat \ {0}
    BY ConfigFacts
  <1>2. \A ws : Weight(ws) = Sum(Weights, ws)
    BY DEF Weight, WeightOf, Sum
  <1>3. ASSUME NEW ws \in SUBSET Workers
        PROVE  Weight(ws) \in Nat /\ Weight(ws) <= Weight(Workers)
    <2>1. IsFiniteSet(ws) /\ \A w \in ws : Weights[w] \in Nat
      BY <1>1, FS_Subset
    <2>2. Sum(Weights, ws) \in Nat
      BY <2>1, SumType
    <2>3. Sum(Weights, Workers \cap ws) <= Sum(Weights, Workers)
      BY <1>1, SumWithin
    <2>4. Workers \cap ws = ws
      OBVIOUS
    <2> QED BY <1>2, <2>2, <2>3, <2>4
  <1>4. ASSUME NEW w \in Workers PROVE Weight(Workers) > 0
    <2>1. Sum(Weights, Workers) = Weights[w] + Sum(Weights, Workers \ {w})
      BY <1>1, SumElement
    <2>2. Sum(Weights, Workers \ {w}) \in Nat
      BY <1>1, FS_Subset, SumType
    <2> QED BY <1>1, <1>2, <2>1, <2>2
  <1> QED BY <1>3, <1>4

-----------------------------------------------------------------------------
(* Swarm: the inductive invariant                                          *)

States == {"waiting", "running", "retrying", "done", "failed", "blocked"}

SwarmBase ==
    /\ preset \in Presets /\ context \in Contexts
    /\ frames \in [Tickers -> Frames \cup {NoFrame}]
    /\ phase \in {"idle", "dispatch", "batch", "aggregate", "done"}
    /\ state \in [Workers -> States]
    /\ attempts \in [Workers -> Nat]
    /\ batch \subseteq Workers
    /\ DOMAIN seen \subseteq Workers
    /\ runs \in 0..MaxRuns

\* A worker goes from the batch to a thread, from there to a computed result, and from
\* there to a stored one; it shows the state of its result.
Placed ==
    /\ phase # "batch" => batch = {}
    /\ DOMAIN seen \subseteq batch \cup DOMAIN results
    /\ DOMAIN held \subseteq batch \cap DOMAIN seen
    /\ DOMAIN results \subseteq DOMAIN seen \ DOMAIN held
    /\ \A w \in DOMAIN seen : state[w] # "waiting"
    /\ \A w \in Workers : state[w] = "done" => w \in DOMAIN held \cup DOMAIN results
    /\ \A w \in DOMAIN held : held[w].state = state[w]
    /\ \A w \in DOMAIN results : results[w].state = state[w]

\* Whoever is in the batch or beyond has all it depends on, and sees just that.
Supplied ==
    /\ \A w \in batch \cup DOMAIN seen : \A d \in ToSet(Deps(w)) :
          d \in DOMAIN results /\ results[d].state = "done"
    /\ \A w \in DOMAIN seen : seen[w] = Restrict(results, ToSet(Deps(w)))

\* A result is what the worker makes of what it saw, or a failure.
Sound(w, result) ==
    result \in {Executed(w, frames, context, seen[w]), Failure}
Earned ==
    /\ \A w \in DOMAIN held : Sound(w, held[w])
    /\ \A w \in DOMAIN results : Sound(w, results[w])

LEMMA SwarmBaseStep == SwarmBase /\ Placed /\ [SwarmNext]_swarmVars => SwarmBase'
  <1> SUFFICES ASSUME SwarmBase, Placed, [SwarmNext]_swarmVars PROVE SwarmBase'
    OBVIOUS
  <1> USE DEF SwarmBase
  <1>1. preset' = preset /\ context' = context /\ Workers' = Workers
    <2>1. preset' = preset /\ context' = context
      BY DEF SwarmNext, Step, StartRun, Dispatch, BatchDone, Aggregate, Begin, Succeed, Raise, Store,
             swarmVars
    <2> QED BY <2>1 DEF Workers
  <1>2. CASE StartRun
    BY <1>1, <1>2, SwarmAssumption DEF StartRun, States
  <1>3. CASE Dispatch
    BY <1>1, <1>3 DEF Dispatch, States
  <1>4. CASE BatchDone
    BY <1>1, <1>4 DEF BatchDone, States, Placed
  <1>5. CASE Aggregate
    BY <1>1, <1>5 DEF Aggregate
  <1>6. ASSUME NEW w \in Workers, Step(w) PROVE SwarmBase'
    BY <1>1, <1>6, SwarmAssumption DEF Step, Begin, Succeed, Raise, Store, States, Extended
  <1>7. CASE UNCHANGED swarmVars
    BY <1>1, <1>7 DEF swarmVars
  <1> QED BY <1>2, <1>3, <1>4, <1>5, <1>6, <1>7 DEF SwarmNext

LEMMA PlacedStep == SwarmBase /\ Placed /\ [SwarmNext]_swarmVars => Placed'
  <1> SUFFICES ASSUME SwarmBase, Placed, [SwarmNext]_swarmVars PROVE Placed'
    OBVIOUS
  <1> USE DEF SwarmBase, Placed
  <1>1. Workers' = Workers
    BY DEF Workers, SwarmNext, Step, StartRun, Dispatch, BatchDone, Aggregate, Begin, Succeed,
           Raise, Store, swarmVars
  <1>2. CASE StartRun
    BY <1>1, <1>2 DEF StartRun
  <1>3. CASE Dispatch
    BY <1>1, <1>3 DEF Dispatch, Ready, DepFailed
  <1>4. CASE BatchDone
    BY <1>1, <1>4 DEF BatchDone
  <1>5. CASE Aggregate
    BY <1>1, <1>5 DEF Aggregate
  <1>6. ASSUME NEW w \in Workers, Begin(w) PROVE Placed'
    BY <1>1, <1>6 DEF Begin, Extended
  <1>7. ASSUME NEW w \in Workers, Succeed(w) PROVE Placed'
    BY <1>1, <1>7 DEF Succeed, Executing, OnThread, Extended, Executed
  <1>8. ASSUME NEW w \in Workers, Raise(w) PROVE Placed'
    BY <1>1, <1>8 DEF Raise, Executing, OnThread, Extended, Failure
  <1>9. ASSUME NEW w \in Workers, Store(w) PROVE Placed'
    BY <1>1, <1>9 DEF Store, Extended, Restrict
  <1>10. CASE UNCHANGED swarmVars
    BY <1>1, <1>10 DEF swarmVars
  <1> QED BY <1>2, <1>3, <1>4, <1>5, <1>6, <1>7, <1>8, <1>9, <1>10 DEF SwarmNext, Step

\* What is stored stays as it is until the next run.
LEMMA SuppliedStep == SwarmBase /\ Placed /\ Supplied /\ [SwarmNext]_swarmVars => Supplied'
  <1> SUFFICES ASSUME SwarmBase, Placed, Supplied, [SwarmNext]_swarmVars PROVE Supplied'
    OBVIOUS
  <1> USE DEF Placed, Supplied
  <1>1. Workers' = Workers /\ \A w : Deps(w)' = Deps(w)
    BY DEF Workers, Deps, SwarmNext, Step, StartRun, Dispatch, BatchDone, Aggregate, Begin, Succeed,
           Raise, Store, swarmVars
  <1>2. CASE StartRun
    BY <1>1, <1>2 DEF StartRun
  <1>3. CASE Dispatch
    <2>1. ASSUME NEW w \in batch', NEW d \in ToSet(Deps(w))
          PROVE  d \in DOMAIN results /\ results[d].state = "done"
      BY <1>3, <2>1 DEF Dispatch, Ready, Met
    <2> QED BY <1>1, <1>3, <2>1 DEF Dispatch
  <1>4. CASE BatchDone
    BY <1>1, <1>4 DEF BatchDone
  <1>5. CASE Aggregate
    BY <1>1, <1>5 DEF Aggregate
  <1>6. ASSUME NEW w \in Workers, Begin(w) PROVE Supplied'
    <2>1. ToSet(Deps(w)) \cap DOMAIN results = ToSet(Deps(w))
      BY <1>6 DEF Begin
    <2>2. Upstream(w) = Restrict(results, ToSet(Deps(w)))
      BY <2>1 DEF Upstream
    <2> QED BY <1>1, <1>6, <2>2 DEF Begin, Extended
  <1>7. ASSUME NEW w \in Workers, Succeed(w) \/ Raise(w) PROVE Supplied'
    BY <1>1, <1>7 DEF Succeed, Raise
  <1>8. ASSUME NEW w \in Workers, Store(w) PROVE Supplied'
    <2>1. \A v \in DOMAIN results : v \in DOMAIN results' /\ results'[v] = results[v]
      BY <1>8 DEF Store, Extended
    <2>2. \A v \in DOMAIN seen : Restrict(results', ToSet(Deps(v))) = Restrict(results, ToSet(Deps(v)))
      BY <2>1 DEF Restrict
    <2> QED BY <1>1, <1>8, <2>1, <2>2 DEF Store
  <1>9. CASE UNCHANGED swarmVars
    BY <1>1, <1>9 DEF swarmVars
  <1> QED BY <1>2, <1>3, <1>4, <1>5, <1>6, <1>7, <1>8, <1>9 DEF SwarmNext, Step

LEMMA EarnedStep == SwarmBase /\ Placed /\ Earned /\ [SwarmNext]_swarmVars => Earned'
  <1> SUFFICES ASSUME SwarmBase, Placed, Earned, [SwarmNext]_swarmVars PROVE Earned'
    OBVIOUS
  <1> USE DEF Placed, Earned, Sound
  <1>1. context' = context
    BY DEF SwarmNext, Step, StartRun, Dispatch, BatchDone, Aggregate, Begin, Succeed, Raise, Store,
           swarmVars
  <1>2. CASE StartRun
    BY <1>2 DEF StartRun
  <1>3. CASE Dispatch \/ BatchDone \/ Aggregate \/ UNCHANGED swarmVars
    BY <1>3 DEF Dispatch, BatchDone, Aggregate, swarmVars
  <1>4. ASSUME NEW w \in Workers, Begin(w) PROVE Earned'
    BY <1>4 DEF Begin, Extended
  <1>5. ASSUME NEW w \in Workers, Succeed(w) \/ Raise(w) PROVE Earned'
    BY <1>5 DEF Succeed, Raise, Extended
  <1>6. ASSUME NEW w \in Workers, Store(w) PROVE Earned'
    BY <1>6 DEF Store, Extended, Restrict
  <1> QED BY <1>2, <1>3, <1>4, <1>5, <1>6 DEF SwarmNext, Step

-----------------------------------------------------------------------------
(* Swarm: the decisions                                                    *)

SwarmInv == SwarmBase /\ Placed /\ Supplied /\ Earned

\* With nothing under way, the votes the engine counts are those of the reference.
LEMMA ResultsAreReference ==
    ASSUME SwarmInv, batch = {}
    PROVE  /\ Finished \subseteq DOMAIN results
           /\ \A w \in Finished : results[w] = Reference[w]
           /\ \A w \in DOMAIN results \ Finished : results[w] = Failure
  <1> USE DEF SwarmInv, SwarmBase, Placed, Supplied, Earned, Sound
  <1>1. DOMAIN held = {} /\ DOMAIN seen = DOMAIN results /\ DOMAIN results \subseteq Workers
    OBVIOUS
  <1>2. \A w \in Finished : w \in Workers /\ w \in DOMAIN results
    BY <1>1 DEF Finished
  <1>3. \A w \in Finished : results[w] = Executed(w, frames, context, seen[w])
    BY <1>2 DEF Finished, Failure
  <1>4. \A w \in DOMAIN results \ Finished : results[w] = Failure
    BY <1>1 DEF Finished, Executed
  <1>5. \A w, u, v : w # "technical_consensus" =>
           Executed(w, frames, context, u) = Executed(w, frames, context, v)
    BY DEF Executed, VotedOn, VoteOf
  <1>6. ASSUME "technical_consensus" \in Finished
        PROVE  seen["technical_consensus"] = FirstHand
    <2> DEFINE w == "technical_consensus"
               panel == ToSet(Panelists)
    <2>1. /\ Deps(w) = Panelists
          /\ \A v \in Workers : v # w => v \in panel /\ Deps(v) = <<>>
      BY <1>2, <1>6, ConfigFacts
    <2>2. w \notin panel /\ Panelists # <<>>
      BY DEF ToSet, Panelists
    <2>3. \A v \in panel : v \in DOMAIN results /\ results[v].state = "done"
      BY <1>1, <1>2, <1>6, <2>1
    <2>4. \A v \in panel : v \in Finished
      BY <1>1, <2>3 DEF Finished
    <2>5. {v \in Finished : Deps(v) = <<>>} = panel
      BY <1>2, <2>1, <2>2, <2>4
    <2>6. \A v \in panel : results[v] = Executed(v, frames, context, <<>>)
      BY <1>3, <1>5, <2>2, <2>4
    <2>7. seen[w] = [v \in panel |-> results[v]]
      BY <1>1, <1>2, <1>6, <2>1 DEF Restrict
    <2> QED BY <2>5, <2>6, <2>7 DEF FirstHand
  <1>7. \A w \in Finished : results[w] = Executed(w, frames, context, FirstHand)
    BY <1>3, <1>5, <1>6
  <1> QED BY <1>2, <1>4, <1>7 DEF Reference

\* Weighing a part in hundredths of the whole.
LEMMA Share ==
    ASSUME NEW part \in Nat, NEW whole \in Nat, whole > 0, part <= whole
    PROVE  (100 * part) \div whole \in 0..100
  <1>1. 100 * part \in Nat /\ 100 * part <= 100 * whole
    OBVIOUS
  <1> DEFINE q == (100 * part) \div whole
  <1>2. q \in Int /\ whole * q <= 100 * part /\ 100 * part < whole * (q + 1)
    BY <1>1
  <1> QED OBVIOUS

LEMMA DecisionFollows ==
    ASSUME SwarmInv, batch = {}, NEW t \in Tickers
    PROVE  FollowsVotes(Decision(t), t)
  <1>1. \A a \in {"BUY", "SELL"} : VotersFor(t, a) = Cast(t, a)
    BY ResultsAreReference DEF VotersFor, Cast, Failure
  <1>2. PICK for, against : for = VotersFor(t, "BUY") /\ against = VotersFor(t, "SELL")
    OBVIOUS
  <1>3. for \subseteq Workers /\ against \subseteq Workers
    BY <1>1, <1>2 DEF Cast, Finished
  <1>4. preset \in Presets
    BY DEF SwarmInv, SwarmBase
  <1>5. /\ Weight(for) \in Nat /\ Weight(against) \in Nat
        /\ Weight(for) <= Weight(Workers) /\ Weight(against) <= Weight(Workers)
    BY <1>3, <1>4, WeightFacts
  <1>6. PICK winners \in SUBSET Workers :
           Decision(t) =
             [action |-> Outcome(for, against),
              confidence |-> IF Workers = {} THEN 0
                             ELSE (100 * Weight(winners)) \div Weight(Workers),
              for |-> Cardinality(for), against |-> Cardinality(against),
              abstain |-> Cardinality(Workers) - Cardinality(for) - Cardinality(against)]
    BY <1>2, <1>3 DEF Decision
  <1>7. Decision(t).confidence \in 0..100
    <2>1. Weight(winners) \in Nat /\ Weight(winners) <= Weight(Workers)
      BY <1>4, <1>6, WeightFacts
    <2>2. Workers # {} => Weight(Workers) > 0 /\ Weight(Workers) \in Nat
      BY <1>4, WeightFacts
    <2>3. \A part, whole \in Nat :
             whole > 0 /\ part <= whole => (100 * part) \div whole \in 0..100
      BY Share
    <2>4. Workers # {} => (100 * Weight(winners)) \div Weight(Workers) \in 0..100
      BY <2>1, <2>2, <2>3
    <2> QED BY <1>6, <2>4
  <1> QED BY <1>1, <1>2, <1>5, <1>6, <1>7 DEF Outcome, FollowsVotes

LEMMA ReproducibleStep ==
    SwarmInv /\ DecisionsReproducible /\ [SwarmNext]_swarmVars => DecisionsReproducible'
  <1> SUFFICES ASSUME SwarmInv, DecisionsReproducible, [SwarmNext]_swarmVars, phase' = "done"
               PROVE  DecisionsReproducible'
    BY DEF DecisionsReproducible
  <1>1. batch = {} /\ DOMAIN held = {} /\ UNCHANGED <<preset, frames, context, state>>
    BY DEF SwarmInv, Placed, SwarmNext, Step, StartRun, Dispatch, BatchDone, Aggregate, Begin,
           Succeed, Raise, Store, Executing, OnThread, swarmVars
  <1>2. UNCHANGED <<Workers, Weights, Finished>>
    BY <1>1 DEF Workers, Weights, Finished
  <1>3. FirstHand' = FirstHand
    BY <1>1, <1>2 DEF FirstHand, Deps
  <1>4. Reference' = Reference
    BY <1>1, <1>2, <1>3 DEF Reference
  <1>5. \A ws : Weight(ws)' = Weight(ws)
    BY <1>2 DEF Weight
  <1>6. \A d, t : FollowsVotes(d, t)' <=> FollowsVotes(d, t)
    BY <1>2, <1>4, <1>5 DEF FollowsVotes, Cast
  <1>7. \/ decisions' = [t \in Tickers |-> Decision(t)]
        \/ phase = "done" /\ decisions' = decisions
    BY <1>1 DEF SwarmNext, Step, StartRun, Dispatch, BatchDone, Aggregate, Begin,
           Succeed, Raise, Store, Executing, OnThread, swarmVars
  <1>8. \A t \in Tickers : FollowsVotes(decisions'[t], t)
    <2>1. CASE decisions' = [t \in Tickers |-> Decision(t)]
      BY <1>1, <2>1, DecisionFollows
    <2>2. CASE phase = "done" /\ decisions' = decisions
      BY <2>2 DEF DecisionsReproducible
    <2> QED BY <1>7, <2>1, <2>2
  <1> QED BY <1>6, <1>8 DEF DecisionsReproducible

-----------------------------------------------------------------------------
(* Swarm: how a run ends for each worker                                   *)

\* What a worker can no longer wait for.
Hopeless(d) == d \notin Workers \/ state[d] \in {"failed", "blocked"}

\* A worker is under way on a thread, has a result, waits, or is blocked by one that is
\* hopeless; and nothing waits once the engine has found nothing ready.
Settled ==
    /\ phase = "batch" => batch # {}
    /\ phase \in {"aggregate", "done"} => \A w \in Workers : state[w] # "waiting"
    /\ \A w \in batch : w \notin DOMAIN seen => state[w] = "waiting"
    /\ \A w \in DOMAIN seen : state[w] # "blocked"
    /\ \A w \in Workers : state[w] \in {"running", "retrying"} =>
          w \in DOMAIN seen \ (DOMAIN held \cup DOMAIN results)
    /\ \A w \in Workers : state[w] = "failed" => w \in DOMAIN held \cup DOMAIN results
    /\ \A w \in Workers : state[w] = "blocked" => \E d \in ToSet(Deps(w)) : Hopeless(d)

LEMMA SettledStep == SwarmBase /\ Placed /\ Settled /\ [SwarmNext]_swarmVars => Settled'
  <1> SUFFICES ASSUME SwarmBase, Placed, Settled, [SwarmNext]_swarmVars PROVE Settled'
    OBVIOUS
  <1>1. /\ Workers' = Workers
        /\ \A w : Deps(w)' = Deps(w)
    BY DEF Workers, Deps, ConfigOf, SwarmNext, Step, StartRun, Dispatch, BatchDone, Aggregate,
           Begin, Succeed, Raise, Store, swarmVars
  <1>2. CASE StartRun
    BY <1>1, <1>2 DEF StartRun, SwarmBase, Placed, Settled
  <1>3. CASE Dispatch
    <2> DEFINE ready == {w \in Workers : Ready(w)}
    <2>1. /\ phase = "dispatch" /\ batch = {} /\ batch' = ready
          /\ phase' = IF ready = {} THEN "aggregate" ELSE "batch"
          /\ UNCHANGED <<seen, held, results>>
      BY <1>3 DEF Dispatch, Placed
    <2>2. \A w \in Workers : state'[w] = IF DepFailed(w) \/ (ready = {} /\ state[w] = "waiting")
                                         THEN "blocked" ELSE state[w]
      BY <1>3 DEF Dispatch
    <2>3. \A w \in Workers : state[w] \in {"waiting", "done", "failed", "blocked"}
      BY <2>1 DEF SwarmBase, States, Placed, Settled
    <2>4. \A w \in Workers : DepFailed(w) => state[w] = "waiting"
      BY DEF DepFailed
    <2>5. \A w \in ready : state'[w] = "waiting"
      <3> SUFFICES ASSUME NEW w \in ready PROVE state'[w] = "waiting"
        OBVIOUS
      <3>1. w \in Workers /\ state[w] = "waiting" /\ \A d \in ToSet(Deps(w)) : Met(d)
        BY DEF Ready
      <3>2. ~DepFailed(w)
        BY <3>1 DEF DepFailed, Met, ToSet
      <3> QED BY <2>2, <3>1, <3>2
    <2>6. \A d : Hopeless(d) => Hopeless(d)'
      <3> SUFFICES ASSUME NEW d, Hopeless(d), d \in Workers PROVE state'[d] = state[d]
        BY <1>1 DEF Hopeless
      <3> QED BY <2>2, <2>4 DEF Hopeless
    <2>7. ASSUME NEW w \in Workers, state'[w] = "blocked"
          PROVE  \E d \in ToSet(Deps(w)) : Hopeless(d)'
      <3>1. CASE state[w] = "blocked"
        BY <2>6, <3>1 DEF Settled
      <3>2. CASE DepFailed(w)
        <4>1. PICK i \in DOMAIN Deps(w) : Deps(w)[i] \in Workers /\ state[Deps(w)[i]] = "failed"
          BY <3>2 DEF DepFailed
        <4>2. Deps(w)[i] \in ToSet(Deps(w)) /\ Hopeless(Deps(w)[i])
          BY <4>1 DEF ToSet, Hopeless
        <4> QED BY <2>6, <4>2
      <3>3. CASE ready = {} /\ state[w] = "waiting"
        <4>1. PICK d \in ToSet(Deps(w)) : ~Met(d)
          BY <3>3 DEF Ready
        <4>2. d \in Workers => state[d] # "done"
          BY <4>1 DEF Met
        <4>3. d \in Workers => state'[d] \in {"failed", "blocked"}
          BY <2>2, <2>3, <3>3, <4>2
        <4> QED BY <1>1, <4>3 DEF Hopeless
      <3> QED BY <2>2, <2>7, <3>1, <3>2, <3>3
    <2>8. \A w \in DOMAIN seen : w \in Workers /\ state[w] \notin {"waiting", "blocked"}
      BY DEF SwarmBase, Placed, Settled
    <2>9. \A w \in DOMAIN seen : state'[w] # "blocked"
      BY <2>2, <2>4, <2>8
    <2>10. phase' \in {"aggregate", "done"} => \A w \in Workers : state'[w] # "waiting"
      BY <2>1, <2>2
    <2>11. \A w \in Workers : state'[w] = "failed" => w \in DOMAIN held \cup DOMAIN results
      BY <2>2 DEF Settled
    <2>12. \A w \in Workers : state'[w] \notin {"running", "retrying"}
      BY <2>2, <2>3
    <2> QED BY <1>1, <2>1, <2>5, <2>7, <2>9, <2>10, <2>11, <2>12 DEF Settled
  <1>4. CASE BatchDone
    <2>1. /\ phase' = "dispatch" /\ batch' = {} /\ batch \subseteq DOMAIN results
          /\ UNCHANGED <<seen, held, results>>
      BY <1>4 DEF BatchDone
    <2>2. \A w \in Workers : state'[w] = state[w]
      BY <1>4, <2>1 DEF BatchDone, Placed
    <2>3. \A d : Hopeless(d) => Hopeless(d)'
      BY <1>1, <2>2 DEF Hopeless
    <2>4. DOMAIN seen \subseteq Workers
      BY DEF SwarmBase
    <2> QED BY <1>1, <2>1, <2>2, <2>3, <2>4 DEF Settled
  <1>5. CASE Aggregate
    BY <1>1, <1>5 DEF Aggregate, Settled, Hopeless
  <1>6. ASSUME NEW w \in Workers, Step(w) PROVE Settled'
    <2>1. /\ phase' = phase /\ batch' = batch /\ phase = "batch"
      BY <1>6 DEF Step, Begin, Succeed, Raise, Store, Executing, OnThread, Placed
    <2>2. state[w] \notin {"failed", "blocked"} \/ state' = state
      BY <1>6 DEF Step, Begin, Succeed, Raise, Store, Executing, OnThread, Placed, Settled
    <2>3. \A v \in Workers \ {w} : state'[v] = state[v]
      BY <1>6 DEF Step, Begin, Succeed, Raise, Store, SwarmBase
    <2>4. \A d : Hopeless(d) => Hopeless(d)'
      BY <1>1, <2>2, <2>3 DEF Hopeless
    <2>5. state'[w] # "blocked" \/ state' = state
      BY <1>6 DEF Step, Begin, Succeed, Raise, Store, SwarmBase
    <2>6. \A v \in Workers : state'[v] = "blocked" => \E d \in ToSet(Deps(v)) : Hopeless(d)'
      BY <2>3, <2>4, <2>5 DEF Settled
    <2>7. /\ \A v \in batch' : v \notin DOMAIN seen' => state'[v] = "waiting"
          /\ \A v \in DOMAIN seen' : state'[v] # "blocked"
          /\ \A v \in Workers : state'[v] \in {"running", "retrying"} =>
                v \in DOMAIN seen' \ (DOMAIN held' \cup DOMAIN results')
          /\ \A v \in Workers : state'[v] = "failed" => v \in DOMAIN held' \cup DOMAIN results'
      <3>1. CASE Begin(w)
        BY <3>1 DEF Begin, Extended, SwarmBase, Placed, Settled
      <3>2. CASE Succeed(w)
        BY <3>2 DEF Succeed, Executing, OnThread, Extended, SwarmBase, Placed, Settled
      <3>3. CASE Raise(w)
        BY <3>3 DEF Raise, Executing, OnThread, Extended, SwarmBase, Placed, Settled
      <3>4. CASE Store(w)
        BY <3>4 DEF Store, Extended, Restrict, SwarmBase, Placed, Settled
      <3> QED BY <1>6, <3>1, <3>2, <3>3, <3>4 DEF Step
    <2> QED BY <1>1, <2>1, <2>6, <2>7 DEF Settled
  <1>7. CASE UNCHANGED swarmVars
    BY <1>1, <1>7 DEF swarmVars, Settled, Hopeless
  <1> QED BY <1>2, <1>3, <1>4, <1>5, <1>6, <1>7 DEF SwarmNext

-----------------------------------------------------------------------------
(* Swarm: theorems                                                         *)

\* The invariant holds, whatever the pool's threads do (engine.py, base.py).
THEOREM SwarmInvariant == SwarmSpec => []SwarmInv
  <1>1. SwarmInit => SwarmInv
    BY SwarmAssumption
       DEF SwarmInit, SwarmInv, SwarmBase, Placed, Supplied, Earned, States
  <1>2. SwarmInv /\ [SwarmNext]_swarmVars => SwarmInv'
    BY SwarmBaseStep, PlacedStep, SuppliedStep, EarnedStep DEF SwarmInv
  <1> QED BY <1>1, <1>2, PTL DEF SwarmSpec

\* The engine's state is well-formed, whatever the pool's threads do.
THEOREM SwarmTypes == SwarmSpec => []SwarmTypeOK
  <1>1. SwarmInv => SwarmTypeOK
    BY DEF SwarmInv, SwarmBase, Placed, States, SwarmTypeOK
  <1> QED BY <1>1, SwarmInvariant, PTL

\* _execute_worker: the copy taken under the lock holds the finished result of every
\* worker the one that starts depends on, whatever order the threads ran in.
THEOREM HandoffsComplete == SwarmSpec => []HandoffComplete
  <1>1. SwarmInv => HandoffComplete
    BY DEF SwarmInv, Supplied, HandoffComplete, Restrict
  <1> QED BY <1>1, SwarmInvariant, PTL

\* _aggregate_decisions: a decision is a function of the data and of which workers
\* finished, for every preset, number of threads and number of runs.
THEOREM DecisionsFollowData == SwarmSpec => []DecisionsReproducible
  <1>1. SwarmInit => DecisionsReproducible
    BY DEF SwarmInit, DecisionsReproducible
  <1>2. SwarmInv /\ DecisionsReproducible /\ [SwarmNext]_swarmVars => DecisionsReproducible'
    BY ReproducibleStep
  <1> QED BY <1>1, <1>2, SwarmInvariant, PTL DEF SwarmSpec

\* What RunEnds rests on (run, _get_ready_workers): a batch is never empty, and when the
\* decisions are made every worker is finished, failed or blocked; those that are not
\* blocked have a stored result, and a worker is blocked exactly if one it depends on is
\* not registered or did not finish.
THEOREM EveryWorkerEnds ==
    SwarmSpec =>
        [](/\ phase = "batch" => batch # {}
           /\ phase = "done" => \A w \in Workers :
                /\ state[w] \in {"done", "failed", "blocked"}
                /\ state[w] # "blocked" <=> w \in DOMAIN results
                /\ state[w] = "blocked" <=>
                      \E d \in ToSet(Deps(w)) : d \notin Workers \/ state[d] # "done")
  <1>1. SwarmInit => Settled
    BY DEF SwarmInit, Settled
  <1>2. SwarmInv /\ Settled /\ [SwarmNext]_swarmVars => Settled'
    BY SettledStep DEF SwarmInv
  <1>3. SwarmInv /\ Settled =>
           (/\ phase = "batch" => batch # {}
            /\ phase = "done" => \A w \in Workers :
                /\ state[w] \in {"done", "failed", "blocked"}
                /\ state[w] # "blocked" <=> w \in DOMAIN results
                /\ state[w] = "blocked" <=>
                      \E d \in ToSet(Deps(w)) : d \notin Workers \/ state[d] # "done")
    <2> SUFFICES ASSUME SwarmInv, Settled, phase = "done", NEW w \in Workers
                 PROVE  /\ state[w] \in {"done", "failed", "blocked"}
                        /\ state[w] # "blocked" <=> w \in DOMAIN results
                        /\ state[w] = "blocked" <=>
                              \E d \in ToSet(Deps(w)) : d \notin Workers \/ state[d] # "done"
      BY DEF Settled
    <2>1. DOMAIN held = {} /\ DOMAIN seen = DOMAIN results /\ DOMAIN seen \subseteq Workers
      BY DEF SwarmInv, SwarmBase, Placed
    <2>2. state[w] \in {"done", "failed", "blocked"}
      BY <2>1 DEF SwarmInv, SwarmBase, States, Settled
    <2>3. state[w] # "blocked" <=> w \in DOMAIN results
      BY <2>1, <2>2 DEF SwarmInv, Placed, Settled
    <2>4. ASSUME state[w] = "blocked"
          PROVE  \E d \in ToSet(Deps(w)) : d \notin Workers \/ state[d] # "done"
      BY <2>4 DEF Settled, Hopeless
    <2>5. ASSUME state[w] # "blocked", NEW d \in ToSet(Deps(w)) PROVE d \in Workers /\ state[d] = "done"
      <3>1. d \in DOMAIN results /\ results[d].state = "done"
        BY <2>1, <2>3, <2>5 DEF SwarmInv, Supplied
      <3> QED BY <2>1, <3>1 DEF SwarmInv, Placed
    <2> QED BY <2>2, <2>3, <2>4, <2>5
  <1> QED BY <1>1, <1>2, <1>3, SwarmInvariant, PTL DEF SwarmSpec
=============================================================================
