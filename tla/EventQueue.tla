----------------------------- MODULE EventQueue -----------------------------
(***************************************************************************)
(* EventQueue (src/event_engine/queue.py) under threads: producers in put  *)
(* or put_nowait, consumers in get with or without a timeout, a caller of  *)
(* join and one of poison.  What the code does under its lock, and each    *)
(* call of the inner PriorityQueue or of the semaphore, is one step.       *)
(* _unfinished_tasks is left out: the code writes it and reads it nowhere. *)
(***************************************************************************)
EXTENDS Integers, FiniteSets

CONSTANTS
    Producers, Consumers,
    Joiner,
    OrderIds,     \* ids of order events
    None,         \* no order id; nothing consumed yet
    MaxSize,      \* bound of the queue, 0 for none
    MaxTime,      \* bound: timestamps of events
    MaxPuts,      \* bound: calls of put
    MayPoison

ASSUME QueueAssumption ==
    /\ {MaxSize, MaxTime, MaxPuts} \subseteq Nat
    /\ MayPoison \in BOOLEAN
    /\ None \notin OrderIds \cup Int
    /\ Producers \cap Consumers = {} /\ Joiner \notin Producers \cup Consumers

VARIABLES
    heap,         \* entries [at, seq, id]
    seq,          \* _seq
    lastConsumed, \* _last_consumed_ns
    known,        \* _known_order_ids
    poisoned,
    finished,     \* the semaphore _finished
    pc,           \* where each thread is
    hand,         \* the event or entry it is working on
    joined,       \* has a call of join returned?
    delivered,    \* entries that get returned
    dropped       \* entries that get popped and raised for

vars == <<heap, seq, lastConsumed, known, poisoned, finished, pc, hand, joined,
          delivered, dropped>>
consumed == <<lastConsumed, finished, delivered, dropped>>

Threads == Producers \cup Consumers \cup {Joiner}
Event == [at : 0..MaxTime, id : OrderIds \cup {None}]
Entry == [at : 0..MaxTime, seq : Nat, id : OrderIds \cup {None}]
Steps == {"idle", "accept", "insert", "poll", "wait", "timed",
          "check", "release", "recheck", "late", "return", "join", "drain"}

ASSUME NoEntryAssumption == None \notin Event \cup Entry

TypeOK ==
    /\ heap \subseteq Entry
    /\ MaxSize > 0 => Cardinality(heap) <= MaxSize
    /\ seq \in 0..MaxPuts
    /\ lastConsumed \in 0..MaxTime \cup {None}
    /\ known \subseteq OrderIds
    /\ poisoned \in BOOLEAN
    /\ finished \in Nat
    /\ pc \in [Threads -> Steps]
    /\ hand \in [Threads -> Event \cup Entry \cup {None}]
    /\ joined \in BOOLEAN
    /\ delivered \subseteq Entry
    /\ dropped \subseteq Entry

Init ==
    /\ heap = {}
    /\ seq = 0
    /\ lastConsumed = None
    /\ known = {}
    /\ poisoned = FALSE
    /\ finished = 0
    /\ pc = [t \in Threads |-> "idle"]
    /\ hand = [t \in Threads |-> None]
    /\ joined = FALSE
    /\ delivered = {}
    /\ dropped = {}
-----------------------------------------------------------------------------
At(t, step) == pc[t] = step
Goto(t, step) == pc' = [pc EXCEPT ![t] = step] /\ UNCHANGED joined
\* The call of t returns, or raises.
Ends(t) == Goto(t, "idle")
Takes(t, e) == hand' = [hand EXCEPT ![t] = e]

\* Variant: full one entry early.
FullEarly == MaxSize > 0 /\ Cardinality(heap) + 1 >= MaxSize
Full == MaxSize > 0 /\ Cardinality(heap) >= MaxSize
Accepting == {p \in Producers : At(p, "accept")}

\* put looks at the poison once, before the lock; put_nowait looks at the heap first,
\* and then puts like any other call.
BeginPut(p, e, nowait) ==
    /\ At(p, "idle")
    /\ seq + Cardinality(Accepting) < MaxPuts
    /\ IF nowait /\ Full THEN Ends(p) /\ UNCHANGED hand
       ELSE IF poisoned THEN Ends(p) /\ UNCHANGED hand
       ELSE Goto(p, "accept") /\ Takes(p, e)
    /\ UNCHANGED <<heap, seq, known, poisoned, consumed>>

Numbered(e) == [at |-> e.at, seq |-> seq, id |-> e.id]

\* Variant: an order id is not looked up.
AcceptAny(p) ==
    /\ At(p, "accept")
    /\ known' = known \cup ({hand[p].id} \ {None})
    /\ Takes(p, Numbered(hand[p]))
    /\ seq' = seq + 1
    /\ Goto(p, "insert")
    /\ UNCHANGED <<heap, poisoned, consumed>>

\* Under the lock: an order id is accepted once, and the entry gets its number.
Accept(p) ==
    /\ At(p, "accept")
    /\ IF hand[p].id \in known
       THEN Ends(p) /\ Takes(p, None) /\ UNCHANGED <<known, seq>>  \* DuplicateOrderIdError
       ELSE /\ known' = known \cup ({hand[p].id} \ {None})
            /\ Takes(p, Numbered(hand[p]))
            /\ seq' = seq + 1
            /\ Goto(p, "insert")
    /\ UNCHANGED <<heap, poisoned, consumed>>

\* The inner put blocks while the heap is full; it never raises queue.Full.
Insert(p) ==
    /\ At(p, "insert")
    /\ ~Full
    /\ heap' = heap \cup {hand[p]}
    /\ Takes(p, None)
    /\ Ends(p)
    /\ UNCHANGED <<seq, known, poisoned, consumed>>
-----------------------------------------------------------------------------
\* get(0) polls and never looks at the poison; the others look once and then block in
\* the heap, "timed" with a timeout.
BeginGet(c, how) ==
    /\ At(c, "idle")
    /\ IF how # "poll" /\ poisoned THEN Ends(c) ELSE Goto(c, how)
    /\ UNCHANGED <<heap, seq, known, poisoned, consumed, hand>>

Starve(c) ==
    /\ At(c, "timed") \/ (At(c, "poll") /\ heap = {})
    /\ Ends(c)
    /\ UNCHANGED <<heap, seq, known, poisoned, consumed, hand>>

Before(e, f) == e.at < f.at \/ (e.at = f.at /\ e.seq < f.seq)

Pop(c) ==
    /\ pc[c] \in {"poll", "wait", "timed"}
    /\ \E e \in heap :
          /\ \A f \in heap \ {e} : Before(e, f)
          /\ heap' = heap \ {e}
          /\ Takes(c, e)
    /\ Goto(c, "check")
    /\ UNCHANGED <<seq, known, poisoned, consumed>>

\* Variant: an event at the time consumed is late.
LateOrEqual(c) == lastConsumed # None /\ hand[c].at <= lastConsumed
Late(c) == lastConsumed # None /\ hand[c].at < lastConsumed

\* _finalize_pop compares with and then advances the time consumed, under the lock;
\* a late event is raised for before anything is counted.
CheckTime(c) ==
    /\ At(c, "check")
    /\ IF Late(c)
       THEN /\ Ends(c)
            /\ Takes(c, None)
            /\ dropped' = dropped \cup {hand[c]}
            /\ UNCHANGED lastConsumed
       ELSE lastConsumed' = hand[c].at /\ Goto(c, "release") /\ UNCHANGED <<hand, dropped>>
    /\ UNCHANGED <<heap, seq, known, poisoned, finished, delivered>>

Release(c) ==
    /\ At(c, "release")
    /\ finished' = finished + 1
    /\ Goto(c, "recheck")
    /\ UNCHANGED <<heap, seq, lastConsumed, known, poisoned, hand, delivered, dropped>>

\* The same comparison once more.
CheckTimeAgain(c) ==
    /\ At(c, "recheck")
    /\ IF Late(c) THEN Goto(c, "late") /\ UNCHANGED lastConsumed
       ELSE lastConsumed' = hand[c].at /\ Goto(c, "return")
    /\ UNCHANGED <<heap, seq, known, poisoned, finished, hand, delivered, dropped>>

\* The finally clause releases a second time; then get returns the event or raises.
EndGet(c) ==
    /\ finished' = finished + 1
    /\ Takes(c, None)
    /\ \/ /\ At(c, "return")
          /\ Ends(c)
          /\ delivered' = delivered \cup {hand[c]} /\ UNCHANGED dropped
       \/ /\ At(c, "late")
          /\ Ends(c)
          /\ dropped' = dropped \cup {hand[c]} /\ UNCHANGED delivered
    /\ UNCHANGED <<heap, seq, lastConsumed, known, poisoned>>

FinalizePop(c) == CheckTime(c) \/ Release(c) \/ CheckTimeAgain(c) \/ EndGet(c)
-----------------------------------------------------------------------------
Poison ==
    /\ MayPoison
    /\ poisoned' = TRUE
    /\ UNCHANGED <<heap, seq, known, consumed, pc, hand, joined>>

BeginJoin ==
    /\ At(Joiner, "idle")
    /\ Goto(Joiner, "join")
    /\ UNCHANGED <<heap, seq, known, poisoned, consumed, hand>>

\* join waits for one release, then takes those that are there.
Join ==
    /\ At(Joiner, "join")
    /\ finished > 0
    /\ finished' = finished - 1
    /\ Goto(Joiner, "drain")
    /\ UNCHANGED <<heap, seq, lastConsumed, known, poisoned, hand, delivered, dropped>>

Drain ==
    /\ At(Joiner, "drain")
    /\ IF finished > 0 THEN finished' = finished - 1 /\ UNCHANGED <<pc, joined>>
       ELSE pc' = [pc EXCEPT ![Joiner] = "idle"] /\ joined' = TRUE /\ UNCHANGED finished
    /\ UNCHANGED <<heap, seq, lastConsumed, known, poisoned, hand, delivered, dropped>>

Put(p) == Accept(p) \/ Insert(p)

Next ==
    \/ \E p \in Producers : Put(p) \/ \E e \in Event, nowait \in BOOLEAN : BeginPut(p, e, nowait)
    \/ \E c \in Consumers :
          \/ Pop(c) \/ Starve(c) \/ FinalizePop(c)
          \/ \E how \in {"poll", "wait", "timed"} : BeginGet(c, how)
    \/ Poison \/ BeginJoin \/ Join \/ Drain

\* A thread inside a call runs on, and each consumer calls get once more when it is idle.
Fairness ==
    /\ \A p \in Producers : WF_vars(Put(p))
    /\ \A c \in Consumers :
          /\ SF_vars(Pop(c))
          /\ WF_vars(FinalizePop(c))
          /\ WF_vars(\E how \in {"poll", "wait", "timed"} : BeginGet(c, how))

Spec == Init /\ [][Next]_vars /\ Fairness
-----------------------------------------------------------------------------
InHand == {hand[t] : t \in {u \in Threads : hand[u] # None /\ ~At(u, "accept")}}
Accepted == heap \cup InHand \cup delivered \cup dropped

(***************************************************************************)
(* "Two events cannot describe the same order": of all the producers that  *)
(* race to put one order id, only one gets it accepted, and each accepted  *)
(* event is in one place at a time, none of them gone.                     *)
(***************************************************************************)
OneEventPerOrder ==
    /\ \A e, f \in Accepted : e.id = f.id /\ e.id # None => e = f
    /\ Cardinality(Accepted) = seq

(***************************************************************************)
(* A consumer drops an event only when an event later than it was popped   *)
(* before: events of equal time never push each other out, although each   *)
(* pop is checked twice and consumers overlap between pop and check.       *)
(***************************************************************************)
DroppedBehindLater ==
    \A e \in dropped :
        \E f \in delivered \cup dropped \cup {hand[c] : c \in Consumers} :
            f # None /\ f.at > e.at

(***************************************************************************)
(* A producer that the bound of the queue blocks gets in while consumers   *)
(* keep getting, unless the queue is poisoned: then they stop, and it may  *)
(* wait for ever.                                                          *)
(***************************************************************************)
BlockedPutGetsIn == \A p \in Producers : At(p, "insert") ~> (At(p, "idle") \/ poisoned)
=============================================================================
