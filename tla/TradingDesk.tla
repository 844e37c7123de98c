----------------------------- MODULE TradingDesk -----------------------------
(***************************************************************************)
(* The trading desk as its processes share it: the continuous loop, which  *)
(* trades and then manages (runtime/continuous_loop.py), the run-manager   *)
(* command, which only manages (cli/app.py), and an operator who halts,    *)
(* resumes and resets.  They meet in the ledger: the saved portfolio, the  *)
(* kill switch, the orders and the equity history.                         *)
(*                                                                         *)
(* Prices are a few levels, a fill is at the price and free, a cycle that  *)
(* finds no universe changes nothing.  How an order reaches the stores is  *)
(* the subject of PaperTrading: here a fill and its save are one step.     *)
(***************************************************************************)
EXTENDS Integers, FiniteSets, FiniteSetsExt

CONSTANTS
    Tickers,
    None,
    MaxPrice,
    Entries,      \* prices at which a signal enters
    StopRoom,     \* how far under the entry a signal may put its stop
    MinDistance,  \* min_stop_distance_pct, in price levels
    Trails,       \* chandelier distances, multiplier * ATR
    MaxLosses,    \* max_consecutive_losses
    MaxFailures

ASSUME DeskAssumption ==
    /\ {MaxPrice, MinDistance, MaxLosses, MaxFailures} \subseteq Nat \ {0}
    /\ Entries \subseteq 1..MaxPrice
    /\ {StopRoom, Trails} \subseteq SUBSET (Nat \ {0})
    /\ None \notin Int
    /\ IsFiniteSet(Tickers)

VARIABLES
    price,
    saved,     \* the positions of the saved portfolio
    halted,    \* the kill switch
    streak,    \* losing SELL rows since the last winning one
    deep,      \* the equity history holds a drawdown past the limit
    pass,      \* what each process is doing, with its copy of the positions
    failures   \* consecutive failures of each process

vars == <<price, saved, halted, streak, deep, pass, failures>>
ledger == <<saved, halted, streak, deep>>

Processes == {"loop", "run-manager"}
Prices == 1..MaxPrice
\* high, risk: highest_high and initial_risk, None until a pass sets them.
Position == [entry : Entries, stop : Int, high : Prices \cup {None},
             risk : Nat \cup {None}, partial : BOOLEAN]
Positions == [Tickers -> Position \cup {None}]
Pass == [pc : {"idle", "trading", "traded", "managing", "stopped"},
         todo : SUBSET Tickers, copy : Positions, dirty : BOOLEAN]

Empty == [t \in Tickers |-> None]
Idle == [pc |-> "idle", todo |-> {}, copy |-> Empty, dirty |-> FALSE]
Held(positions) == {t \in Tickers : positions[t] # None}

TypeOK ==
    /\ price \in [Tickers -> Prices]
    /\ saved \in Positions
    /\ halted \in BOOLEAN /\ deep \in BOOLEAN
    /\ streak \in Nat
    /\ pass \in [Processes -> Pass]
    /\ failures \in [Processes -> 0..MaxFailures]

Init ==
    /\ price \in [Tickers -> Entries]
    /\ saved = Empty
    /\ halted = FALSE /\ deep = FALSE
    /\ streak = 0
    /\ pass = [p \in Processes |-> Idle]
    /\ failures = [p \in Processes |-> 0]

-----------------------------------------------------------------------------
(* The gates every pass goes through                                       *)

\* Variant: only the check that crosses a threshold notices it.
TrippedAtThreshold == streak = MaxLosses \/ deep

\* check_circuit_breakers: a resume does not bring the counts down.
Tripped == streak >= MaxLosses \/ deep

\* get_kill_switch_state, set_kill_switch: one row, and the last writer wins.
Trades == ~halted
SetKillSwitch(on) == halted' = on
Halt == SetKillSwitch(TRUE)
Resume == SetKillSwitch(FALSE)

\* Variant: a halt is only looked up by the trading run.
EnterBlind(p, pc, refused, todo, dirty) ==
    /\ IF (~halted \/ pc = "managing") /\ ~Tripped
       THEN /\ pass' = [pass EXCEPT ![p] = [pc |-> pc, todo |-> todo, copy |-> saved, dirty |-> dirty]]
            /\ UNCHANGED halted
       ELSE /\ pass' = [pass EXCEPT ![p] = [Idle EXCEPT !.pc = refused]]
            /\ halted' = TRUE
    /\ UNCHANGED <<price, saved, streak, deep>>

\* The pass loads the portfolio and asks the kill switch, then the breakers, once.
Enter(p, pc, refused, todo, dirty) ==
    /\ IF Trades /\ ~Tripped
       THEN /\ pass' = [pass EXCEPT ![p] = [pc |-> pc, todo |-> todo, copy |-> saved, dirty |-> dirty]]
            /\ UNCHANGED halted
       ELSE /\ pass' = [pass EXCEPT ![p] = [Idle EXCEPT !.pc = refused]]
            /\ Halt
    /\ UNCHANGED <<price, saved, streak, deep>>

\* record_equity_snapshot: what it adds may be a new worst drawdown.
Snapshot == deep' \in {deep, TRUE}

\* The pass changes its position of t and saves the portfolio it holds.
SaveCopy(p, t, position) ==
    /\ pass' = [pass EXCEPT ![p].copy[t] = position, ![p].todo = @ \ {t}]
    /\ saved' = pass'[p].copy
    /\ Snapshot

-----------------------------------------------------------------------------
(* run_paper_trade, in the loop                                            *)

StartTrading ==
    /\ pass["loop"].pc = "idle"
    /\ \E approved \in SUBSET Tickers \ {{}} : Enter("loop", "trading", "traded", approved, FALSE)
    /\ UNCHANGED failures

NothingApproved ==
    /\ pass["loop"].pc = "idle"
    /\ pass' = [pass EXCEPT !["loop"].pc = "traded"]
    /\ UNCHANGED <<price, ledger, failures>>

Buy(t) ==
    /\ pass["loop"].pc = "trading"
    /\ t \in pass["loop"].todo
    /\ pass["loop"].copy[t] = None
    /\ price[t] \in Entries
    /\ \E room \in StopRoom :
          SaveCopy("loop", t, [entry |-> price[t], stop |-> price[t] - room, high |-> None,
                               risk |-> None, partial |-> FALSE])
    /\ UNCHANGED <<price, halted, streak, failures>>

EndTrading ==
    /\ pass["loop"].pc = "trading"
    /\ pass' = [pass EXCEPT !["loop"] = [Idle EXCEPT !.pc = "traded"]]
    /\ UNCHANGED <<price, ledger, failures>>

-----------------------------------------------------------------------------
(* _run_manage_positions_once, of the loop and of the command line         *)

\* The loop saves at its end in any case, the command only what it changed.
\* A refused pass is a cycle that went well.
StartManaging(p) ==
    /\ pass[p].pc = IF p = "loop" THEN "traded" ELSE "idle"
    /\ Enter(p, "managing", "idle", Held(saved), p = "loop")
    /\ failures' = IF pass'[p].pc = "idle" THEN [failures EXCEPT ![p] = 0] ELSE failures

At(p, t) == pass[p].pc = "managing" /\ t \in pass[p].todo

MinStop(position) == position.entry - MinDistance

\* Variant: stops at and above the entry are widened too.
WidenedAlways(position) ==
    IF position.stop > MinStop(position)
    THEN [position EXCEPT !.stop = MinStop(position)] ELSE position

\* A stop nearer to the entry than the minimum is moved down to it.
Widened(position) ==
    IF MinStop(position) < position.stop /\ position.stop < position.entry
    THEN [position EXCEPT !.stop = MinStop(position)] ELSE position

\* Variant: touching the stop does not count.
StoppedBelow(position, last) == last < position.stop

Stopped(position, last) == last <= position.stop

\* get_consecutive_losses, with a row more: it counts back to the latest sale
\* that lost nothing.
LosingStreak(position, last) == IF last < position.entry THEN streak + 1 ELSE 0

\* The SELL row, and with it the streak of losses.
Sold(p, t, rest) ==
    /\ SaveCopy(p, t, rest)
    /\ streak' = LosingStreak(pass[p].copy[t], price[t])
    /\ UNCHANGED <<price, halted, failures>>

\* eod, stop, target, time or counter thesis: all of them may ask for a full exit.
SellAll(p, t) == At(p, t) /\ Sold(p, t, None)

\* The profit target takes half, once, and puts the stop at break-even or better.
SellHalf(p, t) ==
    /\ At(p, t)
    /\ LET position == Widened(pass[p].copy[t]) IN
       /\ ~Stopped(position, price[t])
       /\ ~position.partial
       /\ Sold(p, t, [position EXCEPT !.stop = Max({@, position.entry}), !.partial = TRUE])

\* ratchet_stop and chandelier_stop; ATR is missing or one of the distances.
Ratchets(position, last) ==
    IF position.risk = None \/ last - position.risk < position.entry THEN {}
    ELSE {last - position.risk}
Chandeliers(position, trail) ==
    IF position.high = None \/ trail = None THEN {} ELSE {position.high - trail}

\* next_trailing_stop: the candidates over the present stop.
Trailing(position, last, trail) ==
    {c \in Ratchets(position, last) \cup Chandeliers(position, trail) : c > position.stop}

Higher(high, last) == IF high = None THEN last ELSE Max({high, last})

\* The loop writes the tighter stop to its copy, and sells when the price is under it.
TrailInLoop(t) ==
    /\ At("loop", t)
    /\ LET position == Widened(pass["loop"].copy[t]) IN
       /\ ~Stopped(position, price[t])
       /\ \E trail \in Trails \cup {None} :
             LET stops == Trailing(position, price[t], trail)
                 stop == IF stops = {} THEN position.stop ELSE Max(stops)
             IN IF stops # {} /\ price[t] <= stop THEN Sold("loop", t, None)
                ELSE /\ pass' = [pass EXCEPT
                            !["loop"].todo = @ \ {t},
                            !["loop"].copy[t] = [position EXCEPT !.stop = stop,
                                                                 !.high = Higher(@, price[t])]]
                     /\ UNCHANGED <<price, ledger, failures>>

\* The command locks the initial risk in, reads the high of the bar, and never sells here.
TrailInCommand(t) ==
    /\ At("run-manager", t)
    /\ LET position == Widened(pass["run-manager"].copy[t]) IN
       /\ ~Stopped(position, price[t])
       /\ \E trail \in Trails \cup {None}, barHigh \in {price[t], MaxPrice} :
             LET trailed == [position EXCEPT
                     !.high = Higher(@, barHigh),
                     !.risk = IF @ = None /\ position.stop < position.entry
                              THEN position.entry - position.stop ELSE @]
                 stops == Trailing(trailed, price[t], trail)
             IN IF stops # {}
                THEN /\ SaveCopy("run-manager", t, [trailed EXCEPT !.stop = Max(stops)])
                     /\ UNCHANGED <<price, halted, streak, failures>>
                ELSE /\ pass' = [pass EXCEPT
                            !["run-manager"].todo = @ \ {t},
                            !["run-manager"].copy[t] = position,
                            !["run-manager"].dirty = @ \/ position # pass["run-manager"].copy[t]]
                     /\ UNCHANGED <<price, ledger, failures>>

\* No bars, invalid or stale ones, a recent exit, a sale that raised.
SkipTicker(p, t) ==
    /\ At(p, t)
    /\ pass' = [pass EXCEPT ![p].todo = @ \ {t}]
    /\ UNCHANGED <<price, ledger, failures>>

EndManaging(p) ==
    /\ pass[p].pc = "managing" /\ pass[p].todo = {}
    /\ pass' = [pass EXCEPT ![p] = Idle]
    /\ failures' = [failures EXCEPT ![p] = 0]
    /\ IF pass[p].dirty THEN saved' = pass[p].copy /\ Snapshot ELSE UNCHANGED <<saved, deep>>
    /\ UNCHANGED <<price, halted, streak>>

\* Any other exception ends the cycle; too many in a row end the process.
CycleFails(p) ==
    /\ pass[p].pc # "stopped"
    /\ failures' = [failures EXCEPT ![p] = @ + 1]
    /\ pass' = [pass EXCEPT ![p] = [Idle EXCEPT !.pc = IF failures'[p] >= MaxFailures
                                                       THEN "stopped" ELSE "idle"]]
    /\ UNCHANGED <<price, ledger>>

Restart(p) ==
    /\ pass[p].pc = "stopped"
    /\ pass' = [pass EXCEPT ![p] = Idle]
    /\ failures' = [failures EXCEPT ![p] = 0]
    /\ UNCHANGED <<price, ledger>>

-----------------------------------------------------------------------------
(* The operator, the market                                                *)

HaltOrResume == (Halt \/ Resume) /\ UNCHANGED <<price, saved, streak, deep, pass, failures>>

\* reset-portfolio: the portfolio, the orders and the equity history start anew,
\* the kill switch and the copies of the passes under way stay.
Reset ==
    /\ saved' = Empty /\ streak' = 0 /\ deep' = FALSE
    /\ UNCHANGED <<price, halted, pass, failures>>

PriceMoves ==
    /\ \E t \in Tickers, q \in Prices : price' = [price EXCEPT ![t] = q]
    /\ UNCHANGED <<ledger, pass, failures>>

Look(t) == (\E p \in Processes : SellAll(p, t) \/ SellHalf(p, t)) \/ TrailInLoop(t) \/ TrailInCommand(t)

Next ==
    \/ StartTrading \/ NothingApproved \/ EndTrading
    \/ \E t \in Tickers : Buy(t) \/ Look(t) \/ \E p \in Processes : SkipTicker(p, t)
    \/ \E p \in Processes : StartManaging(p) \/ EndManaging(p) \/ CycleFails(p) \/ Restart(p)
    \/ HaltOrResume \/ Reset \/ PriceMoves

Spec == Init /\ [][Next]_vars
-----------------------------------------------------------------------------
(* Properties                                                              *)

(***************************************************************************)
(* A pass takes no protection away: while it holds a position its stop     *)
(* never falls once it is at the entry or above, and below the entry it    *)
(* falls at most to the minimum distance (the widening of continuous_loop  *)
(* and of the command, the two trailing stops, the break-even stop).       *)
(***************************************************************************)
StopsHold ==
    [][\A p \in Processes, t \in Tickers :
          LET old == pass[p].copy[t]  new == pass'[p].copy[t] IN
          pass[p].pc = "managing" /\ old # None /\ new # None =>
              new.stop >= IF old.stop >= old.entry THEN old.stop ELSE Min({old.stop, MinStop(old)})]_vars

(***************************************************************************)
(* check_circuit_breakers is asked once per pass: losses go on while the   *)
(* passes in flight sell what they hold, each ticker once, and no further. *)
(***************************************************************************)
LossesBounded == streak < MaxLosses + Cardinality(Processes) * Cardinality(Tickers)

\* An order of the pass of p.
Orders(p) ==
    /\ pass[p].pc \in {"trading", "managing"} /\ pass'[p].pc = pass[p].pc
    /\ saved' # saved /\ Held(pass[p].copy) # Held(pass'[p].copy)

(***************************************************************************)
(* halt_trading, "Halt all trading activity": passes under way may finish, *)
(* and if nobody resumes the desk places no order from then on.            *)
(***************************************************************************)
HaltStopsTheDesk == <>[]halted => <>[][\A p \in Processes : ~Orders(p)]_vars

(***************************************************************************)
(* A position whose saved stop (at break-even or better, or no nearer than *)
(* the minimum) is at or over the price does not stay so once the price    *)
(* has settled, while passes go on looking at the ticker with usable data: *)
(* whoever looks, and whatever a stale copy writes back in between.        *)
(***************************************************************************)
Breached(t) ==
    /\ saved[t] # None
    /\ price[t] <= saved[t].stop
    /\ saved[t].stop >= saved[t].entry \/ saved[t].stop <= MinStop(saved[t])
StopHonoured ==
    \A t \in Tickers :
        []<><<Look(t)>>_vars /\ <>[][price'[t] = price[t]]_vars
            => (Breached(t) ~> ~Breached(t))
=============================================================================
