------------------------- MODULE ExperimentLifecycle -------------------------
(***************************************************************************)
(* The tuning-experiment controller and the files it owns: propose,        *)
(* evaluate and rollback (controller.py), the runtime canary a trading     *)
(* cycle holds (runtime_canary.py), the store below both (store.py), and   *)
(* an operator who edits the live overrides file.                          *)
(*                                                                         *)
(* Every write to current.json, to the overrides file and to the snapshot  *)
(* directory is a step of its own, so that a crash or another process may  *)
(* come between any two.  The content of the overrides file is abstract:   *)
(* an operator's version, no file, or the candidate of an experiment,      *)
(* which is represented by the experiment's id.                            *)
(***************************************************************************)
EXTENDS Naturals

CONSTANTS
    Experiments,      \* the ids experiments are given (a UTC stamp: never reused)
    OperatorBytes,    \* the overrides an operator may write by hand
    Absent,           \* the overrides file does not exist
    None,             \* no state, no snapshot
    EarlyTrades,      \* EARLY_ROLLBACK_TRADES
    MinTrades,        \* MIN_CANARY_TRADES
    TimeoutSessions,  \* TIMEOUT_SESSIONS
    Overlap,          \* may a controller command run during a trading cycle?
    MaxFills,         \* bound: realized SELLs per shadow ledger
    MaxCrashes,       \* bound: process crashes
    MaxEdits          \* bound: edits made by hand

Statuses == {"PROPOSED", "CANARY", "KEPT", "ROLLED_BACK", "INCONCLUSIVE",
             "ERROR", "OFFLINE_REJECTED"}
TerminalStatuses == Statuses \ {"PROPOSED", "CANARY"}

OperatorContents == OperatorBytes \cup {Absent}
Contents == OperatorContents \cup Experiments

\* models.ExperimentState: what current.json holds and a command keeps in memory.
ExperimentState ==
    [id : Experiments, status : Statuses, base : Contents, armed : BOOLEAN,
     trades : 0..MaxFills, sessions : 0..TimeoutSessions, measured : BOOLEAN]

ASSUME ConstantsAssumption ==
    /\ EarlyTrades \in Nat /\ MinTrades \in Nat /\ TimeoutSessions \in Nat
    /\ 0 < MinTrades /\ 0 < TimeoutSessions
    /\ Overlap \in BOOLEAN
    /\ MaxFills \in Nat /\ MaxCrashes \in Nat /\ MaxEdits \in Nat
    /\ Experiments \cap OperatorContents = {}
    /\ None \notin Contents
    /\ None \notin ExperimentState

VARIABLES
    overrides,  \* tuning_overrides.yaml, which the next bot process loads
    cur,        \* current.json, or None
    snap,       \* <root>/<id>/: the baseline and candidate snapshots
    archived,   \* status filed under archived/<id>/, or "none"
    proc,       \* the running controller command and the running trading cycle
    shadow,     \* realized SELLs in the paired shadow ledgers of each experiment
    position,   \* the live position, and which shadow ledgers hold it too
    crashes, edits

vars == <<overrides, cur, snap, archived, proc, shadow, position, crashes, edits>>

Procs == {"controller", "bot"}
ControllerSteps == {"proposing", "offline", "arm", "check", "activate", "started", "decide"}
FinalizeSteps == {"restore", "save", "archive", "move", "files"}
Steps == {"idle", "trading"} \cup ControllerSteps \cup FinalizeSteps

Snapshot == [base : Contents \cup {None}, cand : {"ok", "drifted", "missing"}]
NoSnapshot == [base |-> None, cand |-> "missing"]
\* stray: a tagged SELL found no shares in the shadow, so the candidate ledger alone
\* has its order id (one such SELL is remembered).
ShadowFills == [cand : 0..MaxFills, base : 0..MaxFills, stray : BOOLEAN]
NoFills == [cand |-> 0, base |-> 0, stray |-> FALSE]

\* Held by no shadow ledger, by both, or by the candidate's only.
Positions == {"none", "untracked", "paired", "unpaired"}
Flat == position = "none"

\* noted: this command has logged baseline_drift_detected.
Process == [pc : Steps, st : ExperimentState \cup {None}, target : Statuses, noted : BOOLEAN]
Idle == [pc |-> "idle", st |-> None, target |-> "ERROR", noted |-> FALSE]
\* A cycle that keeps trading without (or no longer with) a canary context.
Untracked == [Idle EXCEPT !.pc = "trading"]

TypeOK ==
    /\ overrides \in Contents
    /\ cur \in ExperimentState \cup {None}
    /\ snap \in [Experiments -> Snapshot]
    /\ archived \in [Experiments -> Statuses \cup {"none"}]
    /\ proc \in [Procs -> Process]
    /\ shadow \in [Experiments -> ShadowFills]
    /\ position \in Positions
    /\ crashes \in 0..MaxCrashes
    /\ edits \in 0..MaxEdits

Init ==
    /\ overrides \in OperatorContents
    /\ cur = None
    /\ snap = [e \in Experiments |-> NoSnapshot]
    /\ archived = [e \in Experiments |-> "none"]
    /\ proc = [p \in Procs |-> Idle]
    /\ shadow = [e \in Experiments |-> NoFills]
    /\ position = "none"
    /\ crashes = 0
    /\ edits = 0

-----------------------------------------------------------------------------
(* Control flow shared by the commands.                                    *)

At(p, step) == proc[p].pc = step
Goto(p, step) == proc' = [proc EXCEPT ![p].pc = step]
GotoWith(p, step, st) == proc' = [proc EXCEPT ![p].pc = step, ![p].st = st]
\* Variant: the cycle forgets that its canary was invalidated.
FinishedKeepsContext(p) ==
    IF p = "bot" THEN [Untracked EXCEPT !.st = proc[p].st] ELSE Idle

\* A controller command ends; a cycle goes on without its canary.
Finished(p) == IF p = "bot" THEN Untracked ELSE Idle
Finish(p) == proc' = [proc EXCEPT ![p] = Finished(p)]

\* finalize_terminal is called with this state, outcome and drift note.
Finalize(p, st, outcome, noted) ==
    proc' = [proc EXCEPT ![p] =
                [pc |-> "restore", st |-> st, target |-> outcome, noted |-> noted]]

\* The main loop runs its tuning between trading cycles; an operator's command, or a
\* tuning as late as the watchdog's pass, need not be.
MayStart(p) ==
    /\ At(p, "idle")
    /\ Overlap \/ \A q \in Procs : At(q, "idle")

\* store.detect_baseline_drift: the live file is not what was recorded at proposal.
BaselineDrifted(st) == overrides # st.base

-----------------------------------------------------------------------------
(* propose                                                                 *)

Unused(e) == archived[e] = "none" /\ snap[e] = NoSnapshot

\* Variant: no marker is written for an overrides file that does not exist.
ProposeSnapshotNoMarker(e) ==
    /\ MayStart("controller")
    /\ cur = None
    /\ Unused(e)
    /\ snap' = [snap EXCEPT ![e] =
          [base |-> IF overrides = Absent THEN None ELSE overrides, cand |-> "ok"]]
    /\ GotoWith("controller", "proposing",
                [id |-> e, status |-> "PROPOSED", base |-> overrides, armed |-> FALSE,
                 trades |-> 0, sessions |-> 0, measured |-> FALSE])
    /\ UNCHANGED <<overrides, cur, archived, shadow, position, crashes, edits>>

\* A proposal snapshots the live bytes and the candidate built from them.
ProposeSnapshot(e) ==
    /\ MayStart("controller")
    /\ cur = None
    /\ Unused(e)
    /\ snap' = [snap EXCEPT ![e] = [base |-> overrides, cand |-> "ok"]]
    /\ GotoWith("controller", "proposing",
                [id |-> e, status |-> "PROPOSED", base |-> overrides, armed |-> FALSE,
                 trades |-> 0, sessions |-> 0, measured |-> FALSE])
    /\ UNCHANGED <<overrides, cur, archived, shadow, position, crashes, edits>>

ProposeSave ==
    /\ At("controller", "proposing")
    /\ cur' = proc["controller"].st
    /\ Finish("controller")
    /\ UNCHANGED <<overrides, snap, archived, shadow, position, crashes, edits>>

-----------------------------------------------------------------------------
(* evaluate                                                                *)

\* store.detect_candidate_drift: missing, or not the bytes of the proposal.
CandidateDrifted(e) == snap[e].cand # "ok"

\* Variant: a proposal that is armed already is taken for started.
EvaluateLoadSkipsArmed ==
    /\ MayStart("controller")
    /\ cur # None
    /\ \/ /\ cur.status = "PROPOSED" /\ ~cur.armed
          /\ IF CandidateDrifted(cur.id)
             THEN Finalize("controller", cur, "ERROR", FALSE)
             ELSE GotoWith("controller", "offline", cur)
       \/ /\ cur.status = "CANARY"
          /\ GotoWith("controller", "decide", cur)
    /\ UNCHANGED <<overrides, cur, snap, archived, shadow, position, crashes, edits>>

\* Any other status is returned as it is: evaluate does nothing.
EvaluateLoad ==
    /\ MayStart("controller")
    /\ cur # None
    /\ \/ /\ cur.status = "PROPOSED"
          /\ IF CandidateDrifted(cur.id)
             THEN Finalize("controller", cur, "ERROR", FALSE)
             ELSE GotoWith("controller", "offline", cur)
       \/ /\ cur.status = "CANARY"
          /\ GotoWith("controller", "decide", cur)
    /\ UNCHANGED <<overrides, cur, snap, archived, shadow, position, crashes, edits>>

\* The replay rejects or accepts; an accepted change still needs a parameter the
\* harness can simulate (outcome INCONCLUSIVE otherwise) and a flat portfolio.
Offline ==
    /\ At("controller", "offline")
    /\ LET st == proc["controller"].st IN
       \/ \E outcome \in {"OFFLINE_REJECTED", "INCONCLUSIVE"} :
             Finalize("controller", st, outcome, FALSE)
       \/ /\ ~Flat
          /\ Finalize("controller", st, "INCONCLUSIVE", FALSE)
       \/ /\ Flat
          /\ GotoWith("controller", "arm", [st EXCEPT !.armed = TRUE])
    /\ UNCHANGED <<overrides, cur, snap, archived, shadow, position, crashes, edits>>

\* Variant: the armed state stays in memory until the candidate is live.
ArmInMemory ==
    /\ At("controller", "arm")
    /\ GotoWith("controller", "check", [proc["controller"].st EXCEPT !.status = "CANARY"])
    /\ UNCHANGED <<overrides, cur, snap, archived, shadow, position, crashes, edits>>

\* activate_canary: the starting equity and the armed flag reach the disk while the
\* status there is still PROPOSED.
Arm ==
    /\ At("controller", "arm")
    /\ cur' = proc["controller"].st
    /\ GotoWith("controller", "check", [proc["controller"].st EXCEPT !.status = "CANARY"])
    /\ UNCHANGED <<overrides, snap, archived, shadow, position, crashes, edits>>

CheckDrift ==
    /\ At("controller", "check")
    /\ proc' = [proc EXCEPT !["controller"].pc = "activate",
                            !["controller"].noted = BaselineDrifted(proc["controller"].st)]
    /\ UNCHANGED <<overrides, cur, snap, archived, shadow, position, crashes, edits>>

Activate ==
    /\ At("controller", "activate")
    /\ LET st == proc["controller"].st IN
       IF snap[st.id].cand = "missing"
       THEN /\ Finalize("controller", st, "ERROR", proc["controller"].noted)
            /\ UNCHANGED overrides
       ELSE /\ overrides' = st.id
            /\ Goto("controller", "started")
    /\ UNCHANGED <<cur, snap, archived, shadow, position, crashes, edits>>

\* The same invocation then goes on to judge the canary it has just started.
SaveCanary ==
    /\ At("controller", "started")
    /\ cur' = proc["controller"].st
    /\ Goto("controller", "decide")
    /\ UNCHANGED <<overrides, snap, archived, shadow, position, crashes, edits>>

\* Variant: the keep gate opens with the early-rollback one.
DecisionsAtEarlyTrades(st) ==
    IF st.sessions >= TimeoutSessions /\ st.trades < MinTrades
    THEN {"INCONCLUSIVE"}
    ELSE {d \in {"CANARY", "ROLLED_BACK", "KEPT"} :
            d # "CANARY" => st.measured /\ st.trades >= EarlyTrades}

\* _decide over every value the metrics may have.
Decisions(st) ==
    IF st.sessions >= TimeoutSessions /\ st.trades < MinTrades
    THEN {"INCONCLUSIVE"}
    ELSE {d \in {"CANARY", "ROLLED_BACK", "KEPT"} :
            CASE d = "CANARY"      -> ~st.measured \/ st.trades < MinTrades
              [] d = "ROLLED_BACK" -> st.measured /\ (st.trades >= EarlyTrades \/ st.trades >= MinTrades)
              [] d = "KEPT"        -> st.measured /\ st.trades >= MinTrades}

\* The resume guard, then _decide.
NotFlatAtStart(st) == st.armed /\ st.trades = 0 /\ ~Flat

Decide ==
    /\ At("controller", "decide")
    /\ LET st == proc["controller"].st
           verdicts == IF NotFlatAtStart(st) THEN {"INCONCLUSIVE"} ELSE Decisions(st)
       IN \E d \in verdicts :
             IF d \in TerminalStatuses
             THEN Finalize("controller", st, d, FALSE)
             ELSE Finish("controller")
    /\ UNCHANGED <<overrides, cur, snap, archived, shadow, position, crashes, edits>>

\* rollback: of the active experiment, whatever its status.
RollbackLoad ==
    /\ MayStart("controller")
    /\ cur # None
    /\ Finalize("controller", cur, "ROLLED_BACK", BaselineDrifted(cur))
    /\ UNCHANGED <<overrides, cur, snap, archived, shadow, position, crashes, edits>>

-----------------------------------------------------------------------------
(* finalize_terminal and _archive_to_terminal, run by either process       *)

\* Variant: only a rollback restores; a rejected candidate is archived as it is.
RestoreBaselineOnRollback(p) ==
    /\ At(p, "restore")
    /\ LET id == proc[p].st.id IN
       IF proc[p].target = "ROLLED_BACK" /\ snap[id].base # None
       THEN overrides' = snap[id].base
       ELSE UNCHANGED overrides
    /\ Goto(p, "save")
    /\ UNCHANGED <<cur, snap, archived, shadow, position, crashes, edits>>

RestoreBaseline(p) ==
    /\ At(p, "restore")
    /\ LET id == proc[p].st.id IN
       \/ /\ proc[p].target = "KEPT"
          /\ Goto(p, "save")
          /\ UNCHANGED overrides
       \/ /\ proc[p].target # "KEPT"
          /\ snap[id].base # None
          /\ overrides' = snap[id].base
          /\ Goto(p, "save")
       \/ /\ proc[p].target # "KEPT"     \* no snapshot: RuntimeCanaryLifecycleError
          /\ snap[id].base = None
          /\ Finish(p)
          /\ UNCHANGED overrides
    /\ UNCHANGED <<cur, snap, archived, shadow, position, crashes, edits>>

\* Variant: a finished experiment is saved with the status it had.
SaveTerminalOldStatus(p) ==
    /\ \/ At(p, "save") /\ Goto(p, "archive")
       \/ At(p, "archive") /\ Goto(p, "move")
    /\ cur' = proc[p].st
    /\ UNCHANGED <<overrides, snap, archived, shadow, position, crashes, edits>>

\* current.json is written with the terminal status by finalize_terminal and once
\* more by _archive_to_terminal.
SaveTerminal(p) ==
    /\ \/ At(p, "save") /\ Goto(p, "archive")
       \/ At(p, "archive") /\ Goto(p, "move")
    /\ cur' = [proc[p].st EXCEPT !.status = proc[p].target]
    /\ UNCHANGED <<overrides, snap, archived, shadow, position, crashes, edits>>

\* shutil.move takes whatever current.json is there by now.
MoveState(p) ==
    /\ At(p, "move")
    /\ IF cur = None
       THEN UNCHANGED archived
       ELSE archived' = [archived EXCEPT ![proc[p].st.id] = cur.status]
    /\ cur' = None
    /\ Goto(p, "files")
    /\ UNCHANGED <<overrides, snap, shadow, position, crashes, edits>>

\* The snapshots and the shadow files leave <root>/<id>/ together.
MoveFiles(p) ==
    /\ At(p, "files")
    /\ snap' = [snap EXCEPT ![proc[p].st.id] = NoSnapshot]
    /\ shadow' = [shadow EXCEPT ![proc[p].st.id] = NoFills]
    /\ Finish(p)
    /\ UNCHANGED <<overrides, cur, archived, position, crashes, edits>>

-----------------------------------------------------------------------------
(* A trading cycle with its runtime canary context                         *)

\* _reconcile_durable_orders replays every tagged order.  One whose id the baseline
\* ledger never took is scaled by what is held now: a stray SELL of an earlier day
\* closes the baseline side of today's position.
Reconcile(e) ==
    IF shadow[e].stray /\ position = "paired"
    THEN /\ shadow[e].base < MaxFills
         /\ shadow' = [shadow EXCEPT ![e].base = @ + 1, ![e].stray = FALSE]
         /\ position' \in {"paired", "unpaired"}
    ELSE UNCHANGED <<shadow, position>>

\* begin_runtime_canary keeps a copy of the state for the whole cycle.
BeginCycle ==
    /\ MayStart("bot")
    /\ \/ /\ cur # None /\ cur.status = "CANARY"
          /\ Reconcile(cur.id)
          /\ GotoWith("bot", "trading", cur)
       \* no canary, or its records cannot be read: the cycle trades without it
       \/ /\ proc' = [proc EXCEPT !["bot"] = Untracked]
          /\ UNCHANGED <<shadow, position>>
    /\ UNCHANGED <<overrides, cur, snap, archived, crashes, edits>>

Trading == At("bot", "trading")
Tracked == proc["bot"].st # None

\* _maybe_add_session: a fill on a new date rewrites current.json from the copy.
\* Bound: sessions beyond the timeout are not counted, no decision tells them apart.
RecordSession ==
    LET st == proc["bot"].st IN
    \/ UNCHANGED <<cur, proc>>
    \/ /\ st.sessions < TimeoutSessions
       /\ cur' = [st EXCEPT !.sessions = @ + 1]
       /\ GotoWith("bot", "trading", [st EXCEPT !.sessions = @ + 1])

\* record_entry, record_exit or snapshot failed: _safe_invalidate.
Invalidate ==
    /\ Finalize("bot", proc["bot"].st, "INCONCLUSIVE", FALSE)
    /\ UNCHANGED <<cur, shadow>>

Buy ==
    /\ Trading
    /\ Flat
    /\ \/ Tracked /\ RecordSession /\ position' = "paired" /\ UNCHANGED shadow
       \/ Tracked /\ Invalidate /\ position' = "untracked"
       \/ ~Tracked /\ position' = "untracked" /\ UNCHANGED <<cur, proc, shadow>>
    /\ UNCHANGED <<overrides, snap, archived, crashes, edits>>

\* record_exit mirrors a SELL in the baseline by the share of the position that was
\* sold, rounded: a partial one may leave the baseline alone, or empty it.
RecordExit(e) ==
    LET held == position # "untracked"
    IN \E mirrored \in IF position = "paired" /\ position' = "paired" THEN BOOLEAN
                       ELSE {position = "paired"} :
          /\ held => shadow[e].cand < MaxFills
          /\ mirrored => shadow[e].base < MaxFills
          /\ shadow' = [shadow EXCEPT ![e] =
                [cand  |-> IF held THEN @.cand + 1 ELSE @.cand,
                 base  |-> IF mirrored THEN @.base + 1 ELSE @.base,
                 stray |-> @.stray \/ ~held]]

\* A partial SELL leaves the position open.
Sell ==
    /\ Trading
    /\ ~Flat
    /\ \/ /\ Tracked /\ RecordSession
          /\ position' \in {position, "none"} \cup (IF position = "paired" THEN {"unpaired"} ELSE {})
          /\ RecordExit(proc["bot"].st.id)
       \/ Tracked /\ Invalidate /\ position' \in {position, "none"}
       \/ ~Tracked /\ position' \in {position, "none"} /\ UNCHANGED <<cur, proc, shadow>>
    /\ UNCHANGED <<overrides, snap, archived, crashes, edits>>

\* record_canary_snapshot on the cycle's copy of the state.
Measured(st) ==
    [st EXCEPT !.trades = shadow[st.id].cand,
               !.measured = TRUE,
               !.status = IF shadow[st.id].cand = shadow[st.id].base THEN @ ELSE "INCONCLUSIVE"]

\* finish_runtime_canary, in the finally clause of the cycle.
EndCycle ==
    /\ Trading
    /\ \/ /\ Tracked
          /\ cur' = Measured(proc["bot"].st)
          /\ proc' = [proc EXCEPT !["bot"] = Idle]
          /\ UNCHANGED shadow
       \/ /\ ~Tracked
          /\ proc' = [proc EXCEPT !["bot"] = Idle]
          /\ UNCHANGED <<cur, shadow>>
       \/ Tracked /\ Invalidate
    /\ UNCHANGED <<overrides, snap, archived, position, crashes, edits>>

-----------------------------------------------------------------------------
(* The environment                                                         *)

\* A process dies, or an unhandled exception ends its command.
Crash(p) ==
    /\ ~At(p, "idle")
    /\ crashes < MaxCrashes
    /\ crashes' = crashes + 1
    /\ proc' = [proc EXCEPT ![p] = Idle]
    /\ UNCHANGED <<overrides, cur, snap, archived, shadow, position, edits>>

EditOverrides(bytes) ==
    /\ edits < MaxEdits
    /\ edits' = edits + 1
    /\ overrides' = bytes
    /\ UNCHANGED <<cur, snap, archived, proc, shadow, position, crashes>>

EditCandidate(e) ==
    /\ edits < MaxEdits
    /\ snap[e].cand = "ok"
    /\ edits' = edits + 1
    /\ \E damage \in {"drifted", "missing"} : snap' = [snap EXCEPT ![e].cand = damage]
    /\ UNCHANGED <<overrides, cur, archived, proc, shadow, position, crashes>>

\* The commands of tune-experiment; rollback is RollbackLoad.
Propose == (\E e \in Experiments : ProposeSnapshot(e)) \/ ProposeSave
Evaluate == EvaluateLoad \/ Offline \/ Arm \/ CheckDrift \/ Activate \/ SaveCanary \/ Decide
FinalizeTerminal(p) == RestoreBaseline(p) \/ SaveTerminal(p) \/ MoveState(p) \/ MoveFiles(p)
Cycle == BeginCycle \/ Buy \/ Sell \/ EndCycle
Environment ==
    \/ \E p \in Procs : Crash(p)
    \/ \E bytes \in OperatorContents : EditOverrides(bytes)
    \/ \E e \in Experiments : EditCandidate(e)

Next ==
    \/ Propose
    \/ Evaluate
    \/ RollbackLoad
    \/ \E p \in Procs : FinalizeTerminal(p)
    \/ Cycle
    \/ Environment

Spec == Init /\ [][Next]_vars

(***************************************************************************)
(* auto-burn-in.sh runs evaluate every night between trading cycles, a     *)
(* started command or cycle runs on, and every cycle ends.  Nothing makes  *)
(* a signal fill, an operator act, or a proposal exist.                    *)
(***************************************************************************)
Fairness ==
    /\ SF_vars(EvaluateLoad)
    /\ WF_vars(ProposeSave \/ Offline \/ Arm \/ CheckDrift \/ Activate \/ SaveCanary \/ Decide)
    /\ \A p \in Procs : WF_vars(FinalizeTerminal(p))
    /\ WF_vars(EndCycle)

FairSpec == Spec /\ Fairness
-----------------------------------------------------------------------------
(* Properties                                                              *)

Accepted(e) == archived[e] = "KEPT"
Active(e) == cur # None /\ cur.id = e

(***************************************************************************)
(* Candidate bytes are live, or recorded as the baseline to go back to,    *)
(* only for the experiment that owns current.json or for one that was      *)
(* kept: a rejected or interrupted candidate never becomes the next        *)
(* experiment's baseline (propose, evaluate and finalize_terminal, with a  *)
(* crash or a hand edit between any two of their writes).                  *)
(***************************************************************************)
CandidateNeverOrphaned ==
    /\ \A e \in Experiments : overrides = e => Active(e) \/ Accepted(e)
    /\ \A d, e \in Experiments : snap[d].base = e => Accepted(e)

(***************************************************************************)
(* As long as an experiment is active its baseline snapshot exists, so     *)
(* that restore_baseline_exact cannot fail and rollback always works.      *)
(***************************************************************************)
RollbackAlwaysPossible == cur # None => snap[cur.id].base # None

(***************************************************************************)
(* The starting equity is on disk before the candidate bytes go live, so   *)
(* a restart after a crash rebuilds the shadow ledgers from the same cash  *)
(* (activate_canary, evaluate).                                            *)
(***************************************************************************)
CandidateLiveIsArmed ==
    \A e \in Experiments : overrides = e /\ Active(e) => cur.armed

(***************************************************************************)
(* A candidate is archived as kept only with MinTrades realized sells in   *)
(* its own shadow ledger and as many in the baseline's, whatever crashed   *)
(* or was edited since propose, and whatever stale copy of the state a     *)
(* cycle saved.  Realized sells are what record_canary_snapshot counts and *)
(* closed_trade_counts_match compares, partial exits included; shadow.py   *)
(* says in three docstrings that the gate keys on completed positions so   *)
(* that a partial exit does not advance it.  The code does not do that: a  *)
(* candidate can be kept with fewer completed positions than MinTrades.    *)
(***************************************************************************)
KeptOnlyAfterGate ==
    [][\A e \in Experiments :
          ~Accepted(e) /\ Accepted(e)' =>
              shadow[e].cand >= MinTrades /\ shadow[e].base >= MinTrades]_vars

(***************************************************************************)
(* An archived experiment keeps its outcome and never returns to           *)
(* current.json (_archive_to_terminal; save_current of a stale copy).      *)
(***************************************************************************)
ArchivedIsFinal ==
    [][\A e \in Experiments : archived[e] # "none" =>
          /\ archived'[e] = archived[e]
          /\ (cur' # None => cur'.id # e)]_vars

(***************************************************************************)
(* The nightly evaluate always gets a proposal past PROPOSED, also after   *)
(* a crash between the steps of the activation.                            *)
(***************************************************************************)
ProposalsAreDecided ==
    \A e \in Experiments :
        (Active(e) /\ cur.status = "PROPOSED") ~> ~(Active(e) /\ cur.status = "PROPOSED")

-----------------------------------------------------------------------------
(* The promise the controller implements.                                  *)

ActiveId == IF cur = None THEN None ELSE cur.id
ActiveBaseline == IF cur = None THEN None ELSE snap[cur.id].base

Promise == INSTANCE ExperimentPromise WITH
    Outcomes <- TerminalStatuses, live <- overrides, active <- ActiveId,
    baseline <- ActiveBaseline, outcome <- archived

(***************************************************************************)
(* Every step of the controller, of a trading cycle, of an operator and of *)
(* a crash is a step ExperimentPromise allows or leaves its view alone.    *)
(***************************************************************************)
KeepsPromise == Promise!Spec
=============================================================================
