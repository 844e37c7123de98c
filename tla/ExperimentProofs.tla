-------------------------- MODULE ExperimentProofs --------------------------
(***************************************************************************)
(* Theorems about the tuning-experiment controller, for every set of       *)
(* experiments and every bound, and about the paired shadow ledgers of its *)
(* running canary, for every set of tickers and every bound.               *)
(***************************************************************************)
EXTENDS ExperimentLifecycle, PairedShadow, FiniteSets, SequenceTheorems, FiniteSetTheorems,
        NaturalsInduction, TLAPS

-----------------------------------------------------------------------------
(* Type correctness                                                        *)

\* A process in the middle of a command has the state of an experiment.
Busy == ControllerSteps \cup FinalizeSteps
Command == {r \in Process : r.pc \in Busy => r.st \in ExperimentState}

TypeInv == TypeOK /\ proc \in [Procs -> Command]

LEMMA StatusFacts ==
    /\ TerminalStatuses \subseteq Statuses
    /\ TerminalStatuses = {"OFFLINE_REJECTED", "INCONCLUSIVE", "ROLLED_BACK", "ERROR", "KEPT"}
    /\ "PROPOSED" \in Statuses /\ "CANARY" \in Statuses
  BY DEF TerminalStatuses, Statuses

LEMMA ContentFacts ==
    /\ Experiments \subseteq Contents /\ OperatorContents \subseteq Contents
    /\ Experiments \cap OperatorContents = {}
    /\ None \notin Contents /\ None \notin ExperimentState
  BY ConstantsAssumption DEF Contents

\* A well-formed process stays well-formed when a step moves it.
LEMMA ProcessSteps ==
    ASSUME proc \in [Procs -> Command], NEW p \in Procs
    PROVE  /\ \A step \in Busy :
                 (Goto(p, step) /\ proc[p].pc \in Busy) => proc' \in [Procs -> Command]
           /\ \A step \in Steps, st \in ExperimentState :
                 GotoWith(p, step, st) => proc' \in [Procs -> Command]
           /\ \A st \in ExperimentState, outcome \in Statuses, noted \in BOOLEAN :
                 Finalize(p, st, outcome, noted) => proc' \in [Procs -> Command]
           /\ Finish(p) => proc' \in [Procs -> Command]
           /\ proc[p] \in Process
           /\ proc[p].pc \in Busy => proc[p].st \in ExperimentState
  <1>1. Idle \in Command /\ Untracked \in Command
    BY DEF Idle, Untracked, Command, Process, Steps, Statuses, Busy, ControllerSteps,
           FinalizeSteps
  <1>2. Busy \subseteq Steps /\ "restore" \in Steps
    BY DEF Busy, Steps, FinalizeSteps
  <1>3. ASSUME NEW step \in Busy, Goto(p, step), proc[p].pc \in Busy
        PROVE  proc' \in [Procs -> Command]
    BY <1>2, <1>3 DEF Goto, Process, Command
  <1>4. ASSUME NEW step \in Steps, NEW st \in ExperimentState, GotoWith(p, step, st)
        PROVE  proc' \in [Procs -> Command]
    BY <1>4 DEF GotoWith, Process, Command
  <1>5. ASSUME NEW st \in ExperimentState, NEW outcome \in Statuses, NEW noted \in BOOLEAN,
               Finalize(p, st, outcome, noted)
        PROVE  proc' \in [Procs -> Command]
    <2>1. [pc |-> "restore", st |-> st, target |-> outcome, noted |-> noted] \in Command
      BY <1>2 DEF Process, Command
    <2> QED BY <1>5, <2>1 DEF Finalize
  <1>6. ASSUME Finish(p) PROVE proc' \in [Procs -> Command]
    BY <1>1, <1>6 DEF Finish, Finished
  <1> QED BY <1>3, <1>4, <1>5, <1>6 DEF Command

LEMMA TypeInit == Init => TypeInv
  <1> SUFFICES ASSUME Init PROVE TypeInv
    OBVIOUS
  <1>1. Idle \in Command
    BY DEF Idle, Command, Process, Steps, Statuses, Busy, ControllerSteps, FinalizeSteps
  <1>2. NoSnapshot \in Snapshot /\ NoFills \in ShadowFills
    BY ConstantsAssumption DEF NoSnapshot, Snapshot, NoFills, ShadowFills
  <1>3. 0 \in 0..MaxCrashes /\ 0 \in 0..MaxEdits
    BY ConstantsAssumption
  <1>4. overrides \in Contents
    BY ContentFacts DEF Init
  <1>5. proc \in [Procs -> Command] /\ proc \in [Procs -> Process]
    BY <1>1 DEF Init, Command
  <1> QED BY <1>2, <1>3, <1>4, <1>5 DEF Init, TypeInv, TypeOK, Positions

\* Measuring a state sets its count and may end it; it keeps its id and its flag.
LEMMA MeasuredFacts ==
    ASSUME TypeOK, NEW st \in ExperimentState
    PROVE  /\ Measured(st) \in ExperimentState
           /\ Measured(st).id = st.id /\ Measured(st).armed = st.armed
           /\ Measured(st).trades = shadow[st.id].cand
           /\ shadow[st.id].cand # shadow[st.id].base => Measured(st).status = "INCONCLUSIVE"
  <1> DEFINE n == shadow[st.id].cand
             status == IF n = shadow[st.id].base THEN st.status ELSE "INCONCLUSIVE"
  <1>1. n \in 0..MaxFills
    <2>1. st.id \in Experiments
      BY DEF ExperimentState
    <2> QED BY <2>1 DEF TypeOK, ShadowFills
  <1>2. status \in Statuses
    BY StatusFacts DEF ExperimentState
  <1>3. Measured(st) = [st EXCEPT !.trades = n, !.measured = TRUE, !.status = status]
    BY DEF Measured, ExperimentState
  <1> HIDE DEF n, status
  <1>4. /\ Measured(st) \in ExperimentState
        /\ Measured(st).id = st.id /\ Measured(st).armed = st.armed
        /\ Measured(st).trades = n /\ Measured(st).status = status
    BY <1>1, <1>2, <1>3 DEF ExperimentState
  <1> QED BY <1>4 DEF n, status

LEMMA TypeStep == TypeInv /\ [Next]_vars => TypeInv'
  <1> SUFFICES ASSUME TypeInv, [Next]_vars PROVE TypeInv'
    OBVIOUS
  <1> USE DEF TypeInv
  <1>0. /\ proc \in [Procs -> Command] /\ TypeOK
        /\ (proc' \in [Procs -> Command] => proc' \in [Procs -> Process])
        /\ "controller" \in Procs /\ "bot" \in Procs
    BY DEF Command, Procs
  <1>1. ASSUME NEW e \in Experiments, ProposeSnapshot(e) PROVE TypeInv'
    <2> DEFINE st == [id |-> e, status |-> "PROPOSED", base |-> overrides, armed |-> FALSE,
                      trades |-> 0, sessions |-> 0, measured |-> FALSE]
    <2>1. st \in ExperimentState
      BY <1>0, StatusFacts, ConstantsAssumption DEF ExperimentState, TypeOK
    <2>2. proc' \in [Procs -> Command]
      <3>1. GotoWith("controller", "proposing", st)
        BY <1>1 DEF ProposeSnapshot
      <3>2. "proposing" \in Steps
        BY DEF Steps, ControllerSteps
      <3> HIDE DEF st
      <3> QED BY <1>0, <2>1, <3>1, <3>2, ProcessSteps
    <2>3. snap' \in [Experiments -> Snapshot]
      BY <1>0, <1>1 DEF ProposeSnapshot, TypeOK, Snapshot
    <2> QED BY <1>0, <1>1, <2>2, <2>3 DEF ProposeSnapshot, TypeOK
  <1>2. CASE ProposeSave
    <2>1. proc' \in [Procs -> Command]
      BY <1>0, <1>2, ProcessSteps DEF ProposeSave
    <2>2. cur' \in ExperimentState
      BY <1>0, <1>2, ProcessSteps DEF ProposeSave, At, Busy, ControllerSteps
    <2> QED BY <1>0, <1>2, <2>1, <2>2 DEF ProposeSave, TypeOK
  <1>3. CASE EvaluateLoad
    <2>1. cur \in ExperimentState
      BY <1>0, <1>3 DEF EvaluateLoad, TypeOK
    <2>2. "offline" \in Steps /\ "decide" \in Steps /\ "ERROR" \in Statuses
      BY DEF Steps, ControllerSteps, Statuses
    <2>3. proc' \in [Procs -> Command]
      BY <1>0, <1>3, <2>1, <2>2, ProcessSteps DEF EvaluateLoad
    <2> QED BY <1>0, <1>3, <2>3 DEF EvaluateLoad, TypeOK
  <1>4. CASE Offline
    <2>1. proc["controller"].st \in ExperimentState
      BY <1>0, <1>4, ProcessSteps DEF Offline, At, Busy, ControllerSteps
    <2>2. [proc["controller"].st EXCEPT !.armed = TRUE] \in ExperimentState
      BY <2>1 DEF ExperimentState
    <2>3. "arm" \in Steps
      BY DEF Steps, ControllerSteps
    <2>4. proc' \in [Procs -> Command]
      BY <1>0, <1>4, <2>1, <2>2, <2>3, ProcessSteps, StatusFacts DEF Offline
    <2> QED BY <1>0, <1>4, <2>4 DEF Offline, TypeOK
  <1>5. CASE Arm
    <2>1. proc["controller"].st \in ExperimentState
      BY <1>0, <1>5, ProcessSteps DEF Arm, At, Busy, ControllerSteps
    <2>2. [proc["controller"].st EXCEPT !.status = "CANARY"] \in ExperimentState
      BY <2>1, StatusFacts DEF ExperimentState
    <2>3. "check" \in Steps
      BY DEF Steps, ControllerSteps
    <2>4. proc' \in [Procs -> Command]
      BY <1>0, <1>5, <2>2, <2>3, ProcessSteps DEF Arm
    <2> QED BY <1>0, <1>5, <2>1, <2>4 DEF Arm, TypeOK
  <1>6. CASE CheckDrift
    <2>1. proc["controller"].st \in ExperimentState /\ proc["controller"].pc = "check"
      BY <1>0, <1>6, ProcessSteps DEF CheckDrift, At, Busy, ControllerSteps
    <2>2. "activate" \in Steps
      BY DEF Steps, ControllerSteps
    <2>3. proc' \in [Procs -> Command]
      <3>1. proc["controller"] \in Command
        BY <1>0
      <3>2. BaselineDrifted(proc["controller"].st) \in BOOLEAN
        BY DEF BaselineDrifted
      <3>3. [[proc["controller"] EXCEPT !.pc = "activate"]
                EXCEPT !.noted = BaselineDrifted(proc["controller"].st)] \in Command
        BY <2>1, <2>2, <3>1, <3>2 DEF Command, Process
      <3> QED BY <1>0, <1>6, <3>3 DEF CheckDrift
    <2> QED BY <1>0, <1>6, <2>3 DEF CheckDrift, TypeOK
  <1>7. CASE Activate
    <2>1. proc["controller"].st \in ExperimentState /\ proc["controller"].pc \in Busy
          /\ proc["controller"].noted \in BOOLEAN
      BY <1>0, <1>7, ProcessSteps DEF Activate, At, Busy, ControllerSteps, Process
    <2>2. "started" \in Busy /\ "ERROR" \in Statuses
      BY DEF Busy, ControllerSteps, Statuses
    <2>3. proc' \in [Procs -> Command]
      BY <1>0, <1>7, <2>1, <2>2, ProcessSteps DEF Activate
    <2>4. overrides' \in Contents
      BY <1>0, <1>7, <2>1, ContentFacts DEF Activate, TypeOK, ExperimentState
    <2> QED BY <1>0, <1>7, <2>3, <2>4 DEF Activate, TypeOK
  <1>8. CASE SaveCanary
    <2>1. proc["controller"].st \in ExperimentState /\ proc["controller"].pc \in Busy
      BY <1>0, <1>8, ProcessSteps DEF SaveCanary, At, Busy, ControllerSteps
    <2>2. "decide" \in Busy
      BY DEF Busy, ControllerSteps
    <2>3. proc' \in [Procs -> Command]
      BY <1>0, <1>8, <2>1, <2>2, ProcessSteps DEF SaveCanary
    <2> QED BY <1>0, <1>8, <2>1, <2>3 DEF SaveCanary, TypeOK
  <1>9. CASE Decide
    <2>1. proc["controller"].st \in ExperimentState
      BY <1>0, <1>9, ProcessSteps DEF Decide, At, Busy, ControllerSteps
    <2>2. proc' \in [Procs -> Command]
      BY <1>0, <1>9, <2>1, ProcessSteps, StatusFacts DEF Decide
    <2> QED BY <1>0, <1>9, <2>2 DEF Decide, TypeOK
  <1>10. CASE RollbackLoad
    <2>1. cur \in ExperimentState /\ "ROLLED_BACK" \in Statuses
          /\ BaselineDrifted(cur) \in BOOLEAN
      BY <1>0, <1>10 DEF RollbackLoad, TypeOK, Statuses, BaselineDrifted
    <2>2. proc' \in [Procs -> Command]
      BY <1>0, <1>10, <2>1, ProcessSteps DEF RollbackLoad
    <2> QED BY <1>0, <1>10, <2>2 DEF RollbackLoad, TypeOK
  <1>11. ASSUME NEW p \in Procs, RestoreBaseline(p) PROVE TypeInv'
    <2>1. proc[p].st \in ExperimentState /\ proc[p].pc \in Busy /\ "save" \in Busy
      BY <1>0, <1>11, ProcessSteps DEF RestoreBaseline, At, Busy, FinalizeSteps
    <2>2. proc' \in [Procs -> Command]
      BY <1>0, <1>11, <2>1, ProcessSteps DEF RestoreBaseline
    <2>3. overrides' \in Contents
      BY <1>0, <1>11, <2>1 DEF RestoreBaseline, TypeOK, ExperimentState, Snapshot
    <2> QED BY <1>0, <1>11, <2>2, <2>3 DEF RestoreBaseline, TypeOK
  <1>12. ASSUME NEW p \in Procs, SaveTerminal(p) PROVE TypeInv'
    <2>1. /\ proc[p].st \in ExperimentState /\ proc[p].pc \in Busy
          /\ proc[p].target \in Statuses
          /\ "archive" \in Busy /\ "move" \in Busy
      BY <1>0, <1>12, ProcessSteps DEF SaveTerminal, At, Busy, FinalizeSteps, Process
    <2>2. proc' \in [Procs -> Command]
      BY <1>0, <1>12, <2>1, ProcessSteps DEF SaveTerminal
    <2>3. cur' \in ExperimentState
      BY <1>12, <2>1 DEF SaveTerminal, ExperimentState
    <2> QED BY <1>0, <1>12, <2>2, <2>3 DEF SaveTerminal, TypeOK
  <1>13. ASSUME NEW p \in Procs, MoveState(p) PROVE TypeInv'
    <2>1. proc[p].st \in ExperimentState /\ proc[p].pc \in Busy /\ "files" \in Busy
      BY <1>0, <1>13, ProcessSteps DEF MoveState, At, Busy, FinalizeSteps
    <2>2. proc' \in [Procs -> Command]
      BY <1>0, <1>13, <2>1, ProcessSteps DEF MoveState
    <2>3. archived' \in [Experiments -> Statuses \cup {"none"}]
      BY <1>0, <1>13, <2>1 DEF MoveState, TypeOK, ExperimentState
    <2> QED BY <1>0, <1>13, <2>2, <2>3 DEF MoveState, TypeOK
  <1>14. ASSUME NEW p \in Procs, MoveFiles(p) PROVE TypeInv'
    <2>1. NoSnapshot \in Snapshot /\ NoFills \in ShadowFills
      BY ConstantsAssumption DEF NoSnapshot, Snapshot, NoFills, ShadowFills
    <2>2. proc' \in [Procs -> Command]
      BY <1>0, <1>14, ProcessSteps DEF MoveFiles
    <2>3. snap' \in [Experiments -> Snapshot] /\ shadow' \in [Experiments -> ShadowFills]
      BY <1>0, <1>14, <2>1 DEF MoveFiles, TypeOK
    <2> QED BY <1>0, <1>14, <2>2, <2>3 DEF MoveFiles, TypeOK
  <1>15. CASE BeginCycle
    <2>1. Untracked \in Command /\ "trading" \in Steps
      BY DEF Untracked, Idle, Command, Process, Steps, Statuses, Busy, ControllerSteps,
             FinalizeSteps
    <2>2. proc' \in [Procs -> Command]
      BY <1>0, <1>15, <2>1, ProcessSteps DEF BeginCycle, TypeOK
    <2>3. ASSUME NEW e \in Experiments, Reconcile(e)
          PROVE  shadow' \in [Experiments -> ShadowFills] /\ position' \in Positions
      BY <1>0, <2>3, ConstantsAssumption DEF Reconcile, TypeOK, ShadowFills, Positions
    <2>4. shadow' \in [Experiments -> ShadowFills] /\ position' \in Positions
      BY <1>0, <1>15, <2>3 DEF BeginCycle, TypeOK, ExperimentState
    <2> QED BY <1>0, <1>15, <2>2, <2>4 DEF BeginCycle, TypeOK
  <1>16. ASSUME Tracked, RecordSession
         PROVE  cur' \in ExperimentState \cup {None} /\ proc' \in [Procs -> Command]
    <2>1. proc["bot"].st \in ExperimentState /\ "trading" \in Steps
      BY <1>0, <1>16, ProcessSteps DEF Tracked, Process, Steps
    <2>2. ASSUME proc["bot"].st.sessions < TimeoutSessions
          PROVE  [proc["bot"].st EXCEPT !.sessions = @ + 1] \in ExperimentState
      BY <2>1, <2>2, ConstantsAssumption DEF ExperimentState
    <2> QED BY <1>0, <1>16, <2>1, <2>2, ProcessSteps DEF RecordSession, TypeOK
  <1>17. ASSUME Tracked, Invalidate PROVE proc' \in [Procs -> Command]
    BY <1>0, <1>17, ProcessSteps, StatusFacts DEF Tracked, Invalidate, Process
  <1>18. CASE Buy
    <2>1. /\ cur' \in ExperimentState \cup {None} /\ proc' \in [Procs -> Command]
          /\ position' \in Positions
          /\ shadow' \in [Experiments -> ShadowFills]
      BY <1>0, <1>16, <1>17, <1>18 DEF Buy, TypeOK, Positions, Invalidate
    <2> QED BY <1>0, <1>18, <2>1 DEF Buy, TypeOK
  <1>19. CASE Sell
    <2>1. ASSUME NEW e \in Experiments, RecordExit(e)
          PROVE  shadow' \in [Experiments -> ShadowFills]
      BY <1>0, <2>1, ConstantsAssumption DEF RecordExit, TypeOK, ShadowFills
    <2>2. Tracked => proc["bot"].st.id \in Experiments
      BY <1>0, ProcessSteps DEF Tracked, Process, ExperimentState
    <2>3. /\ cur' \in ExperimentState \cup {None} /\ proc' \in [Procs -> Command]
          /\ position' \in Positions
          /\ shadow' \in [Experiments -> ShadowFills]
      BY <1>0, <1>16, <1>17, <1>19, <2>1, <2>2 DEF Sell, TypeOK, Positions, Invalidate
    <2> QED BY <1>0, <1>19, <2>3 DEF Sell, TypeOK
  <1>20. CASE EndCycle
    <2>1. Idle \in Command
      BY DEF Idle, Command, Process, Steps, Statuses, Busy, ControllerSteps, FinalizeSteps
    <2>2. Tracked => Measured(proc["bot"].st) \in ExperimentState
      BY <1>0, ProcessSteps, MeasuredFacts DEF Tracked, Process
    <2>3. CASE /\ Tracked /\ cur' = Measured(proc["bot"].st)
               /\ proc' = [proc EXCEPT !["bot"] = Idle] /\ UNCHANGED shadow
      BY <1>0, <1>20, <2>1, <2>2, <2>3 DEF EndCycle, TypeOK
    <2>4. CASE proc' = [proc EXCEPT !["bot"] = Idle] /\ UNCHANGED <<cur, shadow>>
      BY <1>0, <1>20, <2>1, <2>4 DEF EndCycle, TypeOK
    <2>5. CASE Tracked /\ Invalidate
      BY <1>0, <1>17, <1>20, <2>5 DEF EndCycle, TypeOK, Invalidate
    <2> QED BY <1>20, <2>3, <2>4, <2>5 DEF EndCycle
  <1>21. ASSUME NEW p \in Procs, Crash(p) PROVE TypeInv'
    <2>1. Idle \in Command
      BY DEF Idle, Command, Process, Steps, Statuses, Busy, ControllerSteps, FinalizeSteps
    <2>2. proc' \in [Procs -> Command] /\ crashes' \in 0..MaxCrashes
      BY <1>0, <1>21, <2>1, ConstantsAssumption DEF Crash, TypeOK
    <2> QED BY <1>0, <1>21, <2>2 DEF Crash, TypeOK
  <1>22. ASSUME NEW bytes \in OperatorContents, EditOverrides(bytes) PROVE TypeInv'
    <2>1. overrides' \in Contents /\ edits' \in 0..MaxEdits
      BY <1>0, <1>22, ContentFacts, ConstantsAssumption DEF EditOverrides, TypeOK
    <2> QED BY <1>0, <1>22, <2>1 DEF EditOverrides, TypeOK
  <1>23. ASSUME NEW e \in Experiments, EditCandidate(e) PROVE TypeInv'
    <2>1. snap' \in [Experiments -> Snapshot] /\ edits' \in 0..MaxEdits
      BY <1>0, <1>23, ConstantsAssumption DEF EditCandidate, TypeOK, Snapshot
    <2> QED BY <1>0, <1>23, <2>1 DEF EditCandidate, TypeOK
  <1>24. CASE UNCHANGED vars
    BY <1>0, <1>24 DEF vars, TypeOK
  <1> QED
    BY <1>1, <1>2, <1>3, <1>4, <1>5, <1>6, <1>7, <1>8, <1>9, <1>10, <1>11, <1>12, <1>13,
       <1>14, <1>15, <1>18, <1>19, <1>20, <1>21, <1>22, <1>23, <1>24
       DEF Next, Propose, Evaluate, FinalizeTerminal, Cycle, Environment

(***************************************************************************)
(* What the files hold and what a command keeps in memory is always an     *)
(* experiment state the store can read back, the terminal status of a      *)
(* copy included (models.py, store.py, controller.py, runtime_canary.py).  *)
(***************************************************************************)
THEOREM TypesHold == Spec => []TypeOK
  <1>1. TypeInv => TypeOK
    BY DEF TypeInv
  <1> QED BY TypeInit, TypeStep, <1>1, PTL DEF Spec

-----------------------------------------------------------------------------
(* The inductive invariant, for commands that run one at a time            *)

Holder(p) == proc[p].pc \in (Busy \cup {"trading"}) \ {"proposing", "files"}

\* What a process in the middle of a command or a cycle relies on.
ProcessInv(p) ==
    /\ At(p, "proposing") =>
          /\ cur = None
          /\ archived[proc[p].st.id] = "none"
          /\ snap[proc[p].st.id].base # None
    /\ Holder(p) /\ proc[p].st # None =>
          /\ cur # None
          /\ cur.id = proc[p].st.id
          /\ overrides = cur.id => proc[p].st.armed
    /\ At(p, "files") => cur = None
    /\ At(p, "arm") => proc[p].st.armed
    /\ At(p, "check") \/ At(p, "activate") => proc[p].st.armed /\ cur.armed
    /\ proc[p].pc \in FinalizeSteps => proc[p].target \in TerminalStatuses
    /\ proc[p].pc \in {"save", "archive", "move"} =>
          proc[p].target = "KEPT" \/ overrides # proc[p].st.id
    /\ At(p, "move") => cur.status = proc[p].target

OneAtATime == \E p \in Procs : \A q \in Procs \ {p} : At(q, "idle")
ActiveIsOpen == cur # None => archived[cur.id] = "none"

IInv ==
    /\ TypeInv
    /\ OneAtATime
    /\ ActiveIsOpen
    /\ CandidateNeverOrphaned
    /\ RollbackAlwaysPossible
    /\ CandidateLiveIsArmed
    /\ \A p \in Procs : ProcessInv(p)

\* What the files promise, whatever the processes are doing.
FilesInv ==
    /\ ActiveIsOpen
    /\ CandidateNeverOrphaned
    /\ RollbackAlwaysPossible
    /\ CandidateLiveIsArmed

LEMMA FilesUntouched ==
    ASSUME FilesInv, UNCHANGED <<overrides, cur, snap, archived>>
    PROVE  FilesInv'
  BY DEF FilesInv, ActiveIsOpen, CandidateNeverOrphaned, RollbackAlwaysPossible,
         CandidateLiveIsArmed, Active, Accepted

\* Whoever takes a step is alone: a new command starts when all are idle.
LEMMA MoverIsAlone ==
    ASSUME ~Overlap, OneAtATime, NEW p \in Procs, MayStart(p) \/ ~At(p, "idle")
    PROVE  \A q \in Procs \ {p} : At(q, "idle")
  BY ConstantsAssumption DEF OneAtATime, MayStart

\* What is left to show of a step of p when nobody else is in a command.
LEMMA AloneStep ==
    ASSUME IInv, [Next]_vars, NEW p \in Procs,
           \A q \in Procs \ {p} : At(q, "idle") /\ proc'[q] = proc[q],
           FilesInv', ProcessInv(p)'
    PROVE  IInv'
  <1>1. TypeInv'
    BY TypeStep DEF IInv
  <1>2. OneAtATime'
    BY DEF OneAtATime, At
  <1>3. ASSUME NEW q \in Procs \ {p} PROVE ProcessInv(q)'
    <2>1. proc'[q].pc = "idle"
      BY DEF At
    <2> QED BY <2>1 DEF ProcessInv, Holder, At, Busy, ControllerSteps, FinalizeSteps
  <1> QED BY <1>1, <1>2, <1>3 DEF IInv, FilesInv

\* The record p goes to, for each way a step may move it.
LEMMA Moved ==
    ASSUME proc \in [Procs -> Command], NEW p \in Procs
    PROVE  /\ \A step : Goto(p, step) =>
                 /\ proc'[p].pc = step /\ proc'[p].st = proc[p].st
                 /\ proc'[p].target = proc[p].target
                 /\ \A q \in Procs \ {p} : proc'[q] = proc[q]
           /\ \A step, st : GotoWith(p, step, st) =>
                 /\ proc'[p].pc = step /\ proc'[p].st = st
                 /\ \A q \in Procs \ {p} : proc'[q] = proc[q]
           /\ Finish(p) =>
                 /\ proc'[p].pc \in {"idle", "trading"} /\ proc'[p].st = None
                 /\ \A q \in Procs \ {p} : proc'[q] = proc[q]
  <1> USE DEF Command, Process
  <1>1. ASSUME NEW step, Goto(p, step)
        PROVE  /\ proc'[p].pc = step /\ proc'[p].st = proc[p].st
               /\ proc'[p].target = proc[p].target
               /\ \A q \in Procs \ {p} : proc'[q] = proc[q]
    BY <1>1 DEF Goto
  <1>2. ASSUME NEW step, NEW st, GotoWith(p, step, st)
        PROVE  /\ proc'[p].pc = step /\ proc'[p].st = st
               /\ \A q \in Procs \ {p} : proc'[q] = proc[q]
    BY <1>2 DEF GotoWith
  <1>3. ASSUME Finish(p)
        PROVE  /\ proc'[p].pc \in {"idle", "trading"} /\ proc'[p].st = None
               /\ \A q \in Procs \ {p} : proc'[q] = proc[q]
    BY <1>3 DEF Finish, Finished, Idle, Untracked
  <1> QED BY <1>1, <1>2, <1>3

\* A process at rest, or in a cycle without a canary, relies on nothing.
LEMMA NothingHeld ==
    ASSUME NEW p \in Procs, proc[p].pc \in {"idle", "trading"}, proc[p].st = None
    PROVE  ProcessInv(p)
  BY DEF ProcessInv, Holder, At, Busy, ControllerSteps, FinalizeSteps

LEMMA SafetyInit == Init => IInv
  <1> SUFFICES ASSUME Init PROVE IInv
    OBVIOUS
  <1>1. \A p \in Procs : proc[p] = Idle
    BY DEF Init
  <1>2. OneAtATime
    BY <1>1 DEF OneAtATime, At, Idle, Procs
  <1>3. \A p \in Procs : ProcessInv(p)
    BY <1>1, NothingHeld DEF Idle
  <1>4. FilesInv
    BY ContentFacts DEF Init, FilesInv, ActiveIsOpen, CandidateNeverOrphaned,
       RollbackAlwaysPossible, CandidateLiveIsArmed, NoSnapshot, Active, Accepted
  <1> QED BY TypeInit, <1>2, <1>3, <1>4 DEF IInv, FilesInv

\* The commands of propose and evaluate, and a rollback's load.
LEMMA ControllerStep ==
    ASSUME IInv, ~Overlap, [Next]_vars,
           (\E e \in Experiments : ProposeSnapshot(e)) \/ ProposeSave \/ Evaluate \/ RollbackLoad
    PROVE  IInv'
  <1> DEFINE c == "controller"
  <1>0. /\ c \in Procs /\ proc \in [Procs -> Command] /\ TypeOK
        /\ FilesInv /\ ProcessInv(c) /\ OneAtATime
        /\ MayStart(c) \/ ~At(c, "idle") => \A q \in Procs \ {c} : At(q, "idle")
    BY MoverIsAlone DEF IInv, FilesInv, TypeInv, Procs
  <1> SUFFICES /\ \A q \in Procs \ {c} : At(q, "idle") /\ proc'[q] = proc[q]
               /\ FilesInv' /\ ProcessInv(c)'
    BY <1>0, AloneStep
  <1>a. proc[c].pc \in Busy => proc[c].st \in ExperimentState /\ proc[c].st # None
    BY <1>0, ContentFacts DEF Command
  <1> USE DEF Busy, ControllerSteps, FinalizeSteps, Holder, At
  <1>1. ASSUME NEW e \in Experiments, ProposeSnapshot(e)
        PROVE  /\ \A q \in Procs \ {c} : At(q, "idle") /\ proc'[q] = proc[q]
               /\ FilesInv' /\ ProcessInv(c)'
    <2> DEFINE st == [id |-> e, status |-> "PROPOSED", base |-> overrides, armed |-> FALSE,
                      trades |-> 0, sessions |-> 0, measured |-> FALSE]
    <2>1. /\ proc'[c].pc = "proposing" /\ proc'[c].st = st
          /\ \A q \in Procs \ {c} : proc'[q] = proc[q]
      <3>1. GotoWith(c, "proposing", st)
        BY <1>1 DEF ProposeSnapshot
      <3> HIDE DEF st
      <3> QED BY <1>0, <3>1, Moved
    <2>2. overrides \in Contents /\ overrides # None
      BY <1>0, ContentFacts DEF TypeOK
    <2>3. snap'[e].base = overrides /\ \A d \in Experiments \ {e} : snap'[d] = snap[d]
      BY <1>0, <1>1 DEF ProposeSnapshot, TypeOK
    <2>4. archived[e] = "none" /\ cur = None /\ UNCHANGED <<overrides, cur, archived>>
      BY <1>1 DEF ProposeSnapshot, Unused
    <2>5. FilesInv'
      BY <1>0, <2>3, <2>4 DEF FilesInv, ActiveIsOpen, CandidateNeverOrphaned,
         RollbackAlwaysPossible, CandidateLiveIsArmed, Active, Accepted
    <2>6. ProcessInv(c)'
      BY <2>1, <2>2, <2>3, <2>4 DEF ProcessInv
    <2> QED BY <1>0, <1>1, <2>1, <2>5, <2>6 DEF ProposeSnapshot
  <1>2. CASE ProposeSave
    <2>1. /\ proc'[c].pc \in {"idle", "trading"} /\ proc'[c].st = None
          /\ \A q \in Procs \ {c} : proc'[q] = proc[q]
      BY <1>0, <1>2, Moved DEF ProposeSave
    <2>2. /\ proc[c].pc = "proposing" /\ cur = None
          /\ archived[proc[c].st.id] = "none" /\ snap[proc[c].st.id].base # None
      BY <1>0, <1>2 DEF ProposeSave, ProcessInv
    <2>3. cur' = proc[c].st /\ cur' # None /\ UNCHANGED <<overrides, snap, archived>>
      BY <1>2, <2>2, <1>a DEF ProposeSave
    <2>4. cur'.id \in Experiments /\ overrides # cur'.id
      BY <1>0, <1>a, <2>2, <2>3 DEF FilesInv, CandidateNeverOrphaned, Active, Accepted,
         ExperimentState
    <2>5. FilesInv'
      BY <1>0, <2>2, <2>3, <2>4 DEF FilesInv, ActiveIsOpen, CandidateNeverOrphaned,
         RollbackAlwaysPossible, CandidateLiveIsArmed, Active, Accepted
    <2>6. ProcessInv(c)'
      BY <1>0, <2>1 DEF ProcessInv
    <2> QED BY <1>0, <1>2, <2>1, <2>5, <2>6 DEF ProposeSave
  <1>3. CASE EvaluateLoad
    <2>1. /\ proc'[c].pc \in {"restore", "offline", "decide"} /\ proc'[c].st = cur
          /\ proc'[c].pc = "restore" => proc'[c].target = "ERROR"
          /\ \A q \in Procs \ {c} : proc'[q] = proc[q]
      <3>1. \/ Finalize(c, cur, "ERROR", FALSE)
            \/ GotoWith(c, "offline", cur)
            \/ GotoWith(c, "decide", cur)
        BY <1>3 DEF EvaluateLoad
      <3>2. CASE Finalize(c, cur, "ERROR", FALSE)
        BY <1>0, <3>2 DEF Finalize, Command
      <3>3. CASE GotoWith(c, "offline", cur)
        BY <1>0, <3>3, Moved
      <3>4. CASE GotoWith(c, "decide", cur)
        BY <1>0, <3>4, Moved
      <3> QED BY <3>1, <3>2, <3>3, <3>4
    <2>2. cur # None /\ UNCHANGED <<overrides, cur, snap, archived>>
      BY <1>3 DEF EvaluateLoad
    <2>3. cur \in ExperimentState /\ (overrides = cur.id => cur.armed)
      BY <1>0, <2>2 DEF TypeOK, FilesInv, CandidateLiveIsArmed, Active, ExperimentState
    <2>4. FilesInv'
      BY <1>0, <2>2, FilesUntouched
    <2>5. ProcessInv(c)'
      BY <2>1, <2>2, <2>3, StatusFacts DEF ProcessInv
    <2> QED BY <1>0, <1>3, <2>1, <2>4, <2>5 DEF EvaluateLoad
  <1>4. CASE Offline
    <2>1. /\ \/ /\ proc'[c].pc = "restore" /\ proc'[c].st = proc[c].st
                /\ proc'[c].target \in {"OFFLINE_REJECTED", "INCONCLUSIVE"}
             \/ /\ proc'[c].pc = "arm" /\ proc'[c].st = [proc[c].st EXCEPT !.armed = TRUE]
          /\ \A q \in Procs \ {c} : proc'[q] = proc[q]
      <3> DEFINE armed == [proc[c].st EXCEPT !.armed = TRUE]
      <3>1. \/ \E outcome \in {"OFFLINE_REJECTED", "INCONCLUSIVE"} :
                  Finalize(c, proc[c].st, outcome, FALSE)
            \/ GotoWith(c, "arm", armed)
        BY <1>4 DEF Offline
      <3>2. ASSUME NEW outcome \in {"OFFLINE_REJECTED", "INCONCLUSIVE"},
                   Finalize(c, proc[c].st, outcome, FALSE)
            PROVE  /\ proc'[c].pc = "restore" /\ proc'[c].st = proc[c].st
                   /\ proc'[c].target \in {"OFFLINE_REJECTED", "INCONCLUSIVE"}
                   /\ \A q \in Procs \ {c} : proc'[q] = proc[q]
        BY <1>0, <3>2 DEF Finalize, Command
      <3>3. GotoWith(c, "arm", armed) =>
               /\ proc'[c].pc = "arm" /\ proc'[c].st = armed
               /\ \A q \in Procs \ {c} : proc'[q] = proc[q]
        <4> HIDE DEF armed
        <4> QED BY <1>0, Moved
      <3> QED BY <3>1, <3>2, <3>3
    <2>2. proc[c].pc = "offline" /\ UNCHANGED <<overrides, cur, snap, archived>>
      BY <1>4 DEF Offline
    <2>3. /\ cur # None /\ cur.id = proc[c].st.id
          /\ overrides = cur.id => proc[c].st.armed
      BY <1>0, <1>a, <2>2 DEF ProcessInv
    <2>4. FilesInv'
      BY <1>0, <2>2, FilesUntouched
    <2>5. [proc[c].st EXCEPT !.armed = TRUE].id = proc[c].st.id
          /\ [proc[c].st EXCEPT !.armed = TRUE].armed
      BY <1>a, <2>2 DEF ExperimentState
    <2>6. ProcessInv(c)'
      BY <2>1, <2>2, <2>3, <2>5, StatusFacts DEF ProcessInv
    <2> QED BY <1>0, <1>4, <2>1, <2>4, <2>6 DEF Offline
  <1>5. CASE Arm
    <2> DEFINE st == [proc[c].st EXCEPT !.status = "CANARY"]
    <2>1. /\ proc'[c].pc = "check" /\ proc'[c].st = st
          /\ \A q \in Procs \ {c} : proc'[q] = proc[q]
      <3>1. GotoWith(c, "check", st)
        BY <1>5 DEF Arm
      <3> HIDE DEF st
      <3> QED BY <1>0, <3>1, Moved
    <2>2. /\ proc[c].pc = "arm" /\ UNCHANGED <<overrides, snap, archived>>
          /\ cur' = proc[c].st
      BY <1>5 DEF Arm
    <2>3. /\ cur # None /\ cur.id = proc[c].st.id /\ proc[c].st.armed
          /\ cur' # None
      BY <1>0, <1>a, <2>2 DEF ProcessInv
    <2>4. st.id = proc[c].st.id /\ st.armed = proc[c].st.armed
      BY <1>a, <2>2 DEF ExperimentState
    <2>5. FilesInv'
      BY <1>0, <2>2, <2>3 DEF FilesInv, ActiveIsOpen, CandidateNeverOrphaned,
         RollbackAlwaysPossible, CandidateLiveIsArmed, Active, Accepted
    <2>6. ProcessInv(c)'
      BY <2>1, <2>2, <2>3, <2>4 DEF ProcessInv
    <2> QED BY <1>0, <1>5, <2>1, <2>5, <2>6 DEF Arm
  <1>6. CASE CheckDrift
    <2>1. /\ proc'[c].pc = "activate" /\ proc'[c].st = proc[c].st
          /\ \A q \in Procs \ {c} : proc'[q] = proc[q]
      BY <1>0, <1>6 DEF CheckDrift, Command, Process
    <2>2. proc[c].pc = "check" /\ UNCHANGED <<overrides, cur, snap, archived>>
      BY <1>6 DEF CheckDrift
    <2>3. FilesInv'
      BY <1>0, <2>2, FilesUntouched
    <2>4. ProcessInv(c)'
      BY <1>0, <1>a, <2>1, <2>2 DEF ProcessInv
    <2> QED BY <1>0, <1>6, <2>1, <2>3, <2>4 DEF CheckDrift
  <1>7. CASE Activate
    <2>1. /\ \/ /\ proc'[c].pc = "restore" /\ proc'[c].target = "ERROR"
                /\ overrides' = overrides
             \/ /\ proc'[c].pc = "started"
                /\ overrides' = proc[c].st.id
          /\ proc'[c].st = proc[c].st
          /\ \A q \in Procs \ {c} : proc'[q] = proc[q]
      BY <1>0, <1>7 DEF Activate, Finalize, Goto, Command, Process
    <2>2. proc[c].pc = "activate" /\ UNCHANGED <<cur, snap, archived>>
      BY <1>7 DEF Activate
    <2>3. /\ cur # None /\ cur.id = proc[c].st.id
          /\ proc[c].st.armed /\ cur.armed
      BY <1>0, <1>a, <2>2 DEF ProcessInv
    <2>4. FilesInv'
      BY <1>0, <2>1, <2>2, <2>3 DEF FilesInv, ActiveIsOpen, CandidateNeverOrphaned,
         RollbackAlwaysPossible, CandidateLiveIsArmed, Active, Accepted
    <2>5. ProcessInv(c)'
      BY <2>1, <2>2, <2>3, StatusFacts DEF ProcessInv
    <2> QED BY <1>0, <1>7, <2>1, <2>4, <2>5 DEF Activate
  <1>8. CASE SaveCanary
    <2>1. /\ proc'[c].pc = "decide" /\ proc'[c].st = proc[c].st
          /\ \A q \in Procs \ {c} : proc'[q] = proc[q]
      BY <1>0, <1>8, Moved DEF SaveCanary
    <2>2. /\ proc[c].pc = "started" /\ UNCHANGED <<overrides, snap, archived>>
          /\ cur' = proc[c].st
      BY <1>8 DEF SaveCanary
    <2>3. /\ cur # None /\ cur.id = proc[c].st.id /\ cur' # None
          /\ overrides = cur.id => proc[c].st.armed
      BY <1>0, <1>a, <2>2 DEF ProcessInv
    <2>4. FilesInv'
      BY <1>0, <2>2, <2>3 DEF FilesInv, ActiveIsOpen, CandidateNeverOrphaned,
         RollbackAlwaysPossible, CandidateLiveIsArmed, Active, Accepted
    <2>5. ProcessInv(c)'
      BY <2>1, <2>2, <2>3 DEF ProcessInv
    <2> QED BY <1>0, <1>8, <2>1, <2>4, <2>5 DEF SaveCanary
  <1>9. CASE Decide
    <2>1. /\ \/ /\ proc'[c].pc = "restore" /\ proc'[c].st = proc[c].st
                /\ proc'[c].target \in TerminalStatuses
             \/ proc'[c].pc \in {"idle", "trading"} /\ proc'[c].st = None
          /\ \A q \in Procs \ {c} : proc'[q] = proc[q]
      <3>1. \/ \E d \in TerminalStatuses : Finalize(c, proc[c].st, d, FALSE)
            \/ Finish(c)
        BY <1>9 DEF Decide
      <3>2. ASSUME NEW d \in TerminalStatuses, Finalize(c, proc[c].st, d, FALSE)
            PROVE  /\ proc'[c].pc = "restore" /\ proc'[c].st = proc[c].st
                   /\ proc'[c].target \in TerminalStatuses
                   /\ \A q \in Procs \ {c} : proc'[q] = proc[q]
        BY <1>0, <3>2 DEF Finalize, Command
      <3>3. CASE Finish(c)
        BY <1>0, <3>3, Moved
      <3> QED BY <3>1, <3>2, <3>3
    <2>2. proc[c].pc = "decide" /\ UNCHANGED <<overrides, cur, snap, archived>>
      BY <1>9 DEF Decide
    <2>3. /\ cur # None /\ cur.id = proc[c].st.id
          /\ overrides = cur.id => proc[c].st.armed
      BY <1>0, <1>a, <2>2 DEF ProcessInv
    <2>4. FilesInv'
      BY <1>0, <2>2, FilesUntouched
    <2>5. ProcessInv(c)'
      BY <2>1, <2>2, <2>3, StatusFacts DEF ProcessInv
    <2> QED BY <1>0, <1>9, <2>1, <2>4, <2>5 DEF Decide
  <1>10. CASE RollbackLoad
    <2>1. /\ proc'[c].pc = "restore" /\ proc'[c].st = cur
          /\ proc'[c].target = "ROLLED_BACK"
          /\ \A q \in Procs \ {c} : proc'[q] = proc[q]
      BY <1>0, <1>10 DEF RollbackLoad, Finalize, Command
    <2>2. cur # None /\ UNCHANGED <<overrides, cur, snap, archived>>
      BY <1>10 DEF RollbackLoad
    <2>3. cur \in ExperimentState /\ (overrides = cur.id => cur.armed)
      BY <1>0, <2>2 DEF TypeOK, FilesInv, CandidateLiveIsArmed, Active, ExperimentState
    <2>4. FilesInv'
      BY <1>0, <2>2, FilesUntouched
    <2>5. ProcessInv(c)'
      BY <2>1, <2>2, <2>3, StatusFacts DEF ProcessInv
    <2> QED BY <1>0, <1>10, <2>1, <2>4, <2>5 DEF RollbackLoad
  <1> QED
    BY <1>1, <1>2, <1>3, <1>4, <1>5, <1>6, <1>7, <1>8, <1>9, <1>10 DEF Evaluate

\* finalize_terminal and _archive_to_terminal, by whichever process runs them.
LEMMA FinalizeStep ==
    ASSUME IInv, ~Overlap, [Next]_vars, NEW p \in Procs, FinalizeTerminal(p)
    PROVE  IInv'
  <1>0. /\ proc \in [Procs -> Command] /\ TypeOK
        /\ FilesInv /\ ProcessInv(p)
        /\ \A q \in Procs \ {p} : At(q, "idle")
        /\ proc[p].pc \in FinalizeSteps
    BY MoverIsAlone DEF IInv, FilesInv, TypeInv, FinalizeTerminal, RestoreBaseline,
       SaveTerminal, MoveState, MoveFiles, At, FinalizeSteps
  <1> SUFFICES /\ \A q \in Procs \ {p} : proc'[q] = proc[q]
               /\ FilesInv' /\ ProcessInv(p)'
    BY <1>0, AloneStep
  <1>a. proc[p].st \in ExperimentState /\ proc[p].st # None /\ proc[p].st.id \in Experiments
    BY <1>0, ContentFacts DEF Command, Busy, ExperimentState
  <1>b. proc[p].target \in TerminalStatuses
    BY <1>0 DEF ProcessInv
  <1>c. proc[p].pc # "files" =>
           /\ cur # None /\ cur.id = proc[p].st.id
           /\ archived[cur.id] = "none"
           /\ overrides = cur.id => proc[p].st.armed
    BY <1>0, <1>a DEF ProcessInv, Holder, Busy, FinalizeSteps, FilesInv, ActiveIsOpen
  <1> USE DEF Busy, ControllerSteps, FinalizeSteps, Holder, At
  <1>1. CASE RestoreBaseline(p)
    <2>1. CASE proc[p].target = "KEPT"
      <3>1. /\ Goto(p, "save") /\ proc[p].pc = "restore"
            /\ UNCHANGED <<overrides, cur, snap, archived>>
        BY <1>1, <2>1 DEF RestoreBaseline
      <3>2. FilesInv'
        BY <1>0, <3>1, FilesUntouched
      <3> QED BY <1>0, <1>b, <1>c, <2>1, <3>1, <3>2, Moved DEF ProcessInv
    <2>2. CASE proc[p].target # "KEPT"
      <3>1. /\ proc[p].pc = "restore" /\ UNCHANGED <<cur, snap, archived>>
            /\ Goto(p, "save") \/ Finish(p)
        BY <1>1 DEF RestoreBaseline
      <3>2. snap[cur.id].base # None
        BY <1>0, <1>c, <3>1 DEF FilesInv, RollbackAlwaysPossible
      <3>3. overrides' = snap[cur.id].base /\ Goto(p, "save")
        BY <1>1, <1>c, <2>2, <3>1, <3>2 DEF RestoreBaseline
      <3>4. /\ \A e \in Experiments : overrides' = e => Accepted(e)
            /\ overrides' # cur.id
        BY <1>0, <1>a, <1>c, <3>1, <3>3
           DEF FilesInv, CandidateNeverOrphaned, Accepted
      <3>5. FilesInv'
        BY <1>0, <3>1, <3>4 DEF FilesInv, ActiveIsOpen, CandidateNeverOrphaned,
           RollbackAlwaysPossible, CandidateLiveIsArmed, Active, Accepted
      <3> QED BY <1>0, <1>b, <1>c, <3>1, <3>3, <3>4, <3>5, Moved DEF ProcessInv
    <2> QED BY <2>1, <2>2
  <1>2. CASE SaveTerminal(p)
    <2> DEFINE st == [proc[p].st EXCEPT !.status = proc[p].target]
    <2>1. /\ \/ proc[p].pc = "save" /\ Goto(p, "archive")
             \/ proc[p].pc = "archive" /\ Goto(p, "move")
          /\ cur' = st /\ UNCHANGED <<overrides, snap, archived>>
      BY <1>2 DEF SaveTerminal
    <2>2. /\ st.id = proc[p].st.id /\ st.armed = proc[p].st.armed
          /\ st.status = proc[p].target /\ st # None
      BY <1>a, <1>b, StatusFacts, ContentFacts DEF ExperimentState
    <2>3. FilesInv'
      BY <1>0, <1>a, <1>c, <2>1, <2>2 DEF FilesInv, ActiveIsOpen, CandidateNeverOrphaned,
         RollbackAlwaysPossible, CandidateLiveIsArmed, Active, Accepted
    <2>4. proc[p].target = "KEPT" \/ overrides # proc[p].st.id
      BY <1>0, <2>1 DEF ProcessInv
    <2> HIDE DEF st
    <2>5. \/ /\ proc'[p].pc \in {"archive", "move"}
             /\ proc'[p].st = proc[p].st /\ proc'[p].target = proc[p].target
             /\ \A q \in Procs \ {p} : proc'[q] = proc[q]
      BY <1>0, <2>1, Moved
    <2> QED BY <1>b, <1>c, <2>1, <2>2, <2>3, <2>4, <2>5 DEF ProcessInv
  <1>3. CASE MoveState(p)
    <2>1. /\ proc[p].pc = "move" /\ Goto(p, "files") /\ cur' = None
          /\ archived' = [archived EXCEPT ![proc[p].st.id] = cur.status]
          /\ UNCHANGED <<overrides, snap>>
      BY <1>3, <1>c DEF MoveState
    <2>2. /\ cur.status = proc[p].target
          /\ proc[p].target = "KEPT" \/ overrides # proc[p].st.id
      BY <1>0, <2>1 DEF ProcessInv
    <2>3. /\ archived'[cur.id] = proc[p].target
          /\ \A e \in Experiments \ {cur.id} : archived'[e] = archived[e]
      BY <1>0, <1>a, <1>c, <2>1, <2>2 DEF TypeOK
    <2>4. \A e \in Experiments : Accepted(e) => Accepted(e)'
      BY <1>c, <2>1, <2>3 DEF Accepted
    <2>5. \A e \in Experiments : overrides = e => Accepted(e)'
      BY <1>0, <1>c, <2>1, <2>2, <2>3, <2>4
         DEF FilesInv, CandidateNeverOrphaned, Active, Accepted
    <2>6. FilesInv'
      BY <1>0, <2>1, <2>4, <2>5 DEF FilesInv, ActiveIsOpen, CandidateNeverOrphaned,
         RollbackAlwaysPossible, CandidateLiveIsArmed, Active
    <2> QED BY <1>0, <1>b, <2>1, <2>6, Moved DEF ProcessInv
  <1>4. CASE MoveFiles(p)
    <2>1. /\ proc[p].pc = "files" /\ Finish(p) /\ cur = None
          /\ snap' = [snap EXCEPT ![proc[p].st.id] = NoSnapshot]
          /\ UNCHANGED <<overrides, cur, archived>>
      BY <1>0, <1>4 DEF MoveFiles, ProcessInv
    <2>2. \A e \in Experiments : snap'[e].base \in {snap[e].base, None}
      BY <1>0, <2>1 DEF TypeOK, NoSnapshot
    <2>3. None \notin Experiments
      BY ContentFacts
    <2>4. FilesInv'
      BY <1>0, <2>1, <2>2, <2>3 DEF FilesInv, ActiveIsOpen, CandidateNeverOrphaned,
         RollbackAlwaysPossible, CandidateLiveIsArmed, Active, Accepted
    <2> QED BY <1>0, <2>1, <2>4, Moved DEF ProcessInv
  <1> QED
    BY <1>1, <1>2, <1>3, <1>4 DEF FinalizeTerminal

\* A trading cycle, whose copy of the state is the one in current.json.
LEMMA CycleStep ==
    ASSUME IInv, ~Overlap, [Next]_vars, Cycle
    PROVE  IInv'
  <1> DEFINE b == "bot"
  <1>0. /\ b \in Procs /\ proc \in [Procs -> Command] /\ TypeOK
        /\ FilesInv /\ ProcessInv(b)
        /\ \A q \in Procs \ {b} : At(q, "idle")
        /\ UNCHANGED <<overrides, snap, archived>>
    BY MoverIsAlone DEF IInv, FilesInv, TypeInv, Procs, Cycle, BeginCycle, Buy, Sell,
       EndCycle, Trading, At
  <1> SUFFICES /\ \A q \in Procs \ {b} : proc'[q] = proc[q]
               /\ FilesInv' /\ ProcessInv(b)'
    BY <1>0, AloneStep
  <1> USE DEF Busy, ControllerSteps, FinalizeSteps, Holder, At
  \* What a cycle with a canary knows of the state it holds.
  <1>a. ASSUME Trading, Tracked
        PROVE  /\ proc[b].st \in ExperimentState /\ cur # None
               /\ cur.id = proc[b].st.id
               /\ overrides = cur.id => proc[b].st.armed
    BY <1>0, <1>a DEF Trading, Tracked, ProcessInv, Command, Process
  <1>1. ASSUME UNCHANGED cur, proc' = [proc EXCEPT ![b] = proc'[b]],
               proc'[b].pc \in {"idle", "trading"}, proc'[b].st = None
        PROVE  /\ \A q \in Procs \ {b} : proc'[q] = proc[q]
               /\ FilesInv' /\ ProcessInv(b)'
    BY <1>0, <1>1, FilesUntouched, NothingHeld DEF ProcessInv
  \* The copy is written back with the same id and flag.
  <1>2. ASSUME NEW st \in ExperimentState, Trading, Tracked, cur' = st,
               st.id = proc[b].st.id, st.armed = proc[b].st.armed
        PROVE  FilesInv'
    BY <1>0, <1>a, <1>2, ContentFacts DEF FilesInv, ActiveIsOpen, CandidateNeverOrphaned,
       RollbackAlwaysPossible, CandidateLiveIsArmed, Active, Accepted
  <1>3. ASSUME Trading, Tracked, RecordSession
        PROVE  /\ \A q \in Procs \ {b} : proc'[q] = proc[q]
               /\ FilesInv' /\ ProcessInv(b)'
    <2> DEFINE st == [proc[b].st EXCEPT !.sessions = @ + 1]
    <2>1. CASE UNCHANGED <<cur, proc>>
      BY <1>0, <2>1, FilesUntouched DEF ProcessInv
    <2>2. CASE /\ proc[b].st.sessions < TimeoutSessions
               /\ cur' = st /\ GotoWith(b, "trading", st)
      <3>1. /\ st \in ExperimentState /\ st.id = proc[b].st.id
            /\ st.armed = proc[b].st.armed
        BY <1>3, <1>a, <2>2, ConstantsAssumption DEF ExperimentState
      <3> HIDE DEF st
      <3>2. /\ proc'[b].pc = "trading" /\ proc'[b].st = st
            /\ \A q \in Procs \ {b} : proc'[q] = proc[q]
        BY <1>0, <2>2, Moved
      <3>3. FilesInv'
        BY <1>2, <1>3, <2>2, <3>1
      <3> QED BY <1>0, <1>3, <1>a, <2>2, <3>1, <3>2, <3>3, ContentFacts DEF ProcessInv
    <2> QED BY <1>3, <2>1, <2>2 DEF RecordSession
  <1>4. ASSUME Trading, Tracked, Invalidate
        PROVE  /\ \A q \in Procs \ {b} : proc'[q] = proc[q]
               /\ FilesInv' /\ ProcessInv(b)'
    <2>1. /\ proc'[b].pc = "restore" /\ proc'[b].st = proc[b].st
          /\ proc'[b].target = "INCONCLUSIVE"
          /\ \A q \in Procs \ {b} : proc'[q] = proc[q]
          /\ UNCHANGED cur
      BY <1>0, <1>4 DEF Invalidate, Finalize, Command
    <2>2. FilesInv'
      BY <1>0, <2>1, FilesUntouched
    <2> QED BY <1>0, <1>4, <1>a, <2>1, <2>2, StatusFacts DEF ProcessInv
  <1>5. CASE BeginCycle
    <2>1. CASE GotoWith(b, "trading", cur) /\ cur # None
      <3>1. /\ proc'[b].pc = "trading" /\ proc'[b].st = cur
            /\ \A q \in Procs \ {b} : proc'[q] = proc[q]
        BY <1>0, <2>1, Moved
      <3>2. UNCHANGED cur
        BY <1>5 DEF BeginCycle
      <3>3. cur \in ExperimentState /\ (overrides = cur.id => cur.armed)
        BY <1>0, <2>1 DEF TypeOK, FilesInv, CandidateLiveIsArmed, Active, ExperimentState
      <3>4. FilesInv'
        BY <1>0, <3>2, FilesUntouched
      <3> QED BY <1>0, <2>1, <3>1, <3>2, <3>3, <3>4 DEF ProcessInv
    <2>2. CASE proc' = [proc EXCEPT ![b] = Untracked]
      <3>1. proc'[b] = Untracked /\ UNCHANGED cur
        BY <1>0, <1>5, <2>2 DEF BeginCycle
      <3>2. Untracked.pc = "trading" /\ Untracked.st = None
        BY DEF Untracked, Idle
      <3>3. proc' = [proc EXCEPT ![b] = proc'[b]]
        BY <2>2, <3>1
      <3> QED BY <1>1, <3>1, <3>2, <3>3
    <2> QED BY <1>5, <2>1, <2>2 DEF BeginCycle
  <1>6. CASE UNCHANGED <<cur, proc>>
    BY <1>0, <1>6, FilesUntouched DEF ProcessInv
  <1>7. CASE Buy
    BY <1>3, <1>4, <1>6, <1>7 DEF Buy
  <1>8. CASE Sell
    BY <1>3, <1>4, <1>6, <1>8 DEF Sell
  <1>9. CASE EndCycle
    <2>1. CASE proc' = [proc EXCEPT ![b] = Idle] /\ UNCHANGED cur
      <3>1. proc'[b] = Idle
        BY <1>0, <2>1
      <3>2. Idle.pc = "idle" /\ Idle.st = None
        BY DEF Idle
      <3>3. proc' = [proc EXCEPT ![b] = proc'[b]]
        BY <2>1, <3>1, Zenon
      <3> QED BY <1>1, <2>1, <3>1, <3>2, <3>3
    <2>2. CASE /\ Tracked /\ cur' = Measured(proc[b].st)
               /\ proc' = [proc EXCEPT ![b] = Idle]
      <3> DEFINE st == Measured(proc[b].st)
      <3>1. Trading
        BY <1>9 DEF EndCycle
      <3>2. /\ st \in ExperimentState /\ st.id = proc[b].st.id
            /\ st.armed = proc[b].st.armed
        BY <1>0, <1>a, <2>2, <3>1, MeasuredFacts
      <3> HIDE DEF st
      <3>3. FilesInv'
        BY <1>2, <2>2, <3>1, <3>2 DEF st
      <3>4. proc'[b] = Idle /\ \A q \in Procs \ {b} : proc'[q] = proc[q]
        BY <1>0, <2>2
      <3> QED BY <1>0, <3>3, <3>4 DEF ProcessInv, Idle
    <2> QED BY <1>4, <1>9, <2>1, <2>2 DEF EndCycle
  <1> QED BY <1>5, <1>7, <1>8, <1>9 DEF Cycle

\* Crashes, edits by hand, and steps that change nothing.
LEMMA EnvironmentStep ==
    ASSUME IInv, [Next]_vars, Environment \/ UNCHANGED vars
    PROVE  IInv'
  <1>0. /\ proc \in [Procs -> Command] /\ TypeOK /\ TypeInv'
        /\ FilesInv /\ OneAtATime /\ \A p \in Procs : ProcessInv(p)
    BY TypeStep DEF IInv, FilesInv, TypeInv
  <1>1. ASSUME NEW p \in Procs, Crash(p) PROVE IInv'
    <2>1. /\ proc'[p] = Idle /\ \A q \in Procs \ {p} : proc'[q] = proc[q]
          /\ UNCHANGED <<overrides, cur, snap, archived>>
      BY <1>0, <1>1 DEF Crash
    <2>2. \A q \in Procs \ {p} : At(q, "idle")
      BY <1>0, <1>1 DEF OneAtATime, Crash
    <2>3. FilesInv'
      BY <1>0, <2>1, FilesUntouched
    <2>4. ProcessInv(p)'
      BY <2>1 DEF ProcessInv, Holder, At, Idle, Busy, ControllerSteps, FinalizeSteps
    <2> QED BY <2>1, <2>2, <2>3, <2>4, AloneStep
  <1>2. ASSUME NEW bytes \in OperatorContents, EditOverrides(bytes) PROVE IInv'
    <2>1. /\ overrides' = bytes /\ UNCHANGED <<cur, snap, archived, proc>>
      BY <1>2 DEF EditOverrides
    <2>2. \A e \in Experiments : overrides' # e
      BY <2>1, ContentFacts
    <2>3. FilesInv'
      BY <1>0, <2>1, <2>2 DEF FilesInv, ActiveIsOpen, CandidateNeverOrphaned,
         RollbackAlwaysPossible, CandidateLiveIsArmed, Active, Accepted
    <2>4. ASSUME NEW p \in Procs PROVE ProcessInv(p)'
      <3>1. /\ proc[p].pc \in Busy => proc[p].st.id \in Experiments
            /\ Holder(p) /\ proc[p].st # None => proc[p].st.id \in Experiments
        BY <1>0 DEF Command, Process, ExperimentState, Holder
      <3> QED
        BY <1>0, <2>1, <2>2, <3>1
           DEF ProcessInv, Holder, At, Busy, ControllerSteps, FinalizeSteps
    <2>5. OneAtATime'
      BY <1>0, <2>1 DEF OneAtATime, At
    <2> QED BY <1>0, <2>3, <2>4, <2>5 DEF IInv, FilesInv
  <1>3. ASSUME NEW e \in Experiments, EditCandidate(e) PROVE IInv'
    <2>1. /\ UNCHANGED <<overrides, cur, archived, proc>>
          /\ \A d \in Experiments : snap'[d].base = snap[d].base
      BY <1>0, <1>3 DEF EditCandidate, TypeOK, Snapshot
    <2>2. cur # None => cur.id \in Experiments
      BY <1>0 DEF TypeOK, ExperimentState
    <2>3. FilesInv'
      BY <1>0, <2>1, <2>2 DEF FilesInv, ActiveIsOpen, CandidateNeverOrphaned,
         RollbackAlwaysPossible, CandidateLiveIsArmed, Active, Accepted
    <2>4. ASSUME NEW p \in Procs PROVE ProcessInv(p)'
      <3>1. At(p, "proposing") => proc[p].st.id \in Experiments
        BY <1>0 DEF Command, ExperimentState, At, Busy, ControllerSteps
      <3> QED BY <1>0, <2>1, <3>1 DEF ProcessInv, Holder, At
    <2>5. OneAtATime'
      BY <1>0, <2>1 DEF OneAtATime, At
    <2> QED BY <1>0, <2>3, <2>4, <2>5 DEF IInv, FilesInv
  <1>4. CASE UNCHANGED vars
    <2>1. UNCHANGED <<overrides, cur, snap, archived, proc>>
      BY <1>4 DEF vars
    <2>2. FilesInv'
      BY <1>0, <2>1, FilesUntouched
    <2>3. OneAtATime' /\ \A p \in Procs : ProcessInv(p)'
      BY <1>0, <2>1 DEF OneAtATime, At, ProcessInv, Holder
    <2> QED BY <1>0, <2>2, <2>3 DEF IInv, FilesInv
  <1> QED BY <1>1, <1>2, <1>3, <1>4 DEF Environment

LEMMA SafetyStep ==
    ASSUME ~Overlap
    PROVE  IInv /\ [Next]_vars => IInv'
  BY ControllerStep, FinalizeStep, CycleStep, EnvironmentStep DEF Next, Propose

LEMMA SafetyHolds ==
    ASSUME ~Overlap
    PROVE  Spec => []IInv
  <1>1. IInv /\ [Next]_vars => IInv'
    BY SafetyStep
  <1> QED BY SafetyInit, <1>1, PTL DEF Spec

-----------------------------------------------------------------------------
(* The theorems                                                            *)

(***************************************************************************)
(* However commands, trading cycles, crashes and hand edits interleave     *)
(* between their writes, as long as commands run one at a time: candidate  *)
(* bytes are live, or some experiment's baseline, only for the experiment  *)
(* that owns current.json or for one that was kept.                        *)
(***************************************************************************)
THEOREM CandidatesAreOwned ==
    ASSUME ~Overlap
    PROVE  Spec => []CandidateNeverOrphaned
  <1>1. IInv => CandidateNeverOrphaned
    BY DEF IInv
  <1> QED BY SafetyHolds, <1>1, PTL

(***************************************************************************)
(* restore_baseline_exact finds the active experiment's baseline whenever  *)
(* it is called: an active experiment can always be rolled back.           *)
(***************************************************************************)
THEOREM BaselineIsKept ==
    ASSUME ~Overlap
    PROVE  Spec => []RollbackAlwaysPossible
  <1>1. IInv => RollbackAlwaysPossible
    BY DEF IInv
  <1> QED BY SafetyHolds, <1>1, PTL

(***************************************************************************)
(* The candidate of the active experiment goes live only after its armed   *)
(* state, the starting equity with it, is in current.json.                 *)
(***************************************************************************)
THEOREM ArmedBeforeLive ==
    ASSUME ~Overlap
    PROVE  Spec => []CandidateLiveIsArmed
  <1>1. IInv => CandidateLiveIsArmed
    BY DEF IInv
  <1> QED BY SafetyHolds, <1>1, PTL

\* Only MoveState files an outcome, and it files the active experiment's.
LEMMA OnlyMoveArchives ==
    ASSUME IInv, ~Overlap, [Next]_vars, archived' # archived
    PROVE  \E p \in Procs : At(p, "move") /\ MoveState(p)
  <1>1. \E p \in Procs : MoveState(p)
    BY DEF Next, vars, Propose, ProposeSnapshot, ProposeSave, Evaluate, EvaluateLoad, Offline,
       Arm, CheckDrift, Activate, SaveCanary, Decide, RollbackLoad, FinalizeTerminal,
       RestoreBaseline, SaveTerminal, MoveFiles, Cycle, BeginCycle, Buy, Sell, EndCycle,
       Environment, Crash, EditOverrides, EditCandidate
  <1>2. \A p \in Procs : MoveState(p) => At(p, "move")
    BY DEF MoveState
  <1> QED BY <1>1, <1>2, Zenon

\* What IInv says of a process about to move current.json to the archive.
LEMMA AtMove ==
    ASSUME IInv, NEW p \in Procs, At(p, "move")
    PROVE  /\ cur # None /\ cur.id = proc[p].st.id /\ cur.id \in Experiments
           /\ archived[cur.id] = "none"
           /\ cur.status = proc[p].target /\ proc[p].target \in TerminalStatuses
           /\ proc[p].target = "KEPT" \/ overrides # cur.id
  <1>1. proc[p].st # None /\ proc[p].st.id \in Experiments
    BY ContentFacts DEF IInv, TypeInv, Command, At, Busy, FinalizeSteps, ExperimentState
  <1>2. ProcessInv(p) /\ Holder(p)
    BY DEF IInv, Holder, At, Busy, FinalizeSteps
  <1> QED BY <1>1, <1>2 DEF ProcessInv, IInv, ActiveIsOpen, At, FinalizeSteps

(***************************************************************************)
(* The archive is final: an experiment that was filed keeps its outcome    *)
(* and no save brings it back to current.json.                             *)
(***************************************************************************)
THEOREM ArchiveIsFinal ==
    ASSUME ~Overlap
    PROVE  Spec => ArchivedIsFinal
  <1> DEFINE Final == \A e \in Experiments : archived[e] # "none" =>
                         /\ archived'[e] = archived[e]
                         /\ (cur' # None => cur'.id # e)
  <1>1. ASSUME IInv, IInv', [Next]_vars PROVE [Final]_vars
    <2> SUFFICES ASSUME NEW e \in Experiments, archived[e] # "none"
                 PROVE  archived'[e] = archived[e] /\ (cur' # None => cur'.id # e)
      OBVIOUS
    <2>1. archived'[e] = archived[e]
      <3>1. CASE archived' # archived
        <4>1. PICK p \in Procs : At(p, "move") /\ MoveState(p)
          BY <1>1, <3>1, OnlyMoveArchives
        <4>2. cur # None /\ cur.id = proc[p].st.id /\ archived[cur.id] = "none"
          BY <1>1, <4>1, AtMove
        <4> QED BY <1>1, <4>1, <4>2 DEF MoveState, IInv, TypeInv, TypeOK
      <3> QED BY <3>1
    <2>2. cur' # None => archived'[cur'.id] = "none"
      BY <1>1 DEF IInv, ActiveIsOpen
    <2> QED BY <2>1, <2>2
  <1>2. ArchivedIsFinal <=> [][Final]_vars
    BY DEF ArchivedIsFinal
  <1> QED BY SafetyHolds, <1>1, <1>2, PTL DEF Spec

-----------------------------------------------------------------------------
(* The keep gate                                                           *)

\* A copy of the state counts no more sells than the candidate ledger holds, nor, while
\* it may still be judged, than the baseline's.
Judged(st) == st.status \in {"PROPOSED", "CANARY"}
Counted(st) ==
    /\ st.trades <= shadow[st.id].cand
    /\ Judged(st) => st.trades <= shadow[st.id].base

Settled(p) ==
    proc[p].pc \notin {"idle", "files"} /\ proc[p].st # None =>
        /\ Counted(proc[p].st)
        /\ proc[p].pc \in ControllerSteps => Judged(proc[p].st)
        /\ proc[p].pc \in FinalizeSteps /\ proc[p].target = "KEPT" =>
              MinTrades <= proc[p].st.trades /\ Judged(proc[p].st)

GateInv ==
    /\ cur # None => Counted(cur)
    /\ \A p \in Procs : Settled(p)

LEMMA CountFacts ==
    ASSUME TypeOK
    PROVE  /\ \A e \in Experiments : shadow[e].cand \in Nat /\ shadow[e].base \in Nat
           /\ \A st \in ExperimentState : st.trades \in Nat /\ st.id \in Experiments
           /\ MinTrades \in Nat
  <1>1. \A e \in Experiments : shadow[e].cand \in 0..MaxFills /\ shadow[e].base \in 0..MaxFills
    BY DEF TypeOK, ShadowFills
  <1>2. ASSUME NEW st \in ExperimentState
        PROVE  st.trades \in 0..MaxFills /\ st.id \in Experiments
    BY Zenon DEF ExperimentState
  <1> QED BY <1>1, <1>2, ConstantsAssumption

\* Sells are only ever added to the ledgers of an open experiment.
Grown(e) == shadow[e].cand <= shadow'[e].cand /\ shadow[e].base <= shadow'[e].base

LEMMA SellsGrow ==
    ASSUME IInv, [Next]_vars, ~\E p \in Procs : MoveFiles(p)
    PROVE  \A e \in Experiments : Grown(e)
  <1>0. /\ TypeOK
        /\ \A e \in Experiments : /\ shadow[e] \in ShadowFills
                                  /\ shadow[e].cand \in Nat /\ shadow[e].base \in Nat
    BY CountFacts DEF IInv, TypeInv, TypeOK
  <1>1. ASSUME UNCHANGED shadow PROVE \A e \in Experiments : Grown(e)
    BY <1>0, <1>1 DEF Grown
  <1>2. ASSUME NEW d \in Experiments, Reconcile(d)
        PROVE  \A e \in Experiments : Grown(e)
    BY <1>0, <1>2 DEF Reconcile, TypeOK, ShadowFills, Grown
  <1>3. ASSUME NEW d \in Experiments, RecordExit(d)
        PROVE  \A e \in Experiments : Grown(e)
    <2>1. /\ shadow'[d].cand \in {shadow[d].cand, shadow[d].cand + 1}
          /\ shadow'[d].base \in {shadow[d].base, shadow[d].base + 1}
      BY <1>0, <1>3 DEF RecordExit, TypeOK
    <2>2. \A e \in Experiments \ {d} : shadow'[e] = shadow[e]
      BY <1>0, <1>3 DEF RecordExit, TypeOK
    <2> QED BY <1>0, <2>1, <2>2 DEF Grown
  <1>4. CASE BeginCycle
    BY <1>0, <1>1, <1>2, <1>4 DEF BeginCycle, TypeOK, ExperimentState
  <1>5. CASE Sell
    <2>1. Trading /\ Tracked => proc["bot"].st.id \in Experiments
      BY <1>0 DEF TypeOK, Tracked, Process, Procs, ExperimentState
    <2> QED BY <1>1, <1>3, <1>5, <2>1 DEF Sell, Invalidate
  <1> QED
    BY <1>1, <1>4, <1>5
       DEF Next, vars, Propose, ProposeSnapshot, ProposeSave, Evaluate, EvaluateLoad, Offline,
       Arm, CheckDrift, Activate, SaveCanary, Decide, RollbackLoad, FinalizeTerminal,
       RestoreBaseline, SaveTerminal, MoveState, Cycle, Buy, EndCycle, Invalidate,
       Environment, Crash, EditOverrides, EditCandidate

\* While no ledger is filed away, a copy stays counted, and so does one that is
\* counted already and only gets another status, flag or number of sessions.
Follows(new, st) == new.id = st.id /\ new.trades = st.trades /\ (Judged(new) => Judged(st))

LEMMA StillCounted ==
    ASSUME IInv, [Next]_vars, ~\E p \in Procs : MoveFiles(p),
           NEW st \in ExperimentState, Counted(st)
    PROVE  \A new : Follows(new, st) => Counted(new)'
  <1>1. TypeOK /\ TypeOK'
    BY TypeStep DEF IInv, TypeInv
  <1>2. /\ st.id \in Experiments /\ st.trades \in Nat
        /\ shadow[st.id].cand \in Nat /\ shadow'[st.id].cand \in Nat
        /\ shadow[st.id].base \in Nat /\ shadow'[st.id].base \in Nat
    BY <1>1, CountFacts DEF TypeOK, ShadowFills
  <1>3. Grown(st.id)
    BY <1>2, SellsGrow
  <1> QED BY <1>2, <1>3 DEF Counted, Follows, Judged, Grown

LEMMA GateInit == Init => GateInv
  BY DEF Init, GateInv, Settled, Idle

\* What is left to show of a step that files no ledger away and is taken by p alone:
\* p's copy and current.json go on with the counts of a state counted before.
LEMMA GateAlone ==
    ASSUME IInv, GateInv, [Next]_vars, ~\E q \in Procs : MoveFiles(q), NEW p \in Procs,
           \A q \in Procs \ {p} : proc'[q] = proc[q] /\ At(q, "idle"),
           NEW st \in ExperimentState, Counted(st),
           cur' \in {cur, None} \/ Follows(cur', st),
           \/ proc'[p].st = None
           \/ proc'[p].pc \in {"idle", "files"}
           \/ /\ Follows(proc'[p].st, st)
              /\ proc'[p].pc \in ControllerSteps => Judged(proc'[p].st)
              /\ proc'[p].pc \in FinalizeSteps /\ proc'[p].target = "KEPT" =>
                    MinTrades <= st.trades /\ Judged(proc'[p].st)
    PROVE  GateInv'
  <1>1. /\ proc \in [Procs -> Command] /\ \A q \in Procs : Settled(q)
        /\ cur \in ExperimentState \cup {None} /\ (cur # None => Counted(cur))
    BY DEF IInv, TypeInv, TypeOK, GateInv
  <1>2. \A new : Follows(new, st) => Counted(new)'
    BY StillCounted
  <1>3. (cur # None => Counted(cur))'
    <2>1. CASE cur' = cur
      <3>1. cur # None => \A new : Follows(new, cur) => Counted(new)'
        BY <1>1, StillCounted
      <3> QED BY <2>1, <3>1 DEF Counted, Follows, Judged
    <2>2. CASE Follows(cur', st)
      BY <1>2, <2>2 DEF Counted, Judged
    <2> QED BY <2>1, <2>2
  <1>4. Settled(p)'
    <2>1. CASE Follows(proc'[p].st, st)
      <3>1. \A new : new = proc'[p].st => Counted(new)'
        BY <1>2, <2>1
      <3>2. /\ proc'[p].st.trades <= shadow'[proc'[p].st.id].cand
            /\ Judged(proc'[p].st) => proc'[p].st.trades <= shadow'[proc'[p].st.id].base
        BY <3>1 DEF Counted, Judged
      <3>3. proc'[p].st.trades = st.trades
        BY <2>1 DEF Follows
      <3>4. proc'[p].pc \in {"idle", "files"} => Settled(p)'
        BY DEF Settled
      <3> QED BY <2>1, <3>2, <3>3, <3>4 DEF Settled, Counted, Judged, FinalizeSteps, ControllerSteps
    <2> QED BY <2>1 DEF Settled, At
  <1>5. \A q \in Procs \ {p} : Settled(q)'
    BY DEF Settled, At
  <1> QED BY <1>3, <1>4, <1>5 DEF GateInv

\* The same for commands of the controller.
LEMMA GateController ==
    ASSUME IInv, GateInv, ~Overlap, [Next]_vars, ~\E q \in Procs : MoveFiles(q),
           (\E e \in Experiments : ProposeSnapshot(e)) \/ ProposeSave \/ Evaluate \/ RollbackLoad
    PROVE  GateInv'
  <1> DEFINE c == "controller"
  <1>0. /\ c \in Procs /\ proc \in [Procs -> Command]
        /\ cur \in ExperimentState \cup {None} /\ None \notin ExperimentState
        /\ cur # None => Counted(cur)
        /\ Settled(c)
        /\ \A q \in Procs \ {c} : At(q, "idle")
    BY MoverIsAlone, ContentFacts DEF IInv, TypeInv, TypeOK, GateInv, Procs, Evaluate,
       ProposeSnapshot, ProposeSave, EvaluateLoad, Offline, Arm, CheckDrift, Activate,
       SaveCanary, Decide, RollbackLoad, At
  <1>a. ASSUME proc[c].pc \in ControllerSteps
        PROVE  proc[c].st \in ExperimentState /\ Counted(proc[c].st) /\ Judged(proc[c].st)
    BY <1>0, <1>a DEF Settled, Command, At, Busy, ControllerSteps
  <1>b. \A st, outcome, noted : Finalize(c, st, outcome, noted) =>
           /\ proc'[c].st = st /\ proc'[c].target = outcome /\ proc'[c].pc \notin ControllerSteps
           /\ \A q \in Procs \ {c} : proc'[q] = proc[q]
    BY <1>0 DEF Finalize, ControllerSteps
  <1> USE DEF At, ControllerSteps, Follows
  <1>1. ASSUME NEW e \in Experiments, ProposeSnapshot(e) PROVE GateInv'
    <2> DEFINE st == [id |-> e, status |-> "PROPOSED", base |-> overrides, armed |-> FALSE,
                      trades |-> 0, sessions |-> 0, measured |-> FALSE]
    <2>1. GotoWith(c, "proposing", st) /\ UNCHANGED cur
      BY <1>1 DEF ProposeSnapshot
    <2>2. st \in ExperimentState /\ Counted(st) /\ Judged(st)
      <3>1. TypeOK /\ shadow[e].cand \in Nat /\ shadow[e].base \in Nat
        BY CountFacts DEF IInv, TypeInv
      <3> QED BY <3>1, ConstantsAssumption, StatusFacts DEF ExperimentState, Counted, Judged, TypeOK
    <2>3. proc'[c].st = st /\ proc'[c].pc = "proposing"
      BY <1>0, <2>1, Moved
    <2>4. \A q \in Procs \ {c} : proc'[q] = proc[q]
      BY <1>0, <2>1, Moved
    <2> HIDE DEF st
    <2> QED BY <1>0, <2>1, <2>2, <2>3, <2>4, GateAlone DEF FinalizeSteps
  <1>2. CASE ProposeSave
    <2>1. /\ proc'[c].st = None /\ \A q \in Procs \ {c} : proc'[q] = proc[q]
          /\ cur' = proc[c].st /\ proc[c].pc = "proposing"
      BY <1>0, <1>2, Moved DEF ProposeSave
    <2> QED BY <1>0, <1>a, <2>1, GateAlone
  <1>3. CASE EvaluateLoad
    <2>1. cur # None /\ UNCHANGED cur /\ Judged(cur)
      BY <1>3 DEF EvaluateLoad, Judged
    <2>2. \/ Finalize(c, cur, "ERROR", FALSE)
          \/ GotoWith(c, "offline", cur)
          \/ GotoWith(c, "decide", cur)
      BY <1>3 DEF EvaluateLoad
    <2>3. CASE Finalize(c, cur, "ERROR", FALSE)
      <3>1. /\ proc'[c].st = cur /\ proc'[c].target = "ERROR"
            /\ \A q \in Procs \ {c} : proc'[q] = proc[q]
        BY <1>b, <2>3
      <3> QED BY <1>0, <2>1, <3>1, GateAlone
    <2>4. ASSUME NEW step \in {"offline", "decide"}, GotoWith(c, step, cur) PROVE GateInv'
      <3>1. /\ proc'[c].st = cur /\ proc'[c].pc \notin FinalizeSteps
            /\ \A q \in Procs \ {c} : proc'[q] = proc[q]
        BY <1>0, <2>4, Moved DEF FinalizeSteps
      <3> QED BY <1>0, <2>1, <3>1, GateAlone
    <2> QED BY <2>2, <2>3, <2>4
  <1>4. CASE Offline
    <2> DEFINE st == proc[c].st
    <2>1. proc[c].pc = "offline" /\ UNCHANGED cur
      BY <1>4 DEF Offline
    <2>2. \/ \E outcome \in {"OFFLINE_REJECTED", "INCONCLUSIVE"} : Finalize(c, st, outcome, FALSE)
          \/ GotoWith(c, "arm", [st EXCEPT !.armed = TRUE])
      BY <1>4 DEF Offline
    <2>3. ASSUME NEW outcome \in {"OFFLINE_REJECTED", "INCONCLUSIVE"},
                 Finalize(c, st, outcome, FALSE)
          PROVE  GateInv'
      <3>1. /\ proc'[c].st = st /\ proc'[c].target # "KEPT"
            /\ \A q \in Procs \ {c} : proc'[q] = proc[q]
        BY <1>b, <2>3
      <3> QED BY <1>0, <1>a, <2>1, <3>1, GateAlone
    <2>4. CASE GotoWith(c, "arm", [st EXCEPT !.armed = TRUE])
      <3>1. /\ proc'[c].st = [st EXCEPT !.armed = TRUE] /\ proc'[c].pc \notin FinalizeSteps
            /\ \A q \in Procs \ {c} : proc'[q] = proc[q]
        BY <1>0, <2>4, Moved DEF FinalizeSteps
      <3>2. Follows(proc'[c].st, st) /\ Judged(proc'[c].st)
        BY <1>a, <2>1, <3>1 DEF ExperimentState, Judged
      <3> QED BY <1>0, <1>a, <2>1, <3>1, <3>2, GateAlone
    <2> QED BY <2>2, <2>3, <2>4
  <1>5. CASE Arm
    <2> DEFINE st == proc[c].st
    <2>1. /\ proc[c].pc = "arm" /\ cur' = st
          /\ proc'[c].pc = "check" /\ proc'[c].st = [st EXCEPT !.status = "CANARY"]
          /\ \A q \in Procs \ {c} : proc'[q] = proc[q]
      BY <1>0, <1>5, Moved DEF Arm
    <2>2. Follows(proc'[c].st, st) /\ Judged(proc'[c].st)
      BY <1>a, <2>1 DEF ExperimentState, Judged
    <2> QED BY <1>0, <1>a, <2>1, <2>2, GateAlone DEF FinalizeSteps
  <1>6. CASE CheckDrift
    <2>1. /\ proc[c].pc = "check" /\ UNCHANGED cur
          /\ proc'[c].pc = "activate" /\ proc'[c].st = proc[c].st
          /\ \A q \in Procs \ {c} : proc'[q] = proc[q]
      BY <1>0, <1>6 DEF CheckDrift, Command, Process
    <2> QED BY <1>0, <1>a, <2>1, GateAlone DEF FinalizeSteps
  <1>7. CASE Activate
    <2>1. /\ proc[c].pc = "activate" /\ UNCHANGED cur /\ proc'[c].st = proc[c].st
          /\ \A q \in Procs \ {c} : proc'[q] = proc[q]
          /\ proc'[c].target = "ERROR" \/ proc'[c].pc = "started"
      BY <1>0, <1>7, <1>b, Moved DEF Activate
    <2> QED BY <1>0, <1>a, <2>1, GateAlone DEF FinalizeSteps
  <1>8. CASE SaveCanary
    <2>1. /\ proc[c].pc = "started" /\ cur' = proc[c].st /\ proc'[c].st = proc[c].st
          /\ proc'[c].pc = "decide" /\ \A q \in Procs \ {c} : proc'[q] = proc[q]
      BY <1>0, <1>8, Moved DEF SaveCanary
    <2> QED BY <1>0, <1>a, <2>1, GateAlone DEF FinalizeSteps
  <1>9. CASE Decide
    <2> DEFINE st == proc[c].st
    <2>1. proc[c].pc = "decide" /\ UNCHANGED cur
      BY <1>9 DEF Decide
    <2>2. \/ Finish(c)
          \/ \E d \in Decisions(st) \cup {"INCONCLUSIVE"} : Finalize(c, st, d, FALSE)
      BY <1>9 DEF Decide
    <2>3. "KEPT" \in Decisions(st) \cup {"INCONCLUSIVE"} => MinTrades <= st.trades
      <3>1. st.trades \in Nat /\ MinTrades \in Nat
        BY <1>a, <2>1, CountFacts DEF IInv, TypeInv
      <3> QED BY <3>1 DEF Decisions
    <2>4. CASE Finish(c)
      BY <1>0, <1>a, <2>1, <2>4, Moved, GateAlone
    <2>5. ASSUME NEW d \in Decisions(st) \cup {"INCONCLUSIVE"}, Finalize(c, st, d, FALSE)
          PROVE  GateInv'
      <3>1. /\ proc'[c].st = st /\ proc'[c].target = d
            /\ \A q \in Procs \ {c} : proc'[q] = proc[q]
        BY <1>b, <2>5
      <3>2. d = "KEPT" => MinTrades <= st.trades
        BY <2>3, <2>5
      <3>3. proc'[c].pc \in FinalizeSteps /\ proc'[c].target = "KEPT" =>
                MinTrades <= st.trades /\ Judged(proc'[c].st)
        BY <1>a, <2>1, <3>1, <3>2
      <3> HIDE DEF st
      <3>4. st \in ExperimentState /\ Counted(st) /\ Judged(st) /\ c \in Procs
        BY <1>0, <1>a, <2>1 DEF st
      <3>5. Follows(proc'[c].st, st) /\ Judged(proc'[c].st)
        BY <3>1, <3>4
      <3> QED BY <1>0, <2>1, <3>1, <3>3, <3>4, <3>5, GateAlone
    <2> QED BY <2>2, <2>4, <2>5
  <1>10. CASE RollbackLoad
    <2>1. /\ cur # None /\ UNCHANGED cur /\ proc'[c].st = cur
          /\ \A q \in Procs \ {c} : proc'[q] = proc[q]
          /\ proc'[c].target = "ROLLED_BACK" /\ proc'[c].pc \notin ControllerSteps
      BY <1>0, <1>10, <1>b DEF RollbackLoad
    <2> QED BY <1>0, <2>1, GateAlone
  <1> QED
    BY <1>1, <1>2, <1>3, <1>4, <1>5, <1>6, <1>7, <1>8, <1>9, <1>10 DEF Evaluate

\* A step that ends an experiment.
LEMMA GateFinalize ==
    ASSUME IInv, GateInv, ~Overlap, [Next]_vars, NEW p \in Procs, FinalizeTerminal(p)
    PROVE  GateInv'
  <1>0. /\ proc \in [Procs -> Command] /\ TypeOK
        /\ cur \in ExperimentState \cup {None} /\ None \notin ExperimentState
        /\ ProcessInv(p) /\ Settled(p)
        /\ \A q \in Procs \ {p} : At(q, "idle")
    BY MoverIsAlone, ContentFacts DEF IInv, TypeInv, TypeOK, GateInv, FinalizeTerminal,
       RestoreBaseline, SaveTerminal, MoveState, MoveFiles, At
  <1>1. ASSUME proc[p].pc \in FinalizeSteps
        PROVE  proc[p].st \in ExperimentState
    BY <1>0, <1>1 DEF Command, Busy
  <1>2. ASSUME proc[p].pc \in FinalizeSteps \ {"files"}
        PROVE  /\ Counted(proc[p].st)
               /\ proc[p].target = "KEPT" => MinTrades <= proc[p].st.trades /\ Judged(proc[p].st)
    BY <1>0, <1>1, <1>2 DEF Settled, At, FinalizeSteps
  <1>3. CASE MoveFiles(p)
    <2>1. proc[p].pc = "files" /\ cur = None /\ UNCHANGED cur /\ Finish(p)
      BY <1>0, <1>3 DEF MoveFiles, ProcessInv, At
    <2>2. proc'[p].st = None /\ \A q \in Procs \ {p} : proc'[q] = proc[q]
      BY <1>0, <2>1, Moved
    <2> QED BY <1>0, <2>1, <2>2 DEF GateInv, Settled, At
  <1>4. ASSUME ~MoveFiles(p), ~At(p, "files") PROVE ~\E q \in Procs : MoveFiles(q)
    BY <1>0, <1>4 DEF MoveFiles, At
  <1>5. CASE RestoreBaseline(p)
    <2>1. proc[p].pc = "restore" /\ UNCHANGED cur /\ (Goto(p, "save") \/ Finish(p))
      BY <1>5 DEF RestoreBaseline, At
    <2>2. proc[p].pc \in FinalizeSteps \ {"files"}
      BY <2>1 DEF FinalizeSteps
    <2>3. CASE Goto(p, "save")
      <3>1. /\ proc'[p].st = proc[p].st /\ proc'[p].target = proc[p].target
            /\ proc'[p].pc \notin ControllerSteps
            /\ \A q \in Procs \ {p} : proc'[q] = proc[q]
        BY <1>0, <2>3, Moved DEF ControllerSteps
      <3>2. Follows(proc'[p].st, proc[p].st)
        BY <3>1 DEF Follows
      <3> QED BY <1>0, <1>1, <1>2, <1>4, <2>1, <2>2, <3>1, <3>2, GateAlone DEF MoveFiles, At
    <2>4. CASE Finish(p)
      <3>1. proc'[p].st = None /\ \A q \in Procs \ {p} : proc'[q] = proc[q]
        BY <1>0, <2>4, Moved
      <3> QED BY <1>0, <1>1, <1>2, <1>4, <2>1, <2>2, <3>1, GateAlone DEF MoveFiles, At
    <2> QED BY <2>1, <2>3, <2>4
  <1>6. CASE SaveTerminal(p)
    <2> DEFINE st == proc[p].st
    <2>1. /\ proc[p].pc \in {"save", "archive"}
          /\ Goto(p, "archive") \/ Goto(p, "move")
          /\ cur' = [st EXCEPT !.status = proc[p].target]
      BY <1>6 DEF SaveTerminal, At
    <2>2. proc[p].pc \in FinalizeSteps \ {"files"}
      BY <2>1 DEF FinalizeSteps
    <2>3. /\ proc'[p].st = st /\ proc'[p].target = proc[p].target
          /\ proc'[p].pc \notin ControllerSteps
          /\ \A q \in Procs \ {p} : proc'[q] = proc[q]
      BY <1>0, <2>1, Moved DEF ControllerSteps
    <2>4. Follows(cur', st) /\ Follows(proc'[p].st, st)
      <3>1. proc[p].target \in TerminalStatuses
        BY <1>0, <2>2 DEF ProcessInv
      <3>2. ~Judged(cur')
        BY <1>1, <2>1, <2>2, <3>1 DEF ExperimentState, Judged, TerminalStatuses
      <3> QED BY <1>1, <2>1, <2>2, <2>3, <3>2 DEF ExperimentState, Follows
    <2> QED BY <1>0, <1>1, <1>2, <1>4, <2>1, <2>2, <2>3, <2>4, GateAlone DEF MoveFiles, At
  <1>7. CASE MoveState(p)
    <2>1. proc[p].pc = "move" /\ cur' = None /\ Goto(p, "files")
      BY <1>7 DEF MoveState, At
    <2>2. proc[p].pc \in FinalizeSteps \ {"files"}
      BY <2>1 DEF FinalizeSteps
    <2>3. proc'[p].pc = "files" /\ \A q \in Procs \ {p} : proc'[q] = proc[q]
      BY <1>0, <2>1, Moved
    <2> QED BY <1>0, <1>1, <1>2, <1>4, <2>1, <2>2, <2>3, GateAlone DEF MoveFiles, At
  <1> QED BY <1>3, <1>5, <1>6, <1>7 DEF FinalizeTerminal

\* A trading cycle: only its end changes a count, to the one in the ledger.
LEMMA GateCycle ==
    ASSUME IInv, GateInv, ~Overlap, [Next]_vars, Cycle
    PROVE  GateInv'
  <1> DEFINE b == "bot"
  <1> USE DEF Follows
  <1>0. /\ b \in Procs /\ proc \in [Procs -> Command] /\ TypeOK
        /\ cur \in ExperimentState \cup {None} /\ None \notin ExperimentState
        /\ cur # None => Counted(cur)
        /\ Settled(b)
        /\ \A q \in Procs \ {b} : At(q, "idle")
        /\ proc[b].pc \in {"idle", "trading"}
        /\ ~\E q \in Procs : MoveFiles(q)
    <2>1. b \in Procs /\ (MayStart(b) \/ ~At(b, "idle"))
      BY DEF Procs, Cycle, BeginCycle, Buy, Sell, EndCycle, Trading, At
    <2>2. \A q \in Procs \ {b} : At(q, "idle")
      BY <2>1, MoverIsAlone DEF IInv
    <2>3. proc[b].pc \in {"idle", "trading"}
      BY DEF Cycle, BeginCycle, Buy, Sell, EndCycle, Trading, At, MayStart
    <2> QED BY <2>1, <2>2, <2>3, ContentFacts DEF IInv, TypeInv, TypeOK, GateInv, MoveFiles, At
  <1>1. ASSUME Trading, Tracked
        PROVE  proc[b].st \in ExperimentState /\ Counted(proc[b].st)
    BY <1>0, <1>1 DEF Trading, Tracked, At, Settled, Command, Process
  \* A cycle without a copy, beginning or ending.
  <1>2. ASSUME UNCHANGED cur, proc'[b].st = None,
               \A q \in Procs \ {b} : proc'[q] = proc[q]
        PROVE  GateInv'
    <2>1. cur # None => \A new : Follows(new, cur) => Counted(new)'
      BY <1>0, StillCounted
    <2>2. (cur # None => Counted(cur))'
      BY <1>2, <2>1 DEF Counted, Judged
    <2> QED BY <1>0, <1>2, <2>2 DEF GateInv, Settled, At
  <1>3. ASSUME Trading, Tracked, UNCHANGED <<cur, proc>> PROVE GateInv'
    BY <1>0, <1>1, <1>3, GateAlone DEF Trading, At, FinalizeSteps, ControllerSteps
  <1>4. ASSUME Trading, Tracked, RecordSession PROVE GateInv'
    <2> DEFINE st == proc[b].st  new == [st EXCEPT !.sessions = @ + 1]
    <2>1. CASE cur' = new /\ GotoWith(b, "trading", new)
      <3>1. Follows(new, st)
        BY <1>1, <1>4 DEF ExperimentState, Judged
      <3> HIDE DEF new
      <3>2. /\ proc'[b].st = new /\ proc'[b].pc \notin FinalizeSteps \cup ControllerSteps
            /\ \A q \in Procs \ {b} : proc'[q] = proc[q]
        BY <1>0, <2>1, Moved DEF FinalizeSteps, ControllerSteps
      <3> QED BY <1>0, <1>1, <1>4, <2>1, <3>1, <3>2, GateAlone
    <2> QED BY <1>3, <1>4, <2>1 DEF RecordSession
  <1>5. ASSUME Trading, Tracked, Invalidate PROVE GateInv'
    <2>1. /\ proc'[b].st = proc[b].st /\ proc'[b].target = "INCONCLUSIVE" /\ UNCHANGED cur
          /\ proc'[b].pc \notin ControllerSteps
          /\ \A q \in Procs \ {b} : proc'[q] = proc[q]
      BY <1>0, <1>5 DEF Invalidate, Finalize, ControllerSteps
    <2> QED BY <1>0, <1>1, <1>5, <2>1, GateAlone
  <1>6. ASSUME Trading, ~Tracked, UNCHANGED <<cur, proc>> PROVE GateInv'
    BY <1>2, <1>6 DEF Tracked
  <1>7. CASE BeginCycle
    <2>1. CASE cur # None /\ GotoWith(b, "trading", cur)
      <3>1. /\ proc'[b].st = cur /\ proc'[b].pc \notin FinalizeSteps \cup ControllerSteps
            /\ \A q \in Procs \ {b} : proc'[q] = proc[q]
        BY <1>0, <2>1, Moved DEF FinalizeSteps, ControllerSteps
      <3>2. UNCHANGED cur
        BY <1>7 DEF BeginCycle
      <3> QED BY <1>0, <2>1, <3>1, <3>2, GateAlone
    <2>2. CASE proc' = [proc EXCEPT ![b] = Untracked]
      <3>1. proc'[b].st = None /\ \A q \in Procs \ {b} : proc'[q] = proc[q]
        BY <1>0, <2>2 DEF Untracked, Idle
      <3>2. UNCHANGED cur
        BY <1>7 DEF BeginCycle
      <3> QED BY <1>2, <3>1, <3>2
    <2> QED BY <1>7, <2>1, <2>2 DEF BeginCycle
  <1>8. CASE Buy
    BY <1>4, <1>5, <1>6, <1>8 DEF Buy
  <1>9. CASE Sell
    BY <1>4, <1>5, <1>6, <1>9 DEF Sell
  <1>10. CASE EndCycle
    <2>1. CASE /\ Tracked /\ cur' = Measured(proc[b].st)
               /\ proc' = [proc EXCEPT ![b] = Idle] /\ UNCHANGED shadow
      <3>1. Trading
        BY <1>10 DEF EndCycle
      <3>2. cur'.id = proc[b].st.id /\ cur'.trades = shadow[proc[b].st.id].cand
        BY <1>0, <1>1, <2>1, <3>1, MeasuredFacts
      <3>3. shadow[cur'.id].cand \in Nat
        BY <1>0, <1>1, <2>1, <3>1, <3>2, CountFacts
      <3>4. Judged(cur') => shadow[cur'.id].cand = shadow[cur'.id].base
        BY <1>0, <1>1, <2>1, <3>1, <3>2, MeasuredFacts DEF Judged
      <3>6. (cur # None => Counted(cur))'
        BY <2>1, <3>2, <3>3, <3>4 DEF Counted, Judged
      <3>5. proc'[b].st = None /\ \A q \in Procs \ {b} : proc'[q] = proc[q]
        BY <1>0, <2>1 DEF Idle
      <3> QED BY <1>0, <3>5, <3>6 DEF GateInv, Settled, At
    <2>2. CASE proc' = [proc EXCEPT ![b] = Idle] /\ UNCHANGED cur
      <3>1. proc'[b].st = None /\ \A q \in Procs \ {b} : proc'[q] = proc[q]
        BY <1>0, <2>2 DEF Idle
      <3> QED BY <1>2, <2>2, <3>1
    <2> QED BY <1>5, <1>10, <2>1, <2>2 DEF EndCycle
  <1> QED BY <1>7, <1>8, <1>9, <1>10 DEF Cycle

\* Crashes, edits by hand, and steps that change nothing: no count moves.
LEMMA GateEnvironment ==
    ASSUME IInv, GateInv, Environment \/ UNCHANGED vars
    PROVE  GateInv'
  <1>1. /\ UNCHANGED <<cur, shadow>>
        /\ \A p \in Procs : proc'[p] = proc[p] \/ proc'[p] = Idle
    BY DEF IInv, TypeInv, Environment, Crash, EditOverrides, EditCandidate, vars
  <1>2. ASSUME NEW p \in Procs PROVE Settled(p)'
    BY <1>1, <1>2 DEF GateInv, Settled, At, Counted, Judged, Idle
  <1> QED BY <1>1, <1>2 DEF GateInv, Counted, Judged

LEMMA GateHolds ==
    ASSUME ~Overlap
    PROVE  Spec => [](IInv /\ GateInv)
  <1>1. ASSUME IInv, GateInv, [Next]_vars PROVE IInv' /\ GateInv'
    <2>1. IInv'
      BY <1>1, SafetyStep
    <2>2. ASSUME NEW p \in Procs, FinalizeTerminal(p) PROVE GateInv'
      BY <1>1, <2>2, GateFinalize
    <2>3. ASSUME Cycle PROVE GateInv'
      BY <1>1, <2>3, GateCycle
    <2>4. ASSUME Environment \/ UNCHANGED vars PROVE GateInv'
      BY <1>1, <2>4, GateEnvironment
    <2>5. ASSUME Propose \/ Evaluate \/ RollbackLoad PROVE GateInv'
      <3>1. MayStart("controller") \/ proc["controller"].pc \in ControllerSteps
        BY <2>5 DEF Propose, Evaluate, ProposeSnapshot, ProposeSave, EvaluateLoad, Offline,
           Arm, CheckDrift, Activate, SaveCanary, Decide, RollbackLoad, At, ControllerSteps
      <3>2. /\ "controller" \in Procs /\ ~At("controller", "files")
            /\ MayStart("controller") \/ ~At("controller", "idle")
        BY <3>1 DEF Procs, MayStart, At, ControllerSteps
      <3>3. \A q \in Procs \ {"controller"} : At(q, "idle")
        <4>1. OneAtATime
          BY <1>1 DEF IInv
        <4> QED BY <3>2, <4>1, MoverIsAlone
      <3>4. ~\E q \in Procs : MoveFiles(q)
        BY <3>2, <3>3 DEF MoveFiles, At
      <3> QED BY <1>1, <2>5, <3>4, GateController DEF Propose
    <2> QED BY <1>1, <2>1, <2>2, <2>3, <2>4, <2>5 DEF Next
  <1>2. Init => IInv /\ GateInv
    BY SafetyInit, GateInit
  <1>3. IInv /\ GateInv /\ [Next]_vars => (IInv /\ GateInv)'
    BY <1>1
  <1> QED BY <1>2, <1>3, PTL DEF Spec

(***************************************************************************)
(* A candidate is archived as kept only when its own shadow ledger and the *)
(* baseline's hold MinTrades realized sells each, whatever crashed, was    *)
(* edited by hand or was saved from a cycle's copy of the state since it   *)
(* was proposed: a copy whose ledgers had come apart when it was measured  *)
(* is INCONCLUSIVE and is not judged again.                                *)
(***************************************************************************)
THEOREM KeptAfterGate ==
    ASSUME ~Overlap
    PROVE  Spec => KeptOnlyAfterGate
  <1> DEFINE Gate == \A e \in Experiments :
                        ~Accepted(e) /\ Accepted(e)' =>
                            shadow[e].cand >= MinTrades /\ shadow[e].base >= MinTrades
  <1>1. ASSUME IInv, GateInv, [Next]_vars PROVE [Gate]_vars
    <2> SUFFICES ASSUME NEW e \in Experiments, ~Accepted(e), Accepted(e)'
                 PROVE  shadow[e].cand >= MinTrades /\ shadow[e].base >= MinTrades
      OBVIOUS
    <2>1. PICK p \in Procs : At(p, "move") /\ MoveState(p)
      BY <1>1, OnlyMoveArchives DEF Accepted
    <2>2. /\ cur # None /\ cur.id = proc[p].st.id /\ cur.status = proc[p].target
          /\ archived' = [archived EXCEPT ![proc[p].st.id] = cur.status]
      BY <1>1, <2>1, AtMove DEF MoveState
    <2>3. e = proc[p].st.id /\ proc[p].target = "KEPT"
      BY <1>1, <2>2 DEF Accepted, IInv, TypeInv, TypeOK
    <2>4. /\ proc[p].st \in ExperimentState /\ proc[p].st # None
          /\ proc[p].pc \in FinalizeSteps /\ ~At(p, "idle") /\ ~At(p, "files")
      BY <1>1, <2>1, ContentFacts DEF IInv, TypeInv, Command, Busy, FinalizeSteps, At
    <2>5. Counted(proc[p].st) /\ Judged(proc[p].st) /\ MinTrades <= proc[p].st.trades
      BY <1>1, <2>3, <2>4 DEF GateInv, Settled, At
    <2>6. /\ MinTrades \in Nat /\ proc[p].st.trades \in Nat
          /\ shadow[e].cand \in Nat /\ shadow[e].base \in Nat
      BY <1>1, <2>4, CountFacts DEF IInv, TypeInv
    <2> QED BY <2>3, <2>5, <2>6 DEF Counted
  <1>2. KeptOnlyAfterGate <=> [][Gate]_vars
    BY DEF KeptOnlyAfterGate
  <1> QED BY GateHolds, <1>1, <1>2, PTL DEF Spec

-----------------------------------------------------------------------------
(* The refinement                                                          *)

\* The promise starts true, and no step breaks it.
LEMMA PromiseInit == Init => Promise!Init
  BY DEF Init, Promise!Init, ActiveId, ActiveBaseline

LEMMA PromiseStep ==
    ASSUME IInv, IInv', ~Overlap, [Next]_vars
    PROVE  [Promise!Next]_Promise!vars
  <1>0. /\ proc \in [Procs -> Command] /\ TypeOK /\ cur' \in ExperimentState \cup {None}
        /\ FilesInv /\ \A p \in Procs : ProcessInv(p)
        /\ None \notin Experiments
    BY ContentFacts DEF IInv, FilesInv, TypeInv, TypeOK
  <1> USE DEF Promise!Next, Promise!vars, ActiveId, ActiveBaseline
  <1>a. \A e \in Experiments : Promise!Open(e) => Promise!Next
    OBVIOUS
  <1>b. \A s \in TerminalStatuses : Promise!Close(s) => Promise!Next
    OBVIOUS
  <1>c. \A bytes \in OperatorContents : Promise!Edit(bytes) => Promise!Next
    OBVIOUS
  \* Steps that keep the ids and touch neither the files nor the archive.
  <1>d. ASSUME UNCHANGED <<overrides, snap, archived>>, cur # None, cur' # None,
               cur'.id = cur.id
        PROVE  UNCHANGED Promise!vars
    BY <1>d
  <1>e. ASSUME UNCHANGED <<overrides, cur, snap, archived>> PROVE UNCHANGED Promise!vars
    BY <1>e
  <1>1. ASSUME NEW e \in Experiments, ProposeSnapshot(e) PROVE UNCHANGED Promise!vars
    BY <1>1 DEF ProposeSnapshot
  <1>2. CASE ProposeSave
    <2> DEFINE id == proc["controller"].st.id
    <2>1. /\ cur = None /\ archived[id] = "none" /\ snap[id].base # None
          /\ id \in Experiments /\ cur' # None /\ cur'.id = id
          /\ UNCHANGED <<overrides, snap, archived>>
      BY <1>0, <1>2, ContentFacts DEF ProposeSave, ProcessInv, At, Command, Busy,
         ControllerSteps, ExperimentState, Procs
    <2>2. snap[id].base \in Promise!Trusted
      BY <1>0, <2>1 DEF FilesInv, CandidateNeverOrphaned, Accepted, TypeOK, Snapshot,
         Contents, Promise!Trusted
    <2>3. Promise!Open(id)
      BY <2>1, <2>2 DEF Promise!Open
    <2> QED BY <1>a, <2>1, <2>3
  <1>3. CASE EvaluateLoad \/ Offline \/ CheckDrift \/ Decide \/ RollbackLoad
    BY <1>3, <1>e DEF EvaluateLoad, Offline, CheckDrift, Decide, RollbackLoad
  \* A controller step past propose is about the active experiment.
  <1>f. ASSUME At("controller", "arm") \/ At("controller", "activate")
                 \/ At("controller", "started")
        PROVE  /\ cur # None /\ cur.id = proc["controller"].st.id
               /\ proc["controller"].st # None
    BY <1>0, <1>f, ContentFacts DEF ProcessInv, At, Holder, Busy, ControllerSteps, Command, Procs
  <1>4. CASE Arm \/ SaveCanary
    BY <1>4, <1>d, <1>f DEF Arm, SaveCanary
  <1>5. CASE Activate
    <2>1. cur # None /\ cur.id = proc["controller"].st.id /\ UNCHANGED <<cur, snap, archived>>
      BY <1>5, <1>f DEF Activate
    <2>2. CASE UNCHANGED overrides
      BY <2>1, <2>2, <1>e
    <2>3. CASE overrides' = cur.id
      <3>1. cur.id # None
        BY <1>0, <2>1 DEF TypeOK, ExperimentState
      <3> QED BY <2>1, <2>3, <3>1 DEF Promise!Start
    <2> QED BY <1>5, <2>1, <2>2, <2>3 DEF Activate
  <1>6. ASSUME NEW p \in Procs, RestoreBaseline(p)
        PROVE  [Promise!Next]_Promise!vars
    <2>1. /\ cur # None /\ cur.id = proc[p].st.id /\ cur.id \in Experiments
          /\ UNCHANGED <<cur, snap, archived>>
      <3>1. proc[p].st # None /\ proc[p].st.id \in Experiments
        BY <1>0, <1>6, ContentFacts DEF RestoreBaseline, At, Command, Busy, FinalizeSteps,
           ExperimentState
      <3> QED BY <1>0, <1>6, <3>1 DEF RestoreBaseline, ProcessInv, At, Holder, Busy,
              FinalizeSteps
    <2>2. CASE UNCHANGED overrides
      BY <2>1, <2>2, <1>e
    <2>3. CASE overrides' = snap[cur.id].base
      BY <1>0, <2>1, <2>3 DEF Promise!GoBack
    <2> QED BY <1>6, <2>1, <2>2, <2>3 DEF RestoreBaseline
  <1>7. ASSUME NEW p \in Procs, SaveTerminal(p) PROVE UNCHANGED Promise!vars
    <2>1. proc[p].st \in ExperimentState /\ proc[p].target \in Statuses
      BY <1>0, <1>7 DEF SaveTerminal, At, Command, Busy, FinalizeSteps, Process
    <2>2. cur # None /\ cur.id = proc[p].st.id
      BY <1>0, <1>7, <2>1, ContentFacts DEF SaveTerminal, ProcessInv, At, Holder, Busy,
         FinalizeSteps
    <2>3. cur' # None /\ cur'.id = proc[p].st.id /\ UNCHANGED <<overrides, snap, archived>>
      BY <1>7, <2>1, ContentFacts DEF SaveTerminal, ExperimentState
    <2> QED BY <1>d, <2>2, <2>3
  <1>8. ASSUME NEW p \in Procs, MoveState(p) PROVE Promise!Next
    <2>1. /\ cur # None /\ cur.id = proc[p].st.id /\ cur.id \in Experiments
          /\ cur.status \in TerminalStatuses
          /\ cur.status = "KEPT" \/ overrides # cur.id
      BY <1>8, AtMove DEF MoveState
    <2>2. /\ cur' = None /\ UNCHANGED overrides
          /\ archived' = [archived EXCEPT ![cur.id] = cur.status]
      BY <1>8, <2>1 DEF MoveState
    <2>3. Promise!Close(cur.status)
      BY <1>0, <2>1, <2>2 DEF Promise!Close
    <2> QED BY <1>b, <2>1, <2>3
  <1>9. ASSUME NEW p \in Procs, MoveFiles(p) PROVE UNCHANGED Promise!vars
    BY <1>0, <1>9 DEF MoveFiles, ProcessInv
  <1>10. CASE Cycle
    <2>1. UNCHANGED <<overrides, snap, archived>>
      BY <1>10 DEF Cycle, BeginCycle, Buy, Sell, EndCycle
    <2>2. CASE UNCHANGED cur
      BY <2>1, <2>2, <1>e
    <2>3. ASSUME Trading, Tracked
          PROVE  /\ cur # None /\ cur.id = proc["bot"].st.id
                 /\ proc["bot"].st \in ExperimentState
      BY <1>0, <2>3 DEF Trading, Tracked, ProcessInv, At, Holder, Command, Process, Procs
    <2>4. ASSUME Trading, Tracked, RecordSession
          PROVE  cur' = cur \/ (cur' # None /\ cur'.id = cur.id)
      <3> DEFINE st == [proc["bot"].st EXCEPT !.sessions = @ + 1]
      <3>1. CASE proc["bot"].st.sessions < TimeoutSessions /\ cur' = st
        <4>1. st \in ExperimentState /\ st.id = proc["bot"].st.id
          BY <2>3, <2>4, <3>1, ConstantsAssumption DEF ExperimentState
        <4> QED BY <2>3, <2>4, <3>1, <4>1, ContentFacts
      <3> QED BY <2>4, <3>1 DEF RecordSession
    <2>5. ASSUME Trading, Tracked, cur' = Measured(proc["bot"].st)
          PROVE  cur' # None /\ cur'.id = cur.id
      <3>1. /\ Measured(proc["bot"].st).id = proc["bot"].st.id
            /\ Measured(proc["bot"].st) \in ExperimentState
        BY <1>0, <2>3, <2>5, MeasuredFacts
      <3>2. cur' # None
        BY <2>5, <3>1, ContentFacts
      <3> QED BY <2>3, <2>5, <3>1, <3>2
    <2>6. CASE Buy \/ Sell
      <3>1. UNCHANGED cur \/ (Trading /\ Tracked /\ RecordSession)
        BY <2>6 DEF Buy, Sell, Invalidate
      <3> QED BY <1>d, <2>1, <2>2, <2>3, <2>4, <3>1
    <2>7. CASE EndCycle
      <3>1. UNCHANGED cur \/ (Trading /\ Tracked /\ cur' = Measured(proc["bot"].st))
        BY <2>7 DEF EndCycle, Invalidate
      <3> QED BY <1>d, <2>1, <2>2, <2>3, <2>5, <3>1
    <2>8. CASE BeginCycle
      BY <2>2, <2>8 DEF BeginCycle
    <2> QED BY <1>10, <2>6, <2>7, <2>8 DEF Cycle
  <1>11. ASSUME NEW p \in Procs, Crash(p) PROVE UNCHANGED Promise!vars
    BY <1>11, <1>e DEF Crash
  <1>12. ASSUME NEW bytes \in OperatorContents, EditOverrides(bytes) PROVE Promise!Next
    <2>1. Promise!Edit(bytes)
      BY <1>12 DEF EditOverrides, Promise!Edit
    <2> QED BY <1>c, <2>1
  <1>13. ASSUME NEW e \in Experiments, EditCandidate(e) PROVE UNCHANGED Promise!vars
    <2>1. /\ UNCHANGED <<overrides, cur, archived>>
          /\ \A d \in Experiments : snap'[d].base = snap[d].base
      BY <1>0, <1>13 DEF EditCandidate, TypeOK, Snapshot
    <2>2. cur # None => cur.id \in Experiments
      BY <1>0 DEF TypeOK, ExperimentState
    <2> QED BY <2>1, <2>2
  <1>14. CASE UNCHANGED vars
    BY <1>14, <1>e DEF vars
  <1> QED
    BY <1>1, <1>2, <1>3, <1>4, <1>5, <1>6, <1>7, <1>8, <1>9, <1>10, <1>11, <1>12, <1>13, <1>14
       DEF Next, Propose, Evaluate, FinalizeTerminal, Environment

(***************************************************************************)
(* The controller, its files, the trading cycles that hold a copy of the   *)
(* state, crashes and hand edits together implement ExperimentPromise.     *)
(***************************************************************************)
THEOREM ImplementsPromise ==
    ASSUME ~Overlap
    PROVE  Spec => KeepsPromise
  <1>1. IInv /\ IInv' /\ [Next]_vars => [Promise!Next]_Promise!vars
    BY PromiseStep
  <1> QED BY SafetyHolds, PromiseInit, <1>1, PTL DEF Spec, KeepsPromise, Promise!Spec

-----------------------------------------------------------------------------
(* Ledgers: what a fold over the rows comes to                             *)

\* Induction over the naturals, told by the least that is bad.
LEMMA LeastBad ==
    ASSUME NEW S, S \subseteq Nat, S # {}
    PROVE  \E m \in S : \A k \in S : m <= k
  <1>1. IsWellFoundedOn(OpToRel(<, Nat), Nat)
    BY NatLessThanWellFounded
  <1>2. PICK m \in S : \A k \in S : ~(<<k, m>> \in OpToRel(<, Nat))
    BY <1>1, WFMin
  <1>3. \A k \in S : ~(k < m)
    BY <1>2 DEF OpToRel
  <1> QED BY <1>3

\* The books after each line of a file.
Tells(g, lines, n) ==
    g = [k \in 0..n |-> IF k = 0 THEN EmptyBook ELSE Read(g[k - 1], lines[k])]

LEMMA BooksTold ==
    ASSUME NEW lines, NEW n \in Nat
    PROVE  \E g : Tells(g, lines, n)
  <1> DEFINE Bad == {m \in 0..n : ~\E g : Tells(g, lines, m)}
  <1> SUFFICES ASSUME Bad # {} PROVE FALSE
    OBVIOUS
  <1>1. PICK m \in Bad : \A k \in Bad : m <= k
    <2>1. Bad \subseteq Nat
      OBVIOUS
    <2> HIDE DEF Bad
    <2> QED BY <2>1, LeastBad
  <1>2. m \in 0..n /\ ~\E g : Tells(g, lines, m)
    OBVIOUS
  <1>3. CASE m = 0
    <2>1. PICK g : g = [k \in 0..0 |-> EmptyBook]
      OBVIOUS
    <2>2. Tells(g, lines, 0)
      BY <2>1 DEF Tells
    <2> QED BY <1>2, <1>3, <2>2
  <1>4. CASE m # 0
    <2>1. m - 1 \in 0..n /\ ~(m <= m - 1)
      BY <1>2, <1>4
    <2>2. PICK g : Tells(g, lines, m - 1)
      BY <1>1, <2>1
    <2>3. PICK h : h = [k \in 0..m |-> IF k = m THEN Read(g[m - 1], lines[m]) ELSE g[k]]
      OBVIOUS
    <2>4. ASSUME NEW k \in 0..m
          PROVE  h[k] = IF k = 0 THEN EmptyBook ELSE Read(h[k - 1], lines[k])
      <3>1. CASE k = m
        <4>1. m - 1 \in 0..m /\ m - 1 # m
          BY <1>2, <1>4
        <4>2. h[m - 1] = g[m - 1]
          BY <2>3, <4>1
        <4> QED BY <1>4, <2>3, <3>1, <4>2
      <3>2. CASE k # m
        <4>1. k \in 0..(m - 1) /\ (k # 0 => k - 1 \in 0..m /\ k - 1 # m)
          BY <1>2, <1>4, <3>2
        <4>2. h[k] = g[k] /\ (k # 0 => h[k - 1] = g[k - 1])
          BY <2>3, <3>2, <4>1
        <4>3. g[k] = IF k = 0 THEN EmptyBook ELSE Read(g[k - 1], lines[k])
          BY <2>2, <4>1 DEF Tells
        <4> QED BY <4>2, <4>3
      <3> QED BY <3>1, <3>2
    <2>5. Tells(h, lines, m)
      BY <2>3, <2>4 DEF Tells
    <2> QED BY <1>2, <2>5
  <1> QED BY <1>3, <1>4

LEMMA LoadTold ==
    ASSUME NEW lines, Len(lines) \in Nat
    PROVE  \E g : Tells(g, lines, Len(lines)) /\ Load(lines) = g[Len(lines)]
  <1>1. \E g : Tells(g, lines, Len(lines))
    BY BooksTold
  <1>2. PICK f : f = CHOOSE g : Tells(g, lines, Len(lines))
    OBVIOUS
  <1>3. Tells(f, lines, Len(lines))
    BY <1>1, <1>2
  <1>4. Load(lines) = f[Len(lines)]
    BY <1>2 DEF Load, Tells
  <1> QED BY <1>3, <1>4

LEMMA ToldAlike ==
    ASSUME NEW n \in Nat, NEW lines, NEW more, NEW g, NEW h,
           Tells(g, lines, n), Tells(h, more, n + 1), \A k \in 1..n : more[k] = lines[k]
    PROVE  h[n + 1] = Read(g[n], more[n + 1])
  <1> DEFINE Bad == {k \in 0..n : h[k] # g[k]}
  <1>1. ASSUME NEW k \in 0..n
        PROVE  /\ g[k] = IF k = 0 THEN EmptyBook ELSE Read(g[k - 1], lines[k])
               /\ h[k] = IF k = 0 THEN EmptyBook ELSE Read(h[k - 1], more[k])
    BY DEF Tells
  <1>2. Bad = {}
    <2> SUFFICES ASSUME Bad # {} PROVE FALSE
      OBVIOUS
    <2>1. PICK m \in Bad : \A k \in Bad : m <= k
      <3>1. Bad \subseteq Nat
        OBVIOUS
      <3> HIDE DEF Bad
      <3> QED BY <3>1, LeastBad
    <2>2. m # 0
      BY <1>1
    <2>3. m - 1 \in 0..n /\ ~(m <= m - 1) /\ m \in 1..n
      BY <2>2
    <2>4. h[m - 1] = g[m - 1] /\ more[m] = lines[m]
      BY <2>1, <2>3
    <2> QED BY <1>1, <2>2, <2>4
  <1>3. h[n] = g[n]
    BY <1>2
  <1>4. h[n + 1] = Read(h[n], more[n + 1])
    <2>1. n + 1 \in 0..(n + 1) /\ n + 1 # 0 /\ (n + 1) - 1 = n
      OBVIOUS
    <2> QED BY <2>1 DEF Tells
  <1> QED BY <1>3, <1>4

\* _load_state: a line more is read into what the lines before it came to.
LEMMA LoadAppend ==
    ASSUME NEW S, NEW lines \in Seq(S), NEW x \in S
    PROVE  Load(Append(lines, x)) = Read(Load(lines), x)
  <1>1. PICK n \in Nat : n = Len(lines)
    OBVIOUS
  <1>2. PICK more : more = Append(lines, x)
    OBVIOUS
  <1>3. Len(more) = n + 1 /\ more[n + 1] = x /\ \A k \in 1..n : more[k] = lines[k]
    BY <1>1, <1>2
  <1>4. PICK g : Tells(g, lines, n) /\ Load(lines) = g[n]
    BY <1>1, LoadTold
  <1>5. PICK h : Tells(h, more, n + 1) /\ Load(more) = h[n + 1]
    BY <1>3, LoadTold
  <1>6. h[n + 1] = Read(g[n], more[n + 1])
    BY <1>3, <1>4, <1>5, ToldAlike
  <1> QED BY <1>2, <1>3, <1>4, <1>5, <1>6

LEMMA LoadEmpty == Load(<<>>) = EmptyBook
  <1>1. PICK g : Tells(g, <<>>, 0) /\ Load(<<>>) = g[0]
    BY LoadTold
  <1> QED BY <1>1 DEF Tells

\* The ledgers after each row, recorded once and in order.
Records(g, rows, n) ==
    g = [k \in 0..n |-> IF k = 0 THEN NoBooks ELSE Recorded(g[k - 1], rows[k], k)]

LEMMA RecordsExist ==
    ASSUME NEW rows, NEW n \in Nat
    PROVE  \E g : Records(g, rows, n)
  <1> DEFINE Bad == {m \in 0..n : ~\E g : Records(g, rows, m)}
  <1> SUFFICES ASSUME Bad # {} PROVE FALSE
    OBVIOUS
  <1>1. PICK m \in Bad : \A k \in Bad : m <= k
    <2>1. Bad \subseteq Nat
      OBVIOUS
    <2> HIDE DEF Bad
    <2> QED BY <2>1, LeastBad
  <1>2. m \in 0..n /\ ~\E g : Records(g, rows, m)
    OBVIOUS
  <1>3. CASE m = 0
    <2>1. PICK g : g = [k \in 0..0 |-> NoBooks]
      OBVIOUS
    <2>2. Records(g, rows, 0)
      BY <2>1 DEF Records
    <2> QED BY <1>2, <1>3, <2>2
  <1>4. CASE m # 0
    <2>1. m - 1 \in 0..n /\ ~(m <= m - 1)
      BY <1>2, <1>4
    <2>2. PICK g : Records(g, rows, m - 1)
      BY <1>1, <2>1
    <2>3. PICK h : h = [k \in 0..m |-> IF k = m THEN Recorded(g[m - 1], rows[m], m) ELSE g[k]]
      OBVIOUS
    <2>4. ASSUME NEW k \in 0..m
          PROVE  h[k] = IF k = 0 THEN NoBooks ELSE Recorded(h[k - 1], rows[k], k)
      <3>1. CASE k = m
        <4>1. m - 1 \in 0..m /\ m - 1 # m
          BY <1>2, <1>4
        <4>2. h[m - 1] = g[m - 1]
          BY <2>3, <4>1
        <4> QED BY <1>4, <2>3, <3>1, <4>2
      <3>2. CASE k # m
        <4>1. k \in 0..(m - 1) /\ (k # 0 => k - 1 \in 0..m /\ k - 1 # m)
          BY <1>2, <1>4, <3>2
        <4>2. h[k] = g[k] /\ (k # 0 => h[k - 1] = g[k - 1])
          BY <2>3, <3>2, <4>1
        <4>3. g[k] = IF k = 0 THEN NoBooks ELSE Recorded(g[k - 1], rows[k], k)
          BY <2>2, <4>1 DEF Records
        <4> QED BY <4>2, <4>3
      <3> QED BY <3>1, <3>2
    <2>5. Records(h, rows, m)
      BY <2>3, <2>4 DEF Records
    <2> QED BY <1>2, <2>5
  <1> QED BY <1>3, <1>4

LEMMA IdealFacts ==
    ASSUME NEW rows, NEW n \in Nat, n = Len(rows)
    PROVE  /\ Ideal(rows)[0] = NoBooks
           /\ \A k \in 1..n : Ideal(rows)[k] = Recorded(Ideal(rows)[k - 1], rows[k], k)
  <1>1. \E g : Records(g, rows, n)
    BY RecordsExist
  <1>2. PICK f : f = CHOOSE g : Records(g, rows, n)
    OBVIOUS
  <1>3. Records(f, rows, n)
    BY <1>1, <1>2
  <1>4. Ideal(rows) = f
    BY <1>2 DEF Ideal, Records
  <1>5. f[0] = NoBooks
    BY <1>3 DEF Records
  <1>6. ASSUME NEW k \in 1..n PROVE f[k] = Recorded(f[k - 1], rows[k], k)
    <2>1. k \in 0..n /\ k # 0
      OBVIOUS
    <2> QED BY <1>3, <2>1 DEF Records
  <1> QED BY <1>4, <1>5, <1>6

\* A new row leaves what the rows before it came to.
LEMMA IdealAppend ==
    ASSUME NEW S, NEW rows \in Seq(S), NEW r \in S, NEW k \in 0..Len(rows)
    PROVE  Ideal(Append(rows, r))[k] = Ideal(rows)[k]
  <1>1. PICK n \in Nat : n = Len(rows)
    OBVIOUS
  <1>2. PICK more : more = Append(rows, r)
    OBVIOUS
  <1>3. Len(more) = n + 1 /\ \A j \in 1..n : more[j] = rows[j]
    BY <1>1, <1>2
  <1>4. /\ Ideal(rows)[0] = NoBooks
        /\ \A j \in 1..n : Ideal(rows)[j] = Recorded(Ideal(rows)[j - 1], rows[j], j)
    BY <1>1, IdealFacts
  <1>5. /\ Ideal(more)[0] = NoBooks
        /\ \A j \in 1..(n + 1) : Ideal(more)[j] = Recorded(Ideal(more)[j - 1], more[j], j)
    BY <1>3, IdealFacts
  <1> DEFINE Bad == {j \in 0..n : Ideal(more)[j] # Ideal(rows)[j]}
  <1>6. Bad = {}
    <2> SUFFICES ASSUME Bad # {} PROVE FALSE
      OBVIOUS
    <2>1. PICK m \in Bad : \A j \in Bad : m <= j
      <3>1. Bad \subseteq Nat
        OBVIOUS
      <3> HIDE DEF Bad
      <3> QED BY <3>1, LeastBad
    <2>2. m \in 1..n
      BY <1>4, <1>5
    <2>3. m - 1 \in 0..n /\ ~(m <= m - 1) /\ m \in 1..(n + 1)
      BY <2>2
    <2>4. Ideal(more)[m - 1] = Ideal(rows)[m - 1]
      BY <2>1, <2>3
    <2> QED BY <1>3, <1>4, <1>5, <2>2, <2>3, <2>4
  <1> QED BY <1>1, <1>2, <1>6

-----------------------------------------------------------------------------
(* Ledgers: rounding                                                       *)

LEMMA DivisionFacts ==
    ASSUME NEW n \in Nat, NEW d \in Nat \ {0}
    PROVE  \E q, r \in Nat : /\ q = n \div d /\ r = n % d
                             /\ n = d * q + r /\ r < d
  <1>1. n \div d \in Int /\ n % d \in Int
    OBVIOUS
  <1>2. PICK q, r \in Int : q = n \div d /\ r = n % d
    BY <1>1
  <1>3. n = (d * (n \div d)) + (n % d)
    OBVIOUS
  <1>4. 0 <= n % d /\ n % d < d
    OBVIOUS
  <1>5. n = d * q + r
    BY <1>2, <1>3
  <1>6. 0 <= r /\ r < d
    BY <1>2, <1>4
  <1>7. 0 <= q
    <2> SUFFICES ASSUME q <= -1 PROVE FALSE
      OBVIOUS
    <2>1. PICK p \in Nat : p = (-1) - q
      OBVIOUS
    <2>2. d * q = (-d) - (d * p)
      BY <2>1
    <2>3. PICK x \in Nat : x = d * p
      BY <2>1
    <2>4. PICK y \in Int : y = d * q
      OBVIOUS
    <2>5. n = y + r /\ y = (-d) - x
      BY <1>5, <2>2, <2>3, <2>4
    <2> QED BY <1>6, <2>3, <2>5
  <1>8. q \in Nat /\ r \in Nat
    BY <1>6, <1>7
  <1> QED BY ZenonT(20), <1>2, <1>5, <1>6, <1>8

LEMMA RoundType ==
    ASSUME NEW n \in Nat, NEW d \in Nat \ {0}
    PROVE  Round(n, d) \in Nat
  <1>1. PICK q, r \in Nat : q = n \div d /\ r = n % d
    BY DivisionFacts
  <1>2. Round(n, d) \in {q, q + 1}
    BY <1>1 DEF Round
  <1> QED BY <1>2

\* record_exit: the baseline sells at least as many shares as the candidate, and keeps
\* at least as many.
LEMMA RoundFacts ==
    ASSUME NEW b \in Nat, NEW c \in Nat, NEW k \in Nat, 1 <= k, k <= c, c <= b
    PROVE  /\ Round(b * k, c) \in Nat
           /\ k <= Round(b * k, c)
           /\ Round(b * k, c) <= b - (c - k)
           /\ k = c => Round(b * k, c) = b
  <1>1. PICK n \in Nat : n = b * k
    OBVIOUS
  <1>2. c \in Nat \ {0}
    OBVIOUS
  <1>3. PICK q, r \in Nat : q = n \div c /\ r = n % c /\ n = c * q + r /\ r < c
    BY <1>2, DivisionFacts
  <1>4. Round(n, c) \in {q, q + 1} /\ (2 * r < c => Round(n, c) = q)
    BY <1>3 DEF Round
  <1>5. k <= q
    <2> SUFFICES ASSUME q + 1 <= k PROVE FALSE
      BY <1>3
    <2>1. c * (q + 1) <= c * k
      BY <1>3
    <2>2. c * k <= b * k
      OBVIOUS
    <2>3. c * (q + 1) = c * q + c
      BY <1>3
    <2>4. PICK x, y \in Nat : x = c * q /\ y = c * k
      BY <1>3
    <2> QED BY <1>1, <1>3, <2>1, <2>2, <2>3, <2>4
  <1>6. PICK u \in Nat : u = b - (c - k)
    OBVIOUS
  <1>7. n <= c * u
    <2>1. PICK x \in Nat, y \in Nat : x = b - c /\ y = c - k
      OBVIOUS
    <2>2. b * k = x * k + c * k
      BY <2>1
    <2>3. c * u = c * x + c * k
      BY <1>6, <2>1
    <2>4. x * k <= x * c
      BY <2>1
    <2>5. x * c = c * x /\ x * k \in Nat /\ c * k \in Nat /\ x * c \in Nat
      BY <2>1
    <2> QED BY <1>1, <2>2, <2>3, <2>4, <2>5
  <1>8. q <= u
    <2> SUFFICES ASSUME u + 1 <= q PROVE FALSE
      BY <1>3, <1>6
    <2>1. c * (u + 1) <= c * q
      BY <1>3, <1>6
    <2>2. c * (u + 1) = c * u + c
      BY <1>6
    <2>3. PICK x, y \in Nat : x = c * q /\ y = c * u
      BY <1>3, <1>6
    <2> QED BY <1>2, <1>3, <1>7, <2>1, <2>2, <2>3
  <1>9. q = u => r = 0
    <2>1. PICK x \in Nat : x = c * q
      BY <1>3
    <2> QED BY <1>3, <1>7, <2>1
  <1>10. Round(n, c) <= u
    BY <1>2, <1>3, <1>4, <1>6, <1>8, <1>9
  <1>11. k = c => b <= q
    <2> SUFFICES ASSUME k = c, q + 1 <= b PROVE FALSE
      BY <1>3
    <2>1. c * (q + 1) <= c * b
      BY <1>3
    <2>2. c * (q + 1) = c * q + c /\ c * b = b * c
      BY <1>3
    <2>3. PICK x, y \in Nat : x = c * q /\ y = b * c
      BY <1>3
    <2>4. y = n /\ n = x + r
      BY <1>1, <1>3, <2>3
    <2>5. x + c <= y
      BY <2>1, <2>2, <2>3
    <2> QED BY <1>3, <2>3, <2>4, <2>5
  <1>12. PICK z \in Nat : z = Round(n, c) /\ z \in {q, q + 1}
    BY <1>3, <1>4
  <1>13. k <= z /\ z <= b - (c - k) /\ (k = c => z = b)
    BY <1>3, <1>5, <1>6, <1>10, <1>11, <1>12
  <1> QED BY <1>1, <1>12, <1>13

-----------------------------------------------------------------------------
(* Ledgers: what their ids account for                                     *)

LEMMA Bounds == /\ MaxQuantity \in Nat /\ MaxOrders \in Nat /\ MaxDeaths \in Nat
                /\ MaxTears \in Nat /\ MaxFailures \in Nat
  BY ShadowAssumption

\* No ledger holds, counts or completes more than its ids account for.
Accountable(b) ==
    /\ b \in [held : [Tickers -> Nat], closed : Nat, completed : Nat, ids : SUBSET Ids]
    /\ \A t \in Tickers : b.held[t] <= MaxQuantity * Cardinality(b.ids)
    /\ b.closed <= Cardinality(b.ids) /\ b.completed <= Cardinality(b.ids)

\* A line that _append_line may have written.
Line(line) ==
    \/ line = Garbled
    \/ line \in Fill /\ (line.side = "BUY" => line.quantity <= MaxQuantity)

LEMMA IdsFinite ==
    ASSUME NEW ids \in SUBSET Ids
    PROVE  IsFiniteSet(ids) /\ Cardinality(ids) \in Nat /\ Cardinality(ids) <= MaxOrders
  <1>1. IsFiniteSet(1..MaxOrders) /\ Cardinality(1..MaxOrders) = MaxOrders
    <2>1. 1 <= MaxOrders => MaxOrders - 1 + 1 = MaxOrders
      BY Bounds
    <2>2. 1 \in Int /\ MaxOrders \in Int
      BY Bounds
    <2>3. IsFiniteSet(1..MaxOrders)
          /\ Cardinality(1..MaxOrders) = IF 1 > MaxOrders THEN 0 ELSE MaxOrders - 1 + 1
      BY <2>2, FS_Interval
    <2> QED BY <2>1, <2>3, Bounds
  <1>2. IsFiniteSet(ids) /\ Cardinality(ids) <= Cardinality(1..MaxOrders)
    BY <1>1, FS_Subset DEF Ids
  <1>3. Cardinality(ids) \in Nat
    BY <1>2, FS_CardinalityType
  <1> QED BY <1>1, <1>2, <1>3

LEMMA AccountableIsBook ==
    ASSUME NEW b, Accountable(b)
    PROVE  b \in Book
  <1>1. PICK n \in Nat : n = Cardinality(b.ids) /\ n <= MaxOrders
    BY IdsFinite DEF Accountable
  <1>2. PICK most \in Nat : most = MaxQuantity * MaxOrders
    BY Bounds
  <1>3. MaxQuantity * n <= MaxQuantity * MaxOrders
    BY <1>1, Bounds
  <1>4. PICK some \in Nat : some = MaxQuantity * n
    BY <1>1, Bounds
  <1>5. some <= most
    BY <1>2, <1>3, <1>4
  <1>6. b.held \in [Tickers -> Nat] /\ \A t \in Tickers : b.held[t] <= some
    BY <1>1, <1>4 DEF Accountable
  <1>7. ASSUME NEW t \in Tickers PROVE b.held[t] \in 0..most
    <2>1. PICK h \in Nat : h = b.held[t] /\ h <= some
      BY <1>6
    <2>2. h <= most
      BY <1>5, <2>1
    <2> QED BY <2>1, <2>2
  <1>8. b.held \in [Tickers -> Held]
    BY <1>2, <1>6, <1>7 DEF Held
  <1>9. b.closed \in 0..MaxOrders /\ b.completed \in 0..MaxOrders
    BY <1>1, Bounds DEF Accountable
  <1> QED BY <1>8, <1>9 DEF Accountable, Book

LEMMA EmptyAccountable == Accountable(EmptyBook)
  <1>1. Cardinality({}) = 0
    BY FS_EmptySet
  <1>2. \A t \in Tickers : EmptyBook.held[t] = 0
    BY DEF EmptyBook
  <1>3. MaxQuantity * 0 = 0
    BY Bounds
  <1> QED BY <1>1, <1>2, <1>3 DEF Accountable, EmptyBook

\* record and _record_in_memory.
LEMMA ApplyAccountable ==
    ASSUME NEW b, Accountable(b), NEW fill \in Fill,
           fill.side = "BUY" => fill.quantity <= MaxQuantity
    PROVE  Accountable(Apply(b, fill))
  <1> DEFINE held == b.held[fill.ticker]
             sold == Least(fill.quantity, held)
  <1>1. CASE Applied(b, fill)
    BY <1>1 DEF Apply
  <1>2. CASE ~Applied(b, fill)
    <2>1. /\ b \in [held : [Tickers -> Nat], closed : Nat, completed : Nat, ids : SUBSET Ids]
          /\ fill.id \in Ids /\ fill.id \notin b.ids /\ fill.ticker \in Tickers
          /\ fill.quantity \in Nat /\ held \in Nat
      BY <1>2 DEF Accountable, Applied, Fill
    <2>2. PICK n \in Nat : n = Cardinality(b.ids)
      BY <2>1, IdsFinite
    <2>3. Cardinality(b.ids \cup {fill.id}) = n + 1
      BY <2>1, <2>2, IdsFinite, FS_AddElement
    <2>4. MaxQuantity * (n + 1) = (MaxQuantity * n) + MaxQuantity
      BY Bounds
    <2>5. PICK m \in Nat : m = MaxQuantity * n
      BY Bounds
    <2>6. \A t \in Tickers : b.held[t] \in Nat /\ b.held[t] <= m
      BY <2>1, <2>2, <2>5 DEF Accountable
    <2>7. b.closed <= n /\ b.completed <= n
      BY <2>2 DEF Accountable
    <2>8. CASE fill.side = "BUY"
      <3>1. PICK c : c = [b EXCEPT !.ids = @ \cup {fill.id},
                                   !.held[fill.ticker] = @ + fill.quantity]
        OBVIOUS
      <3>2. Apply(b, fill) = c
        BY <1>2, <2>8, <3>1 DEF Apply
      <3>3. /\ c.held = [b.held EXCEPT ![fill.ticker] = @ + fill.quantity]
            /\ c.closed = b.closed /\ c.completed = b.completed
            /\ c.ids = b.ids \cup {fill.id}
        BY <2>1, <3>1
      <3>4. c \in [held : [Tickers -> Nat], closed : Nat, completed : Nat, ids : SUBSET Ids]
        <4>1. PICK h : h = [b.held EXCEPT ![fill.ticker] = @ + fill.quantity]
          OBVIOUS
        <4>2. h \in [Tickers -> Nat]
          BY <2>1, <4>1
        <4>3. c = [b EXCEPT !.ids = b.ids \cup {fill.id}, !.held = h]
          BY <2>1, <3>1, <4>1
        <4> QED BY <2>1, <4>2, <4>3
      <3>5. ASSUME NEW t \in Tickers PROVE c.held[t] <= m + MaxQuantity
        <4>1. c.held[t] = IF t = fill.ticker THEN b.held[t] + fill.quantity ELSE b.held[t]
          BY <2>1, <3>3
        <4>2. b.held[t] \in Nat /\ b.held[t] <= m /\ fill.quantity \in Nat
              /\ fill.quantity <= MaxQuantity
          BY <2>1, <2>6, <2>8
        <4> QED BY <4>1, <4>2, Bounds
      <3>6. Cardinality(c.ids) = n + 1 /\ MaxQuantity * Cardinality(c.ids) = m + MaxQuantity
        BY <2>3, <2>4, <2>5, <3>3
      <3>7. c.closed <= n + 1 /\ c.completed <= n + 1
        BY <2>1, <2>7, <3>3
      <3> QED BY <3>2, <3>4, <3>5, <3>6, <3>7 DEF Accountable
    <2>9. CASE fill.side # "BUY"
      <3>1. PICK s \in Nat : s = sold /\ s <= held
        BY <2>1 DEF Least
      <3>2. PICK x \in 0..1, y \in 0..1 : x = (IF s > 0 THEN 1 ELSE 0)
                                         /\ y = (IF held > 0 /\ s = held THEN 1 ELSE 0)
        OBVIOUS
      <3>3. PICK c : c = [held      |-> [b.held EXCEPT ![fill.ticker] = @ - s],
                          closed    |-> b.closed + x,
                          completed |-> b.completed + y,
                          ids       |-> b.ids \cup {fill.id}]
        OBVIOUS
      <3>4. Apply(b, fill) = c
        BY <1>2, <2>9, <3>1, <3>2, <3>3 DEF Apply
      <3>5. /\ c.held = [b.held EXCEPT ![fill.ticker] = @ - s]
            /\ c.closed = b.closed + x /\ c.completed = b.completed + y
            /\ c.ids = b.ids \cup {fill.id}
        BY <3>3
      <3>6. c.held \in [Tickers -> Nat] /\ \A t \in Tickers : c.held[t] <= b.held[t]
        BY <2>1, <3>1, <3>5
      <3>7. c \in [held : [Tickers -> Nat], closed : Nat, completed : Nat, ids : SUBSET Ids]
        BY <2>1, <3>2, <3>3, <3>5, <3>6
      <3>8. \A t \in Tickers : c.held[t] <= m + MaxQuantity
        <4>1. ASSUME NEW t \in Tickers PROVE c.held[t] <= m + MaxQuantity
          <5>1. /\ c.held[t] \in Nat /\ b.held[t] \in Nat
                /\ c.held[t] <= b.held[t] /\ b.held[t] <= m
            BY <2>6, <3>6
          <5> QED BY <5>1, Bounds
        <4> QED BY <4>1
      <3>9. Cardinality(c.ids) = n + 1 /\ MaxQuantity * Cardinality(c.ids) = m + MaxQuantity
        BY <2>3, <2>4, <2>5, <3>5
      <3>10. c.closed <= n + 1 /\ c.completed <= n + 1
        BY <2>1, <2>7, <3>2, <3>5
      <3> QED BY <3>4, <3>7, <3>8, <3>9, <3>10 DEF Accountable
    <2> QED BY <2>8, <2>9
  <1> QED BY <1>1, <1>2

LEMMA ReadAccountable ==
    ASSUME NEW b, Accountable(b), NEW line, Line(line)
    PROVE  Accountable(Read(b, line))
  BY ApplyAccountable DEF Read, Line

\* _load_state.
LEMMA LoadAccountable ==
    ASSUME NEW S, NEW lines \in Seq(S), \A i \in 1..Len(lines) : Line(lines[i])
    PROVE  Accountable(Load(lines))
  <1>1. PICK n \in Nat : n = Len(lines)
    OBVIOUS
  <1>2. PICK g : Tells(g, lines, n) /\ Load(lines) = g[n]
    BY <1>1, LoadTold
  <1>3. ASSUME NEW k \in 0..n
        PROVE  g[k] = IF k = 0 THEN EmptyBook ELSE Read(g[k - 1], lines[k])
    BY <1>2 DEF Tells
  <1> DEFINE Bad == {k \in 0..n : ~Accountable(g[k])}
  <1> SUFFICES Bad = {}
    BY <1>1, <1>2
  <1> SUFFICES ASSUME Bad # {} PROVE FALSE
    OBVIOUS
  <1>4. PICK m \in Bad : \A k \in Bad : m <= k
    <2>1. Bad \subseteq Nat
      OBVIOUS
    <2> HIDE DEF Bad
    <2> QED BY <2>1, LeastBad
  <1>5. m # 0
    BY <1>3, EmptyAccountable
  <1>6. m - 1 \in 0..n /\ ~(m <= m - 1) /\ m \in 1..n
    BY <1>5
  <1>7. Accountable(g[m - 1])
    BY <1>4, <1>6
  <1>8. Accountable(Read(g[m - 1], lines[m]))
    BY <1>1, <1>6, <1>7, ReadAccountable
  <1> QED BY <1>3, <1>5, <1>8

-----------------------------------------------------------------------------
(* Types                                                                   *)

Rows == Len(orders)

\* A row of record_entry is no smaller for the baseline; one of record_exit has no
\* size for it.
Proper(r) ==
    IF r.side = "BUY" THEN r.candidate <= r.baseline ELSE r.baseline = 0

OrdersSound ==
    /\ orders \in Seq(Row) /\ Rows <= MaxOrders
    /\ \A k \in 1..Rows : Proper(orders[k])

FilesSound ==
    /\ file \in [Ledgers -> Seq(Fill \cup {Garbled})]
    /\ \A l \in Ledgers : \A i \in 1..Len(file[l]) : Line(file[l][i])
    /\ torn \in [Ledgers -> BOOLEAN]

BooksSound ==
    book \in [Ledgers -> Book] /\ \A l \in Ledgers : Accountable(book[l])

RestSound ==
    /\ account \in [Tickers -> 0..MaxQuantity]
    /\ pc \in {"idle", "trading", "save"} \cup Recording
    /\ row \in 1..MaxOrders + 1
    /\ snapshot \in [trades : 0..MaxOrders, diverged : BOOLEAN]
    /\ deaths \in 0..MaxDeaths /\ tears \in 0..MaxTears /\ failures \in 0..MaxFailures

\* Which row the cycle is at, and that the saved portfolio can take the fill under way.
AtRow ==
    /\ pc \in Recording \cup {"save"} => row \in 1..Rows
    /\ pc \in {"baseline", "candidate", "save"} =>
          /\ row = Rows
          /\ IF orders[row].side = "BUY" THEN account[orders[row].ticker] = 0
             ELSE orders[row].candidate <= account[orders[row].ticker]

ShadowBase == OrdersSound /\ FilesSound /\ BooksSound /\ RestSound /\ AtRow

LEMMA EmptyBooksSound ==
    NoBooks \in [Ledgers -> Book] /\ \A l \in Ledgers : Accountable(NoBooks[l])
  BY EmptyAccountable, AccountableIsBook DEF NoBooks

LEMMA HarnessSound ==
    ASSUME ShadowBase
    PROVE  Harness \in [Ledgers -> Book] /\ \A l \in Ledgers : Accountable(Harness[l])
  <1>1. ASSUME NEW l \in Ledgers PROVE Accountable(Load(file[l]))
    <2>1. file[l] \in Seq(Fill \cup {Garbled}) /\ \A i \in 1..Len(file[l]) : Line(file[l][i])
      BY DEF ShadowBase, FilesSound
    <2>2. PICK lines : lines = file[l]
      OBVIOUS
    <2> QED BY <2>1, <2>2, LoadAccountable
  <1>2. \A l \in Ledgers : Load(file[l]) \in Book
    BY <1>1, AccountableIsBook
  <1> QED BY <1>1, <1>2 DEF Harness

LEMMA QuantityFacts ==
    ASSUME NEW books, \A l \in Ledgers : Accountable(books[l]), NEW r \in Row, NEW l \in Ledgers
    PROVE  /\ QuantityOf(l, books, r) \in Nat
           /\ r.side = "BUY" => QuantityOf(l, books, r) <= MaxQuantity
  <1>1. r.candidate \in Nat /\ r.candidate <= MaxQuantity /\ r.baseline \in 0..MaxQuantity
        /\ r.ticker \in Tickers
    BY Bounds DEF Row, Quantities
  <1>2. CASE l = "baseline" /\ r.side = "BUY"
    BY <1>1, <1>2, Bounds DEF QuantityOf, BaselineQuantity
  <1>3. CASE l = "baseline" /\ r.side # "BUY"
    <2>1. PICK b \in Nat, c \in Nat : b = books["baseline"].held[r.ticker]
                                      /\ c = books["candidate"].held[r.ticker]
      BY <1>1 DEF Accountable, Ledgers
    <2>2. BaselineQuantity(books, r) = IF c = 0 THEN 0 ELSE Round(b * r.candidate, c)
      BY <1>3, <2>1 DEF BaselineQuantity
    <2>3. PICK n \in Nat : n = b * r.candidate
      BY <1>1
    <2>4. c # 0 => Round(n, c) \in Nat
      BY RoundType
    <2> QED BY <1>3, <2>2, <2>3, <2>4 DEF QuantityOf
  <1>4. CASE l # "baseline"
    BY <1>1, <1>4 DEF QuantityOf
  <1> QED BY <1>2, <1>3, <1>4

LEMMA PendingFacts ==
    ASSUME ShadowBase, NEW l \in Ledgers, Writing(l)
    PROVE  /\ row \in 1..Rows /\ orders[row] \in Row
           /\ Pending(l) \in Fill /\ Line(Pending(l))
           /\ Pending(l).side = "BUY" => Pending(l).quantity <= MaxQuantity
  <1>1. row \in 1..Rows /\ Rows \in Nat /\ Rows <= MaxOrders
    <2>1. pc \in Recording
      BY DEF Writing, Recording
    <2>2. row \in 1..Rows
      BY <2>1 DEF ShadowBase, AtRow
    <2>3. Rows \in Nat /\ Rows <= MaxOrders
      BY DEF ShadowBase, OrdersSound, Rows
    <2> QED BY <2>2, <2>3
  <1>2. PICK r \in Row : r = orders[row]
    BY <1>1 DEF ShadowBase, OrdersSound, Rows
  <1>3. \A m \in Ledgers : Accountable(book[m])
    BY DEF ShadowBase, BooksSound
  <1>4. PICK q \in Nat : q = QuantityOf(l, book, r) /\ (r.side = "BUY" => q <= MaxQuantity)
    BY <1>3, QuantityFacts
  <1>5. Pending(l) = [id |-> row, side |-> r.side, ticker |-> r.ticker, quantity |-> q]
    BY <1>2, <1>4 DEF Pending, FillOf
  <1>6. row \in Ids
    BY <1>1, Bounds DEF Ids
  <1> QED BY <1>1, <1>2, <1>4, <1>5, <1>6 DEF Fill, Row, Line

\* ShadowLedger.record
LEMMA RecordSound ==
    ASSUME ShadowBase, NEW l \in Ledgers, NEW fill \in Fill, Line(fill),
           fill.side = "BUY" => fill.quantity <= MaxQuantity, Record(l, fill)
    PROVE  BooksSound' /\ FilesSound'
  <1>1. CASE Applied(book[l], fill)
    BY <1>1 DEF Record, ShadowBase, BooksSound, FilesSound
  <1>2. CASE ~Applied(book[l], fill)
    <2>1. book' = [book EXCEPT ![l] = Apply(@, fill)] /\ WithLine(l, fill)
      BY <1>2 DEF Record
    <2>2. Accountable(book[l])
      BY DEF ShadowBase, BooksSound
    <2>3. PICK b : b = Apply(book[l], fill)
      OBVIOUS
    <2>4. Accountable(b) /\ b \in Book
      BY <2>2, <2>3, ApplyAccountable, AccountableIsBook
    <2>5. BooksSound'
      BY <2>1, <2>3, <2>4 DEF ShadowBase, BooksSound
    <2>6. FilesSound'
      BY <2>1 DEF ShadowBase, FilesSound, WithLine
    <2> QED BY <2>5, <2>6
  <1> QED BY <1>1, <1>2

LEMMA CommitSound ==
    ASSUME ShadowBase, NEW r \in Row, Proper(r), Commit(r),
           IF r.side = "BUY" THEN account[r.ticker] = 0 ELSE r.candidate <= account[r.ticker]
    PROVE  ShadowBase'
  <1>1. PICK n \in Nat : n = Len(orders) /\ n < MaxOrders
    BY DEF ShadowBase, OrdersSound, Rows, Commit
  <1>2. PICK more : more = Append(orders, r)
    OBVIOUS
  <1>3. more \in Seq(Row) /\ Len(more) = n + 1 /\ more[n + 1] = r
        /\ \A k \in 1..n : more[k] = orders[k]
    BY <1>1, <1>2 DEF ShadowBase, OrdersSound
  <1>4. orders' = more /\ row' = n + 1 /\ pc' = "baseline" /\ account' = account
    BY <1>1, <1>2 DEF Commit
  <1>5. \A k \in 1..(n + 1) : Proper(more[k])
    BY <1>1, <1>3 DEF ShadowBase, OrdersSound, Rows
  <1>6. OrdersSound'
    BY <1>1, <1>3, <1>4, <1>5, Bounds DEF OrdersSound, Rows
  <1>7. FilesSound' /\ BooksSound'
    BY DEF ShadowBase, FilesSound, BooksSound, Commit
  <1>8. RestSound'
    BY <1>1, <1>4, Bounds DEF ShadowBase, RestSound, Commit, faults, Recording
  <1>9. AtRow'
    BY <1>3, <1>4 DEF AtRow, Rows
  <1> QED BY <1>6, <1>7, <1>8, <1>9 DEF ShadowBase

LEMMA DiedSound ==
    ASSUME ShadowBase, Died, FilesSound', tears' \in 0..MaxTears, deaths' \in 0..MaxDeaths
    PROVE  ShadowBase'
  <1>1. OrdersSound'
    BY DEF ShadowBase, OrdersSound, Rows, Died
  <1>2. BooksSound'
    BY EmptyBooksSound DEF BooksSound, Died
  <1>3. RestSound'
    BY Bounds DEF ShadowBase, RestSound, Died
  <1>4. AtRow'
    BY DEF AtRow, Died, Recording
  <1> QED BY <1>1, <1>2, <1>3, <1>4 DEF ShadowBase

LEMMA ShadowBaseInit == ShadowInit => ShadowBase
  <1> SUFFICES ASSUME ShadowInit PROVE ShadowBase
    OBVIOUS
  <1>1. OrdersSound
    BY Bounds DEF ShadowInit, OrdersSound, Rows
  <1>2. FilesSound
    BY DEF ShadowInit, FilesSound
  <1>3. BooksSound
    BY EmptyBooksSound DEF ShadowInit, BooksSound
  <1>4. RestSound
    BY Bounds DEF ShadowInit, RestSound
  <1>5. AtRow
    BY DEF ShadowInit, AtRow, Recording
  <1> QED BY <1>1, <1>2, <1>3, <1>4, <1>5 DEF ShadowBase

LEMMA ShadowBaseStep == ShadowBase /\ [ShadowNext]_shadowVars => ShadowBase'
  <1> SUFFICES ASSUME ShadowBase, [ShadowNext]_shadowVars PROVE ShadowBase'
    OBVIOUS
  <1>0. OrdersSound /\ FilesSound /\ BooksSound /\ RestSound /\ AtRow
    BY DEF ShadowBase
  <1>1. CASE Begin
    <2>1. OrdersSound' /\ FilesSound'
      BY <1>0, <1>1 DEF OrdersSound, FilesSound, Rows, Begin
    <2>2. BooksSound'
      BY <1>1, HarnessSound DEF BooksSound, Begin
    <2>3. RestSound'
      <3>1. row' = 1 /\ pc' \in {"trading", "replay baseline"}
        BY <1>1 DEF Begin
      <3>2. UNCHANGED <<account, snapshot, deaths, tears, failures>>
        BY <1>1 DEF Begin, faults
      <3>3. 1 \in 1..MaxOrders + 1
        BY Bounds
      <3> QED BY <1>0, <3>1, <3>2, <3>3 DEF RestSound, Recording
    <2>4. AtRow'
      <3>1. row' = 1 /\ orders' = orders /\ (orders # <<>> => 1 \in 1..Len(orders))
        <4>1. orders \in Seq(Row) /\ Len(orders) \in Nat
          BY <1>0 DEF OrdersSound
        <4>2. orders # <<>> => Len(orders) # 0
          BY <4>1, EmptySeq
        <4>3. row' = 1 /\ orders' = orders
          BY <1>1 DEF Begin
        <4> QED BY <4>1, <4>2, <4>3
      <3>2. pc' = IF orders = <<>> THEN "trading" ELSE "replay baseline"
        BY <1>1 DEF Begin
      <3> QED BY <3>1, <3>2 DEF AtRow, Rows, Recording
    <2> QED BY <2>1, <2>2, <2>3, <2>4 DEF ShadowBase
  <1>2. CASE RecordBaseline
    <2>1. PICK fill : fill = Pending("baseline")
      OBVIOUS
    <2>2. Writing("baseline") /\ Record("baseline", fill) /\ "baseline" \in Ledgers
      BY <1>2, <2>1 DEF RecordBaseline, Ledgers
    <2>3. BooksSound' /\ FilesSound'
      BY <2>1, <2>2, PendingFacts, RecordSound
    <2>4. OrdersSound' /\ RestSound'
      BY <1>0, <1>2 DEF OrdersSound, Rows, RestSound, RecordBaseline, faults, Recording
    <2>5. AtRow'
      BY <1>0, <1>2 DEF AtRow, Rows, RecordBaseline, Recording, Writing
    <2> QED BY <2>3, <2>4, <2>5 DEF ShadowBase
  <1>3. CASE RecordCandidate
    <2>1. PICK fill : fill = Pending("candidate")
      OBVIOUS
    <2>2. Writing("candidate") /\ Record("candidate", fill) /\ "candidate" \in Ledgers
      BY <1>3, <2>1 DEF RecordCandidate, Ledgers
    <2>3. BooksSound' /\ FilesSound'
      BY <2>1, <2>2, PendingFacts, RecordSound
    <2>4. OrdersSound'
      BY <1>0, <1>3 DEF OrdersSound, Rows, RecordCandidate
    <2>5. row \in 1..Rows /\ Rows \in Nat /\ Rows <= MaxOrders
      BY <1>0, <2>2, PendingFacts DEF OrdersSound, Rows
    <2>6. RestSound'
      <3>1. UNCHANGED <<account, snapshot, deaths, tears, failures>>
        BY <1>3 DEF RecordCandidate, faults
      <3>2. pc' \in {"save", "trading", "replay baseline"}
        BY <1>3 DEF RecordCandidate
      <3>3. row' = row \/ (row' = row + 1 /\ row < Rows)
        BY <1>3 DEF RecordCandidate, Rows
      <3>4. row' \in 1..MaxOrders + 1
        BY <2>5, <3>3, Bounds
      <3> QED BY <1>0, <3>1, <3>2, <3>4 DEF RestSound, Recording
    <2>7. AtRow'
      <3>1. orders' = orders /\ account' = account
        BY <1>3 DEF RecordCandidate
      <3>2. \/ pc = "candidate" /\ pc' = "save" /\ row' = row
            \/ pc' = "trading"
            \/ pc' = "replay baseline" /\ row' = row + 1 /\ row < Rows
        BY <1>3 DEF RecordCandidate, Rows
      <3>3. row' \in 1..Rows \/ pc' = "trading"
        <4>1. PICK n \in Nat : n = Rows /\ row \in 1..n
          BY <2>5
        <4>2. row < n => row + 1 \in 1..n
          BY <4>1
        <4> QED BY <3>2, <4>1, <4>2
      <3> QED BY <1>0, <3>1, <3>2, <3>3 DEF AtRow, Rows, Recording
    <2> QED BY <2>3, <2>4, <2>6, <2>7 DEF ShadowBase
  <1>4. ASSUME NEW t \in Tickers, Entry(t) PROVE ShadowBase'
    <2>1. PICK b \in Quantities : \E c \in 1..b :
            Commit([side |-> "BUY", ticker |-> t, candidate |-> c, baseline |-> b])
      BY <1>4 DEF Entry
    <2>5. PICK c \in 1..b :
            Commit([side |-> "BUY", ticker |-> t, candidate |-> c, baseline |-> b])
      BY <2>1
    <2>2. PICK r : r = [side |-> "BUY", ticker |-> t, candidate |-> c, baseline |-> b]
      OBVIOUS
    <2>3. r \in Row /\ Proper(r) /\ r.side = "BUY" /\ r.ticker = t
      BY <2>2, Bounds DEF Row, Proper, Quantities
    <2>4. account[t] = 0
      BY <1>4 DEF Entry
    <2> QED BY <2>5, <2>2, <2>3, <2>4, CommitSound
  <1>5. ASSUME NEW t \in Tickers, Exit(t) PROVE ShadowBase'
    <2>1. PICK k \in 1..account[t] :
            Commit([side |-> "SELL", ticker |-> t, candidate |-> k, baseline |-> 0])
      BY <1>5 DEF Exit
    <2>2. PICK r : r = [side |-> "SELL", ticker |-> t, candidate |-> k, baseline |-> 0]
      OBVIOUS
    <2>3. account[t] \in 0..MaxQuantity
      BY <1>0 DEF RestSound
    <2>4. r \in Row /\ Proper(r) /\ r.side # "BUY" /\ r.candidate <= account[r.ticker]
      BY <2>2, <2>3, Bounds DEF Row, Proper, Quantities
    <2> QED BY <2>1, <2>2, <2>4, CommitSound
  <1>6. CASE Save
    <2>1. OrdersSound' /\ FilesSound' /\ BooksSound'
      BY <1>0, <1>6 DEF OrdersSound, Rows, FilesSound, BooksSound, Save
    <2>2. row \in 1..Rows
      BY <1>0, <1>6 DEF Save, AtRow
    <2>3. PICK r \in Row : r = orders[row]
      BY <1>0, <2>2 DEF OrdersSound, Rows
    <2>4. r.ticker \in Tickers /\ r.candidate \in 1..MaxQuantity
      BY DEF Row, Quantities
    <2>5. IF r.side = "BUY" THEN account[r.ticker] = 0 ELSE r.candidate <= account[r.ticker]
      BY <1>0, <1>6, <2>3 DEF Save, AtRow
    <2>6. account' = [account EXCEPT ![r.ticker] =
                         IF r.side = "BUY" THEN @ + r.candidate ELSE @ - r.candidate]
      BY <1>6, <2>3 DEF Save
    <2>7. account' \in [Tickers -> 0..MaxQuantity]
      BY <1>0, <2>4, <2>5, <2>6, Bounds DEF RestSound
    <2>8. RestSound' /\ AtRow'
      BY <1>0, <1>6, <2>7 DEF RestSound, AtRow, Save, faults, Recording
    <2> QED BY <2>1, <2>8 DEF ShadowBase
  <1>7. CASE FillFails
    <2>1. OrdersSound' /\ FilesSound' /\ BooksSound'
      BY <1>0, <1>7 DEF OrdersSound, Rows, FilesSound, BooksSound, FillFails
    <2>2. RestSound' /\ AtRow'
      BY <1>0, <1>7, Bounds DEF RestSound, AtRow, FillFails, Recording
    <2> QED BY <2>1, <2>2 DEF ShadowBase
  <1>8. CASE FinishCycle
    <2>1. OrdersSound' /\ FilesSound'
      BY <1>0, <1>8 DEF OrdersSound, Rows, FilesSound, FinishCycle
    <2>2. BooksSound'
      BY <1>8, EmptyBooksSound DEF BooksSound, FinishCycle
    <2>3. book["candidate"].closed \in 0..MaxOrders
      BY <1>0 DEF BooksSound, Book, Ledgers
    <2>4. RestSound'
      BY <1>0, <1>8, <2>3, Bounds DEF RestSound, FinishCycle, faults
    <2>5. AtRow'
      BY <1>8 DEF AtRow, FinishCycle, Recording
    <2> QED BY <2>1, <2>2, <2>4, <2>5 DEF ShadowBase
  <1>9. CASE Die
    <2>1. FilesSound'
      BY <1>0, <1>9 DEF FilesSound, Die
    <2>2. Died /\ tears' \in 0..MaxTears /\ deaths' \in 0..MaxDeaths
      BY <1>0, <1>9, Bounds DEF RestSound, Die
    <2> QED BY <2>1, <2>2, DiedSound
  <1>10. ASSUME NEW l \in Ledgers, Tear(l) PROVE ShadowBase'
    <2>1. Line(Garbled)
      BY DEF Line
    <2>2. FilesSound'
      BY <1>0, <1>10, <2>1 DEF FilesSound, Tear
    <2>3. Died /\ tears' \in 0..MaxTears /\ deaths' \in 0..MaxDeaths
      BY <1>0, <1>10, Bounds DEF RestSound, Tear
    <2> QED BY <2>2, <2>3, DiedSound
  <1>11. CASE UNCHANGED shadowVars
    <2>1. OrdersSound' /\ FilesSound' /\ BooksSound' /\ RestSound' /\ AtRow'
      BY <1>0, <1>11 DEF OrdersSound, Rows, FilesSound, BooksSound, RestSound, AtRow, shadowVars
    <2> QED BY <2>1 DEF ShadowBase
  <1> QED BY <1>1, <1>2, <1>3, <1>4, <1>5, <1>6, <1>7, <1>8, <1>9, <1>10, <1>11 DEF ShadowNext

LEMMA ShadowBaseAlways == ShadowSpec => []ShadowBase
  BY ShadowBaseInit, ShadowBaseStep, PTL DEF ShadowSpec

(***************************************************************************)
(* Rows, lines, ledgers and the saved portfolio keep their shape, and no   *)
(* ledger outgrows the rows it has recorded (shadow.py, record_entry and   *)
(* record_exit).                                                           *)
(***************************************************************************)
THEOREM ShadowTypes == ShadowSpec => []ShadowTypeOK
  <1>1. ShadowBase => ShadowTypeOK
    BY DEF ShadowBase, OrdersSound, Rows, FilesSound, BooksSound, RestSound, ShadowTypeOK
  <1> QED BY <1>1, ShadowBaseAlways, PTL

-----------------------------------------------------------------------------
(* Files: what a restart finds                                             *)

\* Without a torn line the files load to the books.
Rebuilt ==
    tears = 0 => \A l \in Ledgers : ~torn[l] /\ (pc # "idle" => Load(file[l]) = book[l])

LEMMA FillIsNoGarble == \A fill \in Fill : fill # Garbled
  <1>1. Garbled.id = 0 /\ \A fill \in Fill : fill.id # 0
    BY Bounds DEF Garbled, Fill, Ids
  <1> QED BY <1>1

\* record and _load_state: the line written is the fill put into the books.
LEMMA RecordRebuilds ==
    ASSUME ShadowBase, NEW l \in Ledgers, NEW fill \in Fill, Record(l, fill),
           \A m \in Ledgers : ~torn[m] /\ Load(file[m]) = book[m]
    PROVE  /\ \A m \in Ledgers : ~torn'[m] /\ Load(file'[m]) = book'[m]
           /\ book'[l] = Apply(book[l], fill)
           /\ \A m \in Ledgers : m # l => book'[m] = book[m]
  <1>0. /\ file \in [Ledgers -> Seq(Fill \cup {Garbled})] /\ torn \in [Ledgers -> BOOLEAN]
        /\ book \in [Ledgers -> Book]
    BY DEF ShadowBase, FilesSound, BooksSound
  <1>1. CASE Applied(book[l], fill)
    <2>1. UNCHANGED <<book, file, torn>> /\ Apply(book[l], fill) = book[l]
      BY <1>1 DEF Record, Apply
    <2> QED BY <2>1
  <1>2. CASE ~Applied(book[l], fill)
    <2>1. PICK lines \in Seq(Fill \cup {Garbled}) : lines = file[l]
      BY <1>0
    <2>2. PICK b : b = Apply(book[l], fill)
      OBVIOUS
    <2>3. /\ file' = [file EXCEPT ![l] = Append(lines, fill)]
          /\ torn' = [torn EXCEPT ![l] = FALSE]
          /\ book' = [book EXCEPT ![l] = b]
      BY <1>2, <2>1, <2>2 DEF Record, WithLine
    <2>4. Load(Append(lines, fill)) = Read(Load(lines), fill)
      <3>1. fill \in Fill \cup {Garbled}
        OBVIOUS
      <3> QED BY <2>1, <3>1, LoadAppend
    <2>5. Read(book[l], fill) = b
      BY <2>2, FillIsNoGarble DEF Read
    <2>6. Load(Append(lines, fill)) = b
      BY <2>1, <2>4, <2>5
    <2>7. /\ file'[l] = Append(lines, fill) /\ ~torn'[l] /\ book'[l] = b
          /\ \A m \in Ledgers : m # l => /\ file'[m] = file[m] /\ torn'[m] = torn[m]
                                         /\ book'[m] = book[m]
      BY <1>0, <2>3
    <2>8. ASSUME NEW m \in Ledgers PROVE ~torn'[m] /\ Load(file'[m]) = book'[m]
      <3>1. CASE m = l
        BY <2>6, <2>7, <3>1
      <3>2. CASE m # l
        BY <2>7, <3>2
      <3> QED BY <3>1, <3>2
    <2> QED BY <2>2, <2>7, <2>8
  <1> QED BY <1>1, <1>2

LEMMA RebuiltInit == ShadowInit => Rebuilt
  BY DEF ShadowInit, Rebuilt

LEMMA RebuiltStep == ShadowBase /\ Rebuilt /\ [ShadowNext]_shadowVars => Rebuilt'
  <1> SUFFICES ASSUME ShadowBase, Rebuilt, [ShadowNext]_shadowVars, tears' = 0
               PROVE  \A l \in Ledgers :
                          ~torn'[l] /\ (pc' # "idle" => Load(file'[l]) = book'[l])
    BY DEF Rebuilt
  <1>0. tears \in Nat
    BY Bounds DEF ShadowBase, RestSound
  <1>1. tears = 0 => \A l \in Ledgers : ~torn[l] /\ (pc # "idle" => Load(file[l]) = book[l])
    BY DEF Rebuilt
  <1>2. CASE Begin
    BY <1>1, <1>2 DEF Begin, Harness, faults
  <1>3. ASSUME NEW l \in Ledgers, Writing(l), Record(l, Pending(l)), tears' = tears
        PROVE  \A m \in Ledgers : ~torn'[m] /\ Load(file'[m]) = book'[m]
    <2>1. PICK fill \in Fill : fill = Pending(l)
      BY <1>3, PendingFacts
    <2>2. pc # "idle"
      BY <1>3 DEF Writing
    <2>3. \A m \in Ledgers : ~torn[m] /\ Load(file[m]) = book[m]
      BY <1>1, <1>3, <2>2
    <2> QED BY <1>3, <2>1, <2>3, RecordRebuilds
  <1>4. CASE RecordBaseline
    BY <1>3, <1>4 DEF RecordBaseline, faults, Ledgers
  <1>5. CASE RecordCandidate
    BY <1>3, <1>5 DEF RecordCandidate, faults, Ledgers
  <1>6. ASSUME NEW r, Commit(r)
        PROVE  \A l \in Ledgers : ~torn'[l] /\ (pc' # "idle" => Load(file'[l]) = book'[l])
    BY <1>1, <1>6 DEF Commit, faults
  <1>7. CASE \E t \in Tickers : Entry(t) \/ Exit(t)
    BY <1>6, <1>7 DEF Entry, Exit
  <1>8. CASE Save
    BY <1>1, <1>8 DEF Save, faults
  <1>9. CASE FillFails
    BY <1>1, <1>9 DEF FillFails
  <1>10. CASE FinishCycle
    BY <1>1, <1>10 DEF FinishCycle, faults
  <1>11. CASE Die
    BY <1>1, <1>11 DEF Die, Died
  <1>12. ASSUME NEW l \in Ledgers, Tear(l) PROVE FALSE
    BY <1>0, <1>12 DEF Tear
  <1>13. CASE UNCHANGED shadowVars
    BY <1>1, <1>13 DEF shadowVars
  <1> QED BY <1>2, <1>4, <1>5, <1>7, <1>8, <1>9, <1>10, <1>11, <1>12, <1>13 DEF ShadowNext

(***************************************************************************)
(* However often the process died between two steps, the files load to     *)
(* what the running cycle has in memory, unless a line was torn            *)
(* (_load_state against record and _append_line).                          *)
(***************************************************************************)
THEOREM LedgersRebuilt == ShadowSpec => []FreshLedgerRebuilds
  <1>1. ShadowInit => ShadowBase /\ Rebuilt
    BY ShadowBaseInit, RebuiltInit
  <1>2. ShadowBase /\ Rebuilt /\ [ShadowNext]_shadowVars => (ShadowBase /\ Rebuilt)'
    BY ShadowBaseStep, RebuiltStep
  <1>3. ShadowBase /\ Rebuilt => FreshLedgerRebuilds
    BY DEF Rebuilt, FreshLedgerRebuilds
  <1> QED BY <1>1, <1>2, <1>3, PTL DEF ShadowSpec

-----------------------------------------------------------------------------
(* The pair: what recording every row once comes to                        *)

\* The two ledgers of a pair, each with the first k rows.
Together(books, k) ==
    /\ \A l \in Ledgers : Accountable(books[l]) /\ books[l].ids = 1..k
    /\ \A t \in Tickers :
          /\ books["candidate"].held[t] <= books["baseline"].held[t]
          /\ books["candidate"].held[t] = 0 <=> books["baseline"].held[t] = 0
    /\ books["candidate"].closed = books["baseline"].closed
    /\ books["candidate"].completed = books["baseline"].completed

LEMMA ApplyBuy ==
    ASSUME NEW b, Accountable(b), NEW fill \in Fill, fill.side = "BUY", ~Applied(b, fill)
    PROVE  /\ Apply(b, fill).held = [b.held EXCEPT ![fill.ticker] = @ + fill.quantity]
           /\ Apply(b, fill).closed = b.closed /\ Apply(b, fill).completed = b.completed
           /\ Apply(b, fill).ids = b.ids \cup {fill.id}
  <1>1. b \in [held : [Tickers -> Nat], closed : Nat, completed : Nat, ids : SUBSET Ids]
    BY DEF Accountable
  <1>2. PICK c : c = [b EXCEPT !.ids = @ \cup {fill.id},
                               !.held[fill.ticker] = @ + fill.quantity]
    OBVIOUS
  <1>3. Apply(b, fill) = c
    BY <1>2 DEF Apply
  <1> QED BY <1>1, <1>2, <1>3

LEMMA ApplySell ==
    ASSUME NEW b, Accountable(b), NEW fill \in Fill, fill.side # "BUY", ~Applied(b, fill),
           0 < fill.quantity, fill.quantity <= b.held[fill.ticker]
    PROVE  /\ Apply(b, fill).held = [b.held EXCEPT ![fill.ticker] = @ - fill.quantity]
           /\ Apply(b, fill).closed = b.closed + 1
           /\ Apply(b, fill).completed =
                b.completed + (IF fill.quantity = b.held[fill.ticker] THEN 1 ELSE 0)
           /\ Apply(b, fill).ids = b.ids \cup {fill.id}
  <1>1. b.held[fill.ticker] \in Nat /\ fill.quantity \in Nat
    BY DEF Accountable, Fill
  <1>2. PICK h \in Nat, q \in Nat : h = b.held[fill.ticker] /\ q = fill.quantity
    BY <1>1
  <1>3. Least(q, h) = q /\ q > 0 /\ h > 0
    BY <1>1, <1>2 DEF Least
  <1> QED BY <1>2, <1>3 DEF Apply

LEMMA FillOfFacts ==
    ASSUME NEW r \in Row, NEW id \in Ids, NEW q \in Nat
    PROVE  /\ FillOf(r, id, q) \in Fill
           /\ FillOf(r, id, q).id = id /\ FillOf(r, id, q).side = r.side
           /\ FillOf(r, id, q).ticker = r.ticker /\ FillOf(r, id, q).quantity = q
  BY DEF FillOf, Fill, Row

\* record_entry and record_exit keep a pair together.
LEMMA TogetherStep ==
    ASSUME NEW books, NEW r \in Row, Proper(r), NEW k \in Ids, Together(books, k - 1),
           r.side # "BUY" => r.candidate <= books["candidate"].held[r.ticker]
    PROVE  Together(Recorded(books, r, k), k)
  <1>1. PICK s \in Nat : s = r.candidate /\ 1 <= s /\ s <= MaxQuantity
    BY Bounds DEF Row, Quantities
  <1>2. PICK t \in Tickers : t = r.ticker
    BY DEF Row
  <1>3. PICK x, y : x = books["candidate"] /\ y = books["baseline"]
    OBVIOUS
  <1>4. /\ Accountable(x) /\ x.ids = 1..(k - 1) /\ Accountable(y) /\ y.ids = 1..(k - 1)
        /\ \A u \in Tickers : x.held[u] <= y.held[u] /\ (x.held[u] = 0 <=> y.held[u] = 0)
        /\ x.closed = y.closed /\ x.completed = y.completed
    BY <1>3 DEF Together, Ledgers
  <1>5. /\ x \in [held : [Tickers -> Nat], closed : Nat, completed : Nat, ids : SUBSET Ids]
        /\ y \in [held : [Tickers -> Nat], closed : Nat, completed : Nat, ids : SUBSET Ids]
    BY <1>4 DEF Accountable
  <1>6. PICK c \in Nat, b \in Nat : c = x.held[t] /\ b = y.held[t]
    BY <1>5
  <1>7. k \in Nat \ {0} /\ k \notin 1..(k - 1) /\ (1..(k - 1)) \cup {k} = 1..k
    BY Bounds DEF Ids
  <1>8. PICK q : q = BaselineQuantity(books, r)
    OBVIOUS
  <1>9. /\ q \in Nat /\ 1 <= q /\ (r.side = "BUY" => s <= q /\ q <= MaxQuantity)
        /\ r.side # "BUY" => /\ s <= c /\ q <= b /\ c - s <= b - q
                             /\ (s = c <=> q = b)
    <2>1. CASE r.side = "BUY"
      <3>1. q = r.baseline /\ r.baseline \in 0..MaxQuantity /\ s <= r.baseline
        BY <1>1, <1>8, <2>1 DEF BaselineQuantity, Proper, Row
      <3> QED BY <1>1, <2>1, <3>1, Bounds
    <2>2. CASE r.side # "BUY"
      <3>1. s <= c /\ c <= b /\ c # 0
        BY <1>1, <1>2, <1>3, <1>4, <1>6, <2>2
      <3>2. q = Round(b * s, c)
        BY <1>1, <1>2, <1>3, <1>6, <1>8, <2>2, <3>1 DEF BaselineQuantity
      <3>3. q \in Nat /\ s <= q /\ q <= b - (c - s) /\ (s = c => q = b)
        BY <1>1, <3>1, <3>2, RoundFacts
      <3> QED BY <1>1, <2>2, <3>1, <3>3
    <2> QED BY <2>1, <2>2
  <1>10. PICK f \in Fill : /\ f = FillOf(r, k, s) /\ f.id = k /\ f.side = r.side
                           /\ f.ticker = t /\ f.quantity = s
    BY <1>1, <1>2, FillOfFacts
  <1>11. PICK g \in Fill : /\ g = FillOf(r, k, q) /\ g.id = k /\ g.side = r.side
                           /\ g.ticker = t /\ g.quantity = q
    BY <1>2, <1>9, FillOfFacts
  <1>12. PICK v, w : v = Apply(x, f) /\ w = Apply(y, g)
    OBVIOUS
  <1>13. Recorded(books, r, k)["candidate"] = v /\ Recorded(books, r, k)["baseline"] = w
    BY <1>1, <1>3, <1>8, <1>10, <1>11, <1>12 DEF Recorded, QuantityOf, Ledgers
  <1>14. Accountable(v) /\ Accountable(w)
    <2>1. f.side = "BUY" => f.quantity <= MaxQuantity
      BY <1>1, <1>10
    <2>2. g.side = "BUY" => g.quantity <= MaxQuantity
      BY <1>9, <1>11
    <2>3. Accountable(Apply(x, f))
      BY <1>4, <2>1, ApplyAccountable
    <2>4. Accountable(Apply(y, g))
      BY <1>4, <2>2, ApplyAccountable
    <2> QED BY <1>12, <2>3, <2>4
  <1>15. ~Applied(x, f) /\ ~Applied(y, g)
    BY <1>1, <1>4, <1>7, <1>9, <1>10, <1>11 DEF Applied
  <1>16. CASE r.side = "BUY"
    <2>1. /\ v.held = [x.held EXCEPT ![t] = @ + s] /\ v.closed = x.closed
          /\ v.completed = x.completed /\ v.ids = x.ids \cup {k}
      <3>1. f.side = "BUY"
        BY <1>10, <1>16
      <3>2. /\ Apply(x, f).held = [x.held EXCEPT ![f.ticker] = @ + f.quantity]
            /\ Apply(x, f).closed = x.closed
            /\ Apply(x, f).completed = x.completed
            /\ Apply(x, f).ids = x.ids \cup {f.id}
        BY <1>4, <1>15, <3>1, ApplyBuy
      <3> QED BY <1>10, <1>12, <3>2
    <2>2. /\ w.held = [y.held EXCEPT ![t] = @ + q] /\ w.closed = y.closed
          /\ w.completed = y.completed /\ w.ids = y.ids \cup {k}
      <3>1. g.side = "BUY"
        BY <1>11, <1>16
      <3>2. /\ Apply(y, g).held = [y.held EXCEPT ![g.ticker] = @ + g.quantity]
            /\ Apply(y, g).closed = y.closed
            /\ Apply(y, g).completed = y.completed
            /\ Apply(y, g).ids = y.ids \cup {g.id}
        BY <1>4, <1>15, <3>1, ApplyBuy
      <3> QED BY <1>11, <1>12, <3>2
    <2>3. ASSUME NEW u \in Tickers
          PROVE  v.held[u] <= w.held[u] /\ (v.held[u] = 0 <=> w.held[u] = 0)
      <3>1. CASE u = t
        <4>1. v.held[u] = c + s /\ w.held[u] = b + q
          BY <1>5, <1>6, <2>1, <2>2, <3>1
        <4>2. c <= b
          BY <1>4, <1>6
        <4> QED BY <1>1, <1>9, <1>16, <4>1, <4>2
      <3>2. CASE u # t
        <4>1. v.held[u] = x.held[u] /\ w.held[u] = y.held[u]
          BY <1>5, <2>1, <2>2, <3>2
        <4> QED BY <1>4, <4>1
      <3> QED BY <3>1, <3>2
    <2>4. v.ids = 1..k /\ w.ids = 1..k
      BY <1>4, <1>7, <2>1, <2>2
    <2>5. v.closed = w.closed /\ v.completed = w.completed
      BY <1>4, <2>1, <2>2
    <2> QED BY <1>13, <1>14, <2>3, <2>4, <2>5 DEF Together, Ledgers
  <1>17. CASE r.side # "BUY"
    <2>0. 0 < f.quantity /\ f.quantity <= x.held[f.ticker]
          /\ 0 < g.quantity /\ g.quantity <= y.held[g.ticker]
      BY <1>1, <1>6, <1>9, <1>10, <1>11, <1>17
    <2>1. /\ v.held = [x.held EXCEPT ![t] = @ - s] /\ v.closed = x.closed + 1
          /\ v.completed = x.completed + (IF s = c THEN 1 ELSE 0) /\ v.ids = x.ids \cup {k}
      <3>1. f.side # "BUY"
        BY <1>10, <1>17
      <3>2. /\ Apply(x, f).held = [x.held EXCEPT ![f.ticker] = @ - f.quantity]
            /\ Apply(x, f).closed = x.closed + 1
            /\ Apply(x, f).completed =
                 x.completed + (IF f.quantity = x.held[f.ticker] THEN 1 ELSE 0)
            /\ Apply(x, f).ids = x.ids \cup {f.id}
        BY <1>4, <1>15, <2>0, <3>1, ApplySell
      <3> QED BY <1>6, <1>10, <1>12, <3>2
    <2>2. /\ w.held = [y.held EXCEPT ![t] = @ - q] /\ w.closed = y.closed + 1
          /\ w.completed = y.completed + (IF q = b THEN 1 ELSE 0) /\ w.ids = y.ids \cup {k}
      <3>1. g.side # "BUY"
        BY <1>11, <1>17
      <3>2. /\ Apply(y, g).held = [y.held EXCEPT ![g.ticker] = @ - g.quantity]
            /\ Apply(y, g).closed = y.closed + 1
            /\ Apply(y, g).completed =
                 y.completed + (IF g.quantity = y.held[g.ticker] THEN 1 ELSE 0)
            /\ Apply(y, g).ids = y.ids \cup {g.id}
        BY <1>4, <1>15, <2>0, <3>1, ApplySell
      <3> QED BY <1>6, <1>11, <1>12, <3>2
    <2>3. ASSUME NEW u \in Tickers
          PROVE  v.held[u] <= w.held[u] /\ (v.held[u] = 0 <=> w.held[u] = 0)
      <3>1. CASE u = t
        <4>1. v.held[u] = c - s /\ w.held[u] = b - q
          BY <1>5, <1>6, <2>1, <2>2, <3>1
        <4> QED BY <1>9, <1>17, <4>1
      <3>2. CASE u # t
        <4>1. v.held[u] = x.held[u] /\ w.held[u] = y.held[u]
          BY <1>5, <2>1, <2>2, <3>2
        <4> QED BY <1>4, <4>1
      <3> QED BY <3>1, <3>2
    <2>4. v.ids = 1..k /\ w.ids = 1..k
      BY <1>4, <1>7, <2>1, <2>2
    <2>5. v.closed = w.closed /\ v.completed = w.completed
      BY <1>4, <1>9, <1>17, <2>1, <2>2
    <2> QED BY <1>13, <1>14, <2>3, <2>4, <2>5 DEF Together, Ledgers
  <1> QED BY <1>16, <1>17

LEMMA TogetherEmpty == Together(NoBooks, 0)
  <1>1. NoBooks["baseline"] = EmptyBook /\ NoBooks["candidate"] = EmptyBook
    BY DEF NoBooks, Ledgers
  <1>2. EmptyBook.ids = 1..0 /\ \A t \in Tickers : EmptyBook.held[t] = 0
    BY DEF EmptyBook
  <1> QED BY <1>1, <1>2, EmptyAccountable DEF Together, Ledgers

\* Rows that sell no more than the candidate holds keep the pair together throughout.
LEMMA IdealTogether ==
    ASSUME ShadowBase, ~Oversold, NEW k \in 0..Rows
    PROVE  Together(Ideal(orders)[k], k)
  <1>1. PICK n \in Nat : n = Rows /\ n = Len(orders) /\ n <= MaxOrders
    BY DEF ShadowBase, OrdersSound, Rows
  <1>2. /\ Ideal(orders)[0] = NoBooks
        /\ \A j \in 1..n : Ideal(orders)[j] = Recorded(Ideal(orders)[j - 1], orders[j], j)
    BY <1>1, IdealFacts
  <1> DEFINE Bad == {j \in 0..n : ~Together(Ideal(orders)[j], j)}
  <1> SUFFICES Bad = {}
    BY <1>1
  <1> SUFFICES ASSUME Bad # {} PROVE FALSE
    OBVIOUS
  <1>3. PICK m \in Bad : \A j \in Bad : m <= j
    <2>1. Bad \subseteq Nat
      OBVIOUS
    <2> HIDE DEF Bad
    <2> QED BY <2>1, LeastBad
  <1>4. m # 0
    BY <1>2, TogetherEmpty
  <1>5. m - 1 \in 0..n /\ ~(m <= m - 1) /\ m \in 1..n
    BY <1>4
  <1>6. Together(Ideal(orders)[m - 1], m - 1)
    BY <1>3, <1>5
  <1>7. PICK r \in Row : r = orders[m] /\ Proper(r)
    BY <1>1, <1>5 DEF ShadowBase, OrdersSound, Rows
  <1>8. PICK books : books = Ideal(orders)[m - 1]
    OBVIOUS
  <1>9. r.side # "BUY" => r.candidate <= books["candidate"].held[r.ticker]
    <2> SUFFICES ASSUME r.side # "BUY" PROVE r.candidate <= books["candidate"].held[r.ticker]
      OBVIOUS
    <2>1. r.side = "SELL" /\ r.candidate \in Nat /\ r.ticker \in Tickers
      BY DEF Row, Quantities
    <2>2. m \in DOMAIN orders
      BY <1>1, <1>5 DEF ShadowBase, OrdersSound
    <2>3. ~(r.candidate > books["candidate"].held[r.ticker])
      BY <1>7, <1>8, <2>1, <2>2 DEF Oversold
    <2>4. books["candidate"].held[r.ticker] \in Nat
      BY <1>6, <1>8, <2>1 DEF Together, Accountable, Ledgers
    <2> QED BY <2>1, <2>3, <2>4
  <1>10. m \in Ids
    BY <1>1, <1>5, Bounds DEF Ids
  <1>11. Together(Recorded(books, r, m), m)
    BY <1>6, <1>7, <1>8, <1>9, <1>10, TogetherStep
  <1> QED BY <1>2, <1>5, <1>7, <1>8, <1>11

-----------------------------------------------------------------------------
(* The pair: how far the files have followed the rows                      *)

\* The ledgers have recorded all rows, or all but the last; the baseline goes first.
Reached(l, k) == Load(file[l]) = Ideal(orders)[k][l]
Behind(b, c) ==
    /\ Reached("baseline", b) /\ Reached("candidate", c)
    /\ c <= b /\ Rows <= c + 1
    /\ pc \in {"trading", "save"} => c = Rows
    /\ pc = "baseline" => b = Rows - 1
    /\ pc = "candidate" => b = Rows /\ c = Rows - 1
    /\ pc = "replay candidate" /\ row = Rows => b = Rows
FollowsOrders == Undisturbed => \E b, c \in 0..Rows : Behind(b, c)

LEMMA IdealRecords ==
    ASSUME ShadowBase, NEW l \in Ledgers, NEW k \in 1..Rows
    PROVE  Ideal(orders)[k][l] =
             Apply(Ideal(orders)[k - 1][l],
                   FillOf(orders[k], k, QuantityOf(l, Ideal(orders)[k - 1], orders[k])))
  <1>1. PICK n \in Nat : n = Rows /\ n = Len(orders)
    BY DEF ShadowBase, OrdersSound, Rows
  <1>2. Ideal(orders)[k] = Recorded(Ideal(orders)[k - 1], orders[k], k)
    BY <1>1, IdealFacts
  <1> QED BY <1>2 DEF Recorded

\* _operation_ids: a row both ledgers know is not recorded again.
LEMMA ReplayedRow ==
    ASSUME ShadowBase, ~Oversold, NEW l \in Ledgers, Writing(l), NEW k \in 0..Rows,
           book[l] = Ideal(orders)[k][l], row <= k
    PROVE  Apply(book[l], Pending(l)) = book[l]
  <1>1. book[l].ids = 1..k
    BY IdealTogether DEF Together
  <1>2. Pending(l).id = row
    BY DEF Pending, FillOf
  <1>3. row \in 1..k
    <2>1. row \in 1..Rows
      BY PendingFacts
    <2>2. Rows \in Nat
      BY DEF ShadowBase, OrdersSound, Rows
    <2> QED BY <2>1, <2>2
  <1> QED BY <1>1, <1>2, <1>3 DEF Apply, Applied

\* A row neither ledger knows is recorded as an uninterrupted run would have.
LEMMA NextRow ==
    ASSUME ShadowBase, NEW l \in Ledgers, Writing(l), NEW k \in 0..Rows,
           book[l] = Ideal(orders)[k][l], row = k + 1,
           l = "baseline" => book["candidate"] = Ideal(orders)[k]["candidate"]
    PROVE  Apply(book[l], Pending(l)) = Ideal(orders)[row][l]
  <1>1. row \in 1..Rows /\ k = row - 1
    BY PendingFacts
  <1>2. PICK books, r : books = Ideal(orders)[k] /\ r = orders[row]
    OBVIOUS
  <1>3. QuantityOf(l, book, r) = QuantityOf(l, books, r)
    <2>1. CASE l = "baseline"
      <3>1. book["baseline"] = books["baseline"] /\ book["candidate"] = books["candidate"]
        BY <1>2, <2>1
      <3> QED BY <2>1, <3>1 DEF QuantityOf, BaselineQuantity
    <2>2. CASE l # "baseline"
      BY <2>2 DEF QuantityOf
    <2> QED BY <2>1, <2>2
  <1>4. Ideal(orders)[row][l] = Apply(books[l], FillOf(r, row, QuantityOf(l, books, r)))
    BY <1>1, <1>2, IdealRecords
  <1>5. Pending(l) = FillOf(r, row, QuantityOf(l, book, r))
    BY <1>2 DEF Pending
  <1> QED BY <1>2, <1>3, <1>4, <1>5

\* What recording the pending row makes of a ledger that has the first k.
LEMMA RecordReaches ==
    ASSUME ShadowBase, Rebuilt, tears = 0, ~Oversold, NEW l \in Ledgers, Writing(l),
           Record(l, Pending(l)), orders' = orders, NEW k \in 0..Rows, Reached(l, k),
           Rows <= k + 1, l = "baseline" /\ row = k + 1 => Reached("candidate", k)
    PROVE  /\ row <= k => Reached(l, k)'
           /\ row = k + 1 => Reached(l, k + 1)'
           /\ row <= k \/ row = k + 1
           /\ \A m \in Ledgers, j \in 0..Rows : m # l /\ Reached(m, j) => Reached(m, j)'
  <1>1. row \in 1..Rows /\ Rows \in Nat
    BY PendingFacts DEF ShadowBase, OrdersSound, Rows
  <1>2. \A m \in Ledgers : ~torn[m] /\ Load(file[m]) = book[m]
    BY DEF Rebuilt, Writing
  <1>3. PICK fill \in Fill : fill = Pending(l)
    BY PendingFacts
  <1>4. /\ \A m \in Ledgers : Load(file'[m]) = book'[m]
        /\ book'[l] = Apply(book[l], fill)
        /\ \A m \in Ledgers : m # l => book'[m] = book[m]
    BY <1>2, <1>3, RecordRebuilds
  <1>5. book[l] = Ideal(orders)[k][l]
    BY <1>2 DEF Reached
  <1>6. ASSUME row <= k PROVE Reached(l, k)'
    <2>1. Apply(book[l], Pending(l)) = book[l]
      BY <1>5, <1>6, ReplayedRow
    <2>2. Load(file'[l]) = Ideal(orders')[k][l]
      BY <1>3, <1>4, <1>5, <2>1
    <2> QED BY <2>2 DEF Reached
  <1>7. ASSUME row = k + 1 PROVE Reached(l, k + 1)'
    <2>1. l = "baseline" => book["candidate"] = Ideal(orders)[k]["candidate"]
      BY <1>2, <1>7 DEF Reached, Ledgers
    <2>2. Apply(book[l], Pending(l)) = Ideal(orders)[row][l]
      BY <1>5, <1>7, <2>1, NextRow
    <2>3. Load(file'[l]) = Ideal(orders')[k + 1][l]
      BY <1>3, <1>4, <1>7, <2>2
    <2> QED BY <2>3 DEF Reached
  <1>8. row <= k \/ row = k + 1
    BY <1>1
  <1>9. ASSUME NEW m \in Ledgers, NEW j \in 0..Rows, m # l, Reached(m, j)
        PROVE  Reached(m, j)'
    <2>1. Load(file'[m]) = Ideal(orders')[j][m]
      BY <1>2, <1>4, <1>9 DEF Reached
    <2> QED BY <2>1 DEF Reached
  <1> QED BY <1>6, <1>7, <1>8, <1>9

\* A row more does not undo that an earlier one oversold.
LEMMA OversoldStays ==
    ASSUME ShadowBase, NEW r \in Row, Commit(r), Oversold
    PROVE  Oversold'
  <1>1. orders \in Seq(Row) /\ orders' = Append(orders, r)
    BY DEF ShadowBase, OrdersSound, Commit
  <1>2. PICK n \in DOMAIN orders :
          /\ orders[n].side = "SELL"
          /\ orders[n].candidate > Ideal(orders)[n - 1]["candidate"].held[orders[n].ticker]
    BY DEF Oversold
  <1>3. n \in DOMAIN orders' /\ orders'[n] = orders[n] /\ n - 1 \in 0..Len(orders)
    BY <1>1
  <1>4. Ideal(orders')[n - 1] = Ideal(orders)[n - 1]
    BY <1>1, <1>3, IdealAppend
  <1>5. orders'[n].candidate > Ideal(orders')[n - 1]["candidate"].held[orders'[n].ticker]
    BY <1>2, <1>3, <1>4
  <1> QED BY <1>2, <1>3, <1>5 DEF Oversold

LEMMA FollowsInit == ShadowInit => FollowsOrders
  <1> SUFFICES ASSUME ShadowInit PROVE \E b, c \in 0..Rows : Behind(b, c)
    BY DEF FollowsOrders
  <1>1. orders = <<>> /\ Len(orders) = 0 /\ pc = "idle"
    BY DEF ShadowInit
  <1>2. Ideal(orders)[0] = NoBooks
    BY <1>1, IdealFacts
  <1>3. \A l \in Ledgers : Reached(l, 0)
    BY <1>2, LoadEmpty DEF ShadowInit, Reached, NoBooks
  <1>4. Behind(0, 0)
    BY <1>1, <1>3 DEF Behind, Rows, Ledgers
  <1>5. 0 \in 0..Rows
    BY <1>1 DEF Rows
  <1> QED BY <1>4, <1>5

LEMMA FollowsStep ==
    ShadowBase /\ Rebuilt /\ FollowsOrders /\ [ShadowNext]_shadowVars => FollowsOrders'
  <1> SUFFICES ASSUME ShadowBase, Rebuilt, FollowsOrders, [ShadowNext]_shadowVars, Undisturbed'
               PROVE  (\E b, c \in 0..Rows : Behind(b, c))'
    BY DEF FollowsOrders
  <1>0. /\ tears \in Nat /\ failures \in Nat /\ Rows \in Nat /\ Rows = Len(orders)
        /\ orders \in Seq(Row) /\ tears' = 0 /\ failures' = 0 /\ ~Oversold'
    BY Bounds DEF ShadowBase, RestSound, OrdersSound, Rows, Undisturbed
  <1>1. ASSUME orders' = orders, tears' = tears, failures' = failures
        PROVE  /\ tears = 0 /\ ~Oversold
               /\ \E b, c \in 0..Rows : Behind(b, c)
    <2>1. tears = 0 /\ failures = 0 /\ ~Oversold
      BY <1>0, <1>1 DEF Oversold
    <2> QED BY <2>1 DEF FollowsOrders, Undisturbed
  \* The steps that leave rows and files alone.
  <1>2. ASSUME orders' = orders, file' = file, tears' = tears, failures' = failures,
               pc' \in {"trading", "save"} =>
                  Rows = 0 \/ (pc \in {"trading", "save"}),
               pc' = "baseline" => pc = "baseline",
               pc' = "candidate" => pc = "candidate",
               pc' = "replay candidate" => pc = "replay candidate" /\ row' = row
        PROVE  (\E b, c \in 0..Rows : Behind(b, c))'
    <2>1. PICK b \in 0..Rows, c \in 0..Rows : Behind(b, c)
      BY <1>1, <1>2
    <2>2. Reached("baseline", b)' /\ Reached("candidate", c)' /\ Rows' = Rows
      BY <1>2, <2>1 DEF Behind, Reached, Rows
    <2>3. c <= b /\ Rows <= c + 1
      BY <2>1 DEF Behind
    <2>4. pc' \in {"trading", "save"} => c = Rows
      <3>1. Rows = 0 => c = Rows
        BY <1>0
      <3>2. pc \in {"trading", "save"} => c = Rows
        BY <2>1 DEF Behind
      <3> QED BY <1>2, <3>1, <3>2
    <2>5. pc' = "baseline" => b = Rows - 1
      BY <1>2, <2>1 DEF Behind
    <2>6. pc' = "candidate" => b = Rows /\ c = Rows - 1
      BY <1>2, <2>1 DEF Behind
    <2>7. pc' = "replay candidate" /\ row' = Rows => b = Rows
      BY <1>2, <2>1 DEF Behind
    <2>8. Behind(b, c)'
      BY <2>2, <2>3, <2>4, <2>5, <2>6, <2>7 DEF Behind
    <2> QED BY <2>2, <2>8
  <1>3. CASE Begin
    <2>1. orders = <<>> => Rows = 0
      BY <1>0
    <2> QED BY <1>2, <1>3, <2>1 DEF Begin, faults
  <1>4. CASE RecordBaseline
    <2>1. /\ orders' = orders /\ tears' = tears /\ failures' = failures /\ row' = row
          /\ Writing("baseline") /\ Record("baseline", Pending("baseline"))
          /\ pc \in {"baseline", "replay baseline"}
          /\ pc' = IF pc = "baseline" THEN "candidate" ELSE "replay candidate"
      BY <1>4 DEF RecordBaseline, faults, Writing
    <2>2. PICK b \in 0..Rows, c \in 0..Rows : Behind(b, c)
      BY <1>1, <2>1
    <2>3. /\ Reached("baseline", b) /\ Reached("candidate", c)
          /\ c <= b /\ Rows <= c + 1
          /\ pc = "baseline" => b = Rows - 1
      BY <2>2 DEF Behind
    <2>4. row \in 1..Rows /\ (pc = "baseline" => row = Rows)
      BY <2>1, PendingFacts DEF ShadowBase, AtRow, Ledgers
    <2>5. row = b + 1 => Reached("candidate", b)
      <3>1. row = b + 1 => b = c
        BY <1>0, <2>3, <2>4
      <3> QED BY <2>3, <3>1
    <2>6. /\ row <= b => Reached("baseline", b)'
          /\ row = b + 1 => Reached("baseline", b + 1)'
          /\ row <= b \/ row = b + 1
          /\ Reached("candidate", c)'
      <3>1. tears = 0 /\ ~Oversold
        BY <1>1, <2>1
      <3>2. Rows <= b + 1 /\ "baseline" \in Ledgers /\ "candidate" \in Ledgers
        BY <1>0, <2>3 DEF Ledgers
      <3>3. /\ row <= b => Reached("baseline", b)'
            /\ row = b + 1 => Reached("baseline", b + 1)'
            /\ row <= b \/ row = b + 1
            /\ \A m \in Ledgers, j \in 0..Rows : m # "baseline" /\ Reached(m, j) => Reached(m, j)'
        BY <2>1, <2>3, <2>5, <3>1, <3>2, RecordReaches
      <3> QED BY <2>3, <3>2, <3>3
    <2>7. PICK d \in 0..Rows : /\ Reached("baseline", d)' /\ c <= d
                               /\ row = Rows => d = Rows
                               /\ pc = "baseline" => d = Rows /\ c = Rows - 1
      <3>1. CASE row <= b
        BY <1>0, <2>3, <2>4, <2>6, <3>1
      <3>2. CASE row = b + 1
        <4>1. b + 1 \in 0..Rows /\ b + 1 = Rows
          BY <1>0, <2>3, <2>4, <3>2
        <4> QED BY <1>0, <2>3, <2>4, <2>6, <3>2, <4>1
      <3> QED BY <2>6, <3>1, <3>2
    <2>8. Rows' = Rows
      BY <2>1 DEF Rows
    <2>9. Behind(d, c)'
      BY <1>0, <2>1, <2>3, <2>6, <2>7, <2>8 DEF Behind
    <2> QED BY <2>8, <2>9
  <1>5. CASE RecordCandidate
    <2>1. /\ orders' = orders /\ tears' = tears /\ failures' = failures
          /\ Writing("candidate") /\ Record("candidate", Pending("candidate"))
          /\ \/ pc = "candidate" /\ pc' = "save"
             \/ pc = "replay candidate" /\ row = Rows /\ pc' = "trading"
             \/ pc = "replay candidate" /\ pc' = "replay baseline"
      BY <1>5 DEF RecordCandidate, faults, Writing, Rows
    <2>2. PICK b \in 0..Rows, c \in 0..Rows : Behind(b, c)
      BY <1>1, <2>1
    <2>3. /\ Reached("baseline", b) /\ Reached("candidate", c)
          /\ c <= b /\ Rows <= c + 1
          /\ pc = "candidate" => b = Rows
          /\ pc = "replay candidate" /\ row = Rows => b = Rows
      BY <2>2 DEF Behind
    <2>4. row \in 1..Rows /\ (pc = "candidate" => row = Rows)
      BY <2>1, PendingFacts DEF ShadowBase, AtRow, Ledgers
    <2>5. /\ row <= c => Reached("candidate", c)'
          /\ row = c + 1 => Reached("candidate", c + 1)'
          /\ row <= c \/ row = c + 1
          /\ Reached("baseline", b)'
      <3>1. tears = 0 /\ ~Oversold
        BY <1>1, <2>1
      <3>2. "candidate" # "baseline" /\ "baseline" \in Ledgers /\ "candidate" \in Ledgers
        BY DEF Ledgers
      <3>3. /\ row <= c => Reached("candidate", c)'
            /\ row = c + 1 => Reached("candidate", c + 1)'
            /\ row <= c \/ row = c + 1
            /\ \A m \in Ledgers, j \in 0..Rows : m # "candidate" /\ Reached(m, j) => Reached(m, j)'
        BY <2>1, <2>3, <3>1, <3>2, RecordReaches
      <3> QED BY <2>3, <3>2, <3>3
    <2>6. PICK d \in 0..Rows : /\ Reached("candidate", d)' /\ d <= b /\ Rows <= d + 1
                               /\ pc' \in {"trading", "save"} => d = Rows
      <3>1. CASE row <= c
        <4>1. pc' \in {"trading", "save"} => row = Rows
          BY <2>1, <2>4
        <4>2. row = Rows => c = Rows
          BY <1>0, <3>1
        <4> QED BY <2>3, <2>5, <3>1, <4>1, <4>2
      <3>2. CASE row = c + 1
        <4>1. c + 1 = Rows /\ row = Rows
          <5>1. PICK n \in Nat : n = Rows
            BY <1>0
          <5>2. Rows <= c + 1
            BY <2>3
          <5>3. row \in 1..n
            BY <2>4, <5>1
          <5> QED BY <3>2, <5>1, <5>2, <5>3
        <4>2. b = Rows
          BY <2>1, <2>3, <4>1
        <4>3. c + 1 \in 0..Rows /\ c + 1 <= b /\ Rows <= (c + 1) + 1
          BY <1>0, <4>1, <4>2
        <4> QED BY <2>5, <3>2, <4>1, <4>3
      <3> QED BY <2>5, <3>1, <3>2
    <2>7. Rows' = Rows
      BY <2>1 DEF Rows
    <2>8. Behind(b, d)'
      BY <1>0, <2>1, <2>5, <2>6, <2>7 DEF Behind
    <2> QED BY <2>7, <2>8
  <1>6. ASSUME NEW r \in Row, Commit(r) PROVE (\E b, c \in 0..Rows : Behind(b, c))'
    <2>1. /\ pc = "trading" /\ pc' = "baseline" /\ file' = file /\ tears' = tears
          /\ failures' = failures /\ orders' = Append(orders, r)
      BY <1>6 DEF Commit, faults
    <2>2. tears = 0 /\ failures = 0 /\ ~Oversold
      BY <1>0, <1>6, <2>1, OversoldStays
    <2>3. PICK b \in 0..Rows, c \in 0..Rows : Behind(b, c)
      BY <2>2 DEF FollowsOrders, Undisturbed
    <2>4. b = Rows /\ c = Rows /\ Reached("baseline", Rows) /\ Reached("candidate", Rows)
      BY <1>0, <2>1, <2>3 DEF Behind
    <2>5. Rows' = Rows + 1
      BY <1>0, <2>1 DEF Rows
    <2>6. Ideal(orders')[Rows] = Ideal(orders)[Rows]
      <3>1. Rows \in 0..Len(orders)
        BY <1>0
      <3> QED BY <1>0, <2>1, <3>1, IdealAppend
    <2>7. PICK n \in Nat : n = Rows
      BY <1>0
    <2>8. Load(file'["baseline"]) = Ideal(orders')[n]["baseline"]
          /\ Load(file'["candidate"]) = Ideal(orders')[n]["candidate"]
      BY <2>1, <2>4, <2>6, <2>7 DEF Reached
    <2>9. Behind(n, n)'
      BY <2>1, <2>5, <2>7, <2>8 DEF Behind, Reached
    <2>10. n \in 0..Rows'
      BY <2>5, <2>7
    <2> QED BY <2>9, <2>10
  <1>7. ASSUME NEW t \in Tickers, Entry(t) \/ Exit(t)
        PROVE  (\E b, c \in 0..Rows : Behind(b, c))'
    <2>1. PICK r : Commit(r) /\ r = orders'[Len(orders')]
      <3>1. \E r : Commit(r)
        BY <1>7 DEF Entry, Exit
      <3> QED BY <1>0, <3>1 DEF Commit
    <2>2. r \in Row
      <3>1. ShadowBase'
        BY ShadowBaseStep
      <3>2. orders' \in Seq(Row) /\ Len(orders') = Len(orders) + 1
        BY <1>0, <2>1, <3>1 DEF ShadowBase, OrdersSound, Commit
      <3> QED BY <1>0, <2>1, <3>2
    <2> QED BY <1>6, <2>1, <2>2
  <1>8. CASE Save
    BY <1>2, <1>8 DEF Save, faults
  <1>9. CASE FillFails
    BY <1>0, <1>9 DEF FillFails
  <1>10. CASE FinishCycle
    BY <1>2, <1>10 DEF FinishCycle, faults
  <1>11. CASE Die
    BY <1>2, <1>11 DEF Die, Died
  <1>12. ASSUME NEW l \in Ledgers, Tear(l) PROVE FALSE
    BY <1>0, <1>12 DEF Tear
  <1>13. CASE UNCHANGED shadowVars
    BY <1>2, <1>13 DEF shadowVars
  <1> QED BY <1>3, <1>4, <1>5, <1>7, <1>8, <1>9, <1>10, <1>11, <1>12, <1>13 DEF ShadowNext

\* Once a cycle trades, the ledgers in memory are those of an uninterrupted run.
LEMMA TradingBooks ==
    ASSUME ShadowBase, Rebuilt, FollowsOrders, Undisturbed, pc = "trading"
    PROVE  book = Ideal(orders)[Rows]
  <1>1. Rows \in Nat /\ Rows = Len(orders)
    BY DEF ShadowBase, OrdersSound, Rows
  <1>2. PICK b \in 0..Rows, c \in 0..Rows : Behind(b, c)
    BY DEF FollowsOrders
  <1>3. b = Rows /\ c = Rows /\ Reached("baseline", b) /\ Reached("candidate", c)
    BY <1>1, <1>2 DEF Behind
  <1>4. PICK books : books = Ideal(orders)[Rows]
    OBVIOUS
  <1>5. \A l \in Ledgers : book[l] = books[l]
    BY <1>3, <1>4 DEF Reached, Rebuilt, Undisturbed, Ledgers
  <1>6. books = [l \in Ledgers |-> books[l]]
    <2>1. /\ Ideal(orders)[0] = NoBooks
          /\ \A j \in 1..Rows : Ideal(orders)[j] = Recorded(Ideal(orders)[j - 1], orders[j], j)
      BY <1>1, IdealFacts
    <2>2. CASE Rows = 0
      BY <1>4, <2>1, <2>2 DEF NoBooks
    <2>3. CASE Rows # 0
      <3>1. Rows \in 1..Rows
        BY <1>1, <2>3
      <3>2. books = Recorded(Ideal(orders)[Rows - 1], orders[Rows], Rows)
        BY <1>4, <2>1, <3>1
      <3> QED BY <3>2 DEF Recorded
    <2> QED BY <2>2, <2>3
  <1>7. book = [l \in Ledgers |-> book[l]]
    BY DEF ShadowBase, BooksSound
  <1> QED BY <1>4, <1>5, <1>6, <1>7

LEMMA FollowsAlways == ShadowSpec => [](ShadowBase /\ Rebuilt /\ FollowsOrders)
  <1>1. ShadowInit => ShadowBase /\ Rebuilt /\ FollowsOrders
    BY ShadowBaseInit, RebuiltInit, FollowsInit
  <1>2. ShadowBase /\ Rebuilt /\ FollowsOrders /\ [ShadowNext]_shadowVars
            => (ShadowBase /\ Rebuilt /\ FollowsOrders)'
    BY ShadowBaseStep, RebuiltStep, FollowsStep
  <1> QED BY <1>1, <1>2, PTL DEF ShadowSpec

(***************************************************************************)
(* _reconcile_durable_orders: whatever process deaths came between the     *)
(* steps of a fill, a cycle trades with the ledgers that one uninterrupted *)
(* run would have made of the committed rows, unless a line was torn, a    *)
(* transaction failed half-way or a row sold shares twice.                 *)
(***************************************************************************)
THEOREM BooksFollowOrders == ShadowSpec => []UndisturbedBooksMatch
  <1>1. ShadowBase /\ Rebuilt /\ FollowsOrders => UndisturbedBooksMatch
    BY TradingBooks DEF UndisturbedBooksMatch, BooksMatchOrders, Rows
  <1> QED BY <1>1, FollowsAlways, PTL

(***************************************************************************)
(* record_exit's rounding: the two ledgers of a pair are out of a ticker   *)
(* together and have realized equally many SELLs.                          *)
(***************************************************************************)
THEOREM PairsClose == ShadowSpec => []PairsCloseTogether
  <1>1. ASSUME ShadowBase, Rebuilt, FollowsOrders, Undisturbed, pc = "trading"
        PROVE  Together(book, Rows)
    <2>1. Rows \in 0..Rows
      BY <1>1 DEF ShadowBase, OrdersSound, Rows
    <2>2. Together(Ideal(orders)[Rows], Rows)
      BY <1>1, <2>1, IdealTogether DEF Undisturbed
    <2> QED BY <1>1, <2>2, TradingBooks
  <1>2. ShadowBase /\ Rebuilt /\ FollowsOrders => PairsCloseTogether
    BY <1>1 DEF PairsCloseTogether, Together
  <1> QED BY <1>2, FollowsAlways, PTL

=============================================================================
