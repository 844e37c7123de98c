---------------------------- MODULE BurnInProofs ----------------------------
(***************************************************************************)
(* Theorems about the burn-in script and its watchdog, for every number of *)
(* days, starts and faults.                                                *)
(***************************************************************************)
EXTENDS BurnIn, TLAPS

-----------------------------------------------------------------------------
(* Shells and their passes                                                 *)

Pass == [sees : BOOLEAN, eod : BOOLEAN]
MainSteps == {"off", "cycle", "decide", "discover", "evaluate", "propose", "gate", "sleep", "scan",
              "test", "remove", "make", "write", "manage", "release", "check"}
WatchSteps == {"off", "poll", "test", "remove", "make", "write", "manage", "release", "mark"}
LockSteps == {"remove", "make", "write", "manage", "release"}

\* A shell waits in "manage" for the pass it has started, or has died before its end;
\* only the loop of the last start lives; nothing of a later start is there.
ShellFits(a) ==
    /\ a[1] = "main" => pc[a] \in MainSteps
    /\ a[1] = "watch" => pc[a] \in WatchSteps
    /\ a[1] = "main" /\ pc[a] # "off" => a[2] = burner
    /\ a[2] > burner => pc[a] = "off" /\ pass[a] = None
    /\ pass[a] # None => pc[a] \in {"manage", "off"}
    /\ pc[a] = "manage" => pass[a] # None
Base ==
    /\ TypeOK
    /\ \A a \in Shells : ShellFits(a)

LEMMA ShellFacts ==
    /\ \A b \in 1..MaxStarts :
          /\ Main(b) \in Shells /\ Main(b)[1] = "main" /\ Main(b)[2] = b
          /\ Watch(b) \in Shells /\ Watch(b)[1] = "watch" /\ Watch(b)[2] = b
    /\ \A a \in Shells :
          /\ a[2] \in 1..MaxStarts
          /\ a = Main(a[2]) \/ a = Watch(a[2])
          /\ a[1] = "main" => a = Main(a[2])
          /\ a[1] = "watch" => a = Watch(a[2])
  BY DEF Shells, Main, Watch

LEMMA BaseInit == Init => Base
  <1> SUFFICES ASSUME Init PROVE Base
    OBVIOUS
  <1>1. TypeOK
    <2>1. /\ day \in 1..MaxDays /\ slot \in 1..Evening /\ burner \in 0..MaxStarts
          /\ tuned \in Nat /\ faults \in 0..MaxFaults /\ 0 \in 0..MaxStarts
      BY BurnInAssumption DEF Init, Evening
    <2>2. pc \in [Shells -> {"off"}] /\ pass \in [Shells -> {None}]
      BY DEF Init
    <2>3. lock \in [dir : BOOLEAN, pid : 0..MaxStarts]
      BY <2>1 DEF Init
    <2>4. {held, skipped, usurped} \subseteq BOOLEAN /\ {marked, fetched, discovered,
              late} \subseteq BOOLEAN
      BY DEF Init
    <2> QED BY <2>1, <2>2, <2>3, <2>4 DEF TypeOK
  <1>2. \A a \in Shells : ShellFits(a)
    BY DEF Init, ShellFits, MainSteps, WatchSteps
  <1> QED BY <1>1, <1>2 DEF Base

\* A step that moves one shell keeps the shells in order if it keeps that one.
LEMMA OneMoves ==
    ASSUME Base, NEW a \in Shells, burner' = burner,
           \A c \in Shells \ {a} : pc'[c] = pc[c] /\ pass'[c] = pass[c],
           ShellFits(a)'
    PROVE  \A c \in Shells : ShellFits(c)'
  BY DEF Base, ShellFits

\* A loop that ends takes its watchdog with it; their passes work on.
LEMMA ExitFits ==
    ASSUME Base, NEW b \in 1..MaxStarts, Exit(b), burner' = burner,
           \A c \in Shells : pass'[c] = pass[c] \/ (c = Main(b) /\ pass'[c] = None)
    PROVE  /\ pc' \in [Shells -> MainSteps \cup WatchSteps]
           /\ \A c \in Shells : ShellFits(c)'
  <1>1. \A c \in Shells : pc'[c] = pc[c] \/ pc'[c] = "off"
    BY ShellFacts DEF Exit, Base, TypeOK
  <1>2. \A c \in Shells : ShellFits(c)'
    <2> SUFFICES ASSUME NEW c \in Shells PROVE ShellFits(c)'
      OBVIOUS
    <2>1. ShellFits(c)
      BY DEF Base
    <2>2. CASE pc'[c] = "off"
      BY <2>1, <2>2 DEF ShellFits, MainSteps, WatchSteps
    <2>3. CASE pc'[c] # "off"
      <3>1. pc'[c] = pc[c] /\ c # Main(b)
        BY <1>1, <2>3, ShellFacts DEF Exit, Base, TypeOK
      <3> QED BY <2>1, <3>1 DEF ShellFits
    <2> QED BY <2>2, <2>3
  <1>3. pc' \in [Shells -> MainSteps \cup WatchSteps]
    BY ShellFacts DEF Exit, Base, TypeOK, MainSteps, WatchSteps
  <1> QED BY <1>2, <1>3

LEMMA FaultCount == Base /\ (Fault \/ UNCHANGED faults) => faults' \in 0..MaxFaults
  BY BurnInAssumption DEF Base, TypeOK, Fault

LEMMA LoopStepBase ==
    ASSUME Base, NEW b \in 1..MaxStarts, LoopStep(b) PROVE Base'
  <1> DEFINE a == Main(b)
  <1>0. /\ a \in Shells /\ a[1] = "main" /\ a[2] = b /\ MaxFaults \in Nat
        /\ pc \in [Shells -> MainSteps \cup WatchSteps]
    BY ShellFacts, BurnInAssumption DEF Base, TypeOK, MainSteps, WatchSteps
  \* The loop goes on and touches no pass.
  <1>a. ASSUME NEW step \in MainSteps \ {"off", "manage"}, Goto(a, step), pc[a] # "off",
               pc[a] # "manage", UNCHANGED <<burner, pass>>
        PROVE  pc' \in [Shells -> MainSteps \cup WatchSteps] /\ \A c \in Shells : ShellFits(c)'
    <2>1. pc' \in [Shells -> MainSteps \cup WatchSteps] /\ pc'[a] = step
      BY <1>0, <1>a DEF Goto
    <2>2. \A c \in Shells \ {a} : pc'[c] = pc[c]
      BY <1>0, <1>a DEF Goto
    <2>3. ShellFits(a)'
      BY <1>0, <1>a, <2>1 DEF ShellFits, Base
    <2> QED BY <1>0, <1>a, <2>1, <2>2, <2>3, OneMoves
  <1>1. CASE Fetch(b)
    <2>a. fetched' \in BOOLEAN
      BY <1>1 DEF Fetch, Base, TypeOK
    <2>b. Fault \/ UNCHANGED faults
      BY <1>1 DEF Fetch
    <2>1. fetched' \in BOOLEAN /\ faults' \in 0..MaxFaults
      BY <2>a, <2>b, FaultCount
    <2>2. UNCHANGED <<clock, books, burner, pass, lock, marked, discovered, tuned, late, usurped>>
      BY <1>1 DEF Fetch
    <2>3. pc' \in [Shells -> MainSteps \cup WatchSteps] /\ \A c \in Shells : ShellFits(c)'
      BY <1>1, <1>a, <2>2, ExitFits DEF Fetch, At, MainSteps
    <2> QED BY <2>1, <2>2, <2>3 DEF Base, TypeOK, clock, books, MainSteps, WatchSteps
  <1>2. CASE Discover(b)
    <2>1. UNCHANGED <<clock, books, burner, pass, lock, marked, fetched, tuned, usurped, faults>>
          /\ discovered' \in BOOLEAN /\ late' \in BOOLEAN
      BY <1>2 DEF Discover, Base, TypeOK
    <2>2. pc' \in [Shells -> MainSteps \cup WatchSteps] /\ \A c \in Shells : ShellFits(c)'
      BY <1>2, <1>a, <2>1 DEF Discover, At, MainSteps
    <2> QED BY <2>1, <2>2 DEF Base, TypeOK, clock, books, MainSteps, WatchSteps
  <1>3. CASE Evaluate(b)
    <2>1. UNCHANGED <<clock, books, burner, pass, lock, marked, fetched, discovered, late, usurped,
                    faults>>
          /\ tuned' = tuned + 1
      BY <1>3 DEF Evaluate
    <2>2. pc' \in [Shells -> MainSteps \cup WatchSteps] /\ \A c \in Shells : ShellFits(c)'
      BY <1>3, <1>a, <2>1 DEF Evaluate, At, MainSteps
    <2> QED BY <2>1, <2>2 DEF Base, TypeOK, clock, books, MainSteps, WatchSteps
  <1>4. CASE Decide(b) \/ Propose(b) \/ Gate(b) \/ Wake(b)
    <2>1. UNCHANGED <<clock, books, files, burner, pass, lock, usurped, faults>>
      BY <1>4 DEF Decide, Propose, Gate, Wake
    <2>2. pc' \in [Shells -> MainSteps \cup WatchSteps] /\ \A c \in Shells : ShellFits(c)'
      BY <1>4, <1>a, <2>1 DEF Decide, Propose, Gate, Wake, At, MainSteps
    <2> QED BY <2>1, <2>2 DEF Base, TypeOK, clock, books, files, MainSteps, WatchSteps
  <1>5. CASE Scan(b) \/ ScanHalted(b)
    <2>1. /\ UNCHANGED <<clock, files, burner, pass, lock, usurped>>
          /\ held' \in BOOLEAN /\ skipped' \in BOOLEAN /\ faults' \in 0..MaxFaults
      <3>1. Fault \/ UNCHANGED faults
        BY <1>5 DEF Scan, ScanHalted
      <3>2. held' \in BOOLEAN /\ skipped' \in BOOLEAN
        BY <1>5 DEF Scan, ScanHalted, Base, TypeOK
      <3>3. UNCHANGED <<clock, files, burner, pass, lock, usurped>>
        BY <1>5 DEF Scan, ScanHalted
      <3> QED BY <3>1, <3>2, <3>3, FaultCount
    <2>2. pc' \in [Shells -> MainSteps \cup WatchSteps] /\ \A c \in Shells : ShellFits(c)'
      BY <1>5, <1>a, <2>1 DEF Scan, ScanHalted, At, MainSteps
    <2> QED BY <2>1, <2>2 DEF Base, TypeOK, clock, files, MainSteps, WatchSteps
  <1>6. CASE Check(b)
    <2>1. /\ UNCHANGED <<clock, books, files, burner, pass, lock, usurped>>
          /\ faults' \in 0..MaxFaults
      BY <1>6, FaultCount DEF Check
    <2>2. pc' \in [Shells -> MainSteps \cup WatchSteps] /\ \A c \in Shells : ShellFits(c)'
      BY <1>6, <1>a, <2>1, ExitFits DEF Check, At, MainSteps
    <2> QED BY <2>1, <2>2 DEF Base, TypeOK, clock, books, files, MainSteps, WatchSteps
  <1> QED BY <1>1, <1>2, <1>3, <1>4, <1>5, <1>6 DEF LoopStep

LEMMA LockStepBase ==
    ASSUME Base, NEW a \in Shells, LockStep(a) PROVE Base'
  <1>0. /\ a[1] \in {"main", "watch"} /\ a[2] \in 1..MaxStarts /\ ShellFits(a)
        /\ pc \in [Shells -> MainSteps \cup WatchSteps]
    BY ShellFacts DEF Base, TypeOK, MainSteps, WatchSteps, Shells
  \* The shell goes on, and touches no pass.
  <1>a. ASSUME NEW step \in {"remove", "make", "write", "check", "poll", "mark"}, Goto(a, step),
               a[1] = "main" => step \in MainSteps, a[1] = "watch" => step \in WatchSteps,
               pc[a] \notin {"off", "manage"}, UNCHANGED <<burner, pass>>
        PROVE  pc' \in [Shells -> MainSteps \cup WatchSteps] /\ \A c \in Shells : ShellFits(c)'
    <2>1. pc' \in [Shells -> MainSteps \cup WatchSteps] /\ pc'[a] = step
      BY <1>0, <1>a DEF Goto
    <2>2. \A c \in Shells \ {a} : pc'[c] = pc[c]
      BY <1>0, <1>a DEF Goto
    <2>3. ShellFits(a)'
      BY <1>0, <1>a, <2>1 DEF ShellFits
    <2> QED BY <1>0, <1>a, <2>1, <2>2, <2>3, OneMoves
  <1>b. ASSUME Contend(a), pc[a] \notin {"off", "manage"}, UNCHANGED <<burner, pass>>
        PROVE  /\ pc' \in [Shells -> MainSteps \cup WatchSteps] /\ \A c \in Shells : ShellFits(c)'
               /\ skipped' \in BOOLEAN
    BY <1>0, <1>a, <1>b DEF Contend, Base, TypeOK, MainSteps, WatchSteps
  <1>c. {"remove", "make", "write"} \subseteq MainSteps \cap WatchSteps
    BY DEF MainSteps, WatchSteps
  <1>d. skipped \in BOOLEAN /\ usurped \in BOOLEAN /\ lock \in [dir : BOOLEAN, pid : 0..MaxStarts]
    BY DEF Base, TypeOK
  <1>e. [dir |-> FALSE, pid |-> 0] \in [dir : BOOLEAN, pid : 0..MaxStarts]
        /\ [dir |-> TRUE, pid |-> 0] \in [dir : BOOLEAN, pid : 0..MaxStarts]
    <2>1. 0 \in 0..MaxStarts
      BY BurnInAssumption
    <2> QED BY <2>1
  <1>1. CASE Test(a)
    <2>1. UNCHANGED <<clock, files, burner, pass, lock, held, faults>> /\ usurped' \in BOOLEAN
      BY <1>1, <1>d DEF Test
    <2>2. pc' \in [Shells -> MainSteps \cup WatchSteps] /\ (\A c \in Shells : ShellFits(c)')
          /\ skipped' \in BOOLEAN
      <3>1. pc[a] \notin {"off", "manage"}
        BY <1>1 DEF Test, At
      <3>2. CASE lock.dir /\ ~Stale
        BY <1>1, <1>b, <2>1, <3>1, <3>2 DEF Test
      <3>3. CASE ~(lock.dir /\ ~Stale)
        BY <1>1, <1>a, <1>c, <1>d, <2>1, <3>1, <3>3 DEF Test
      <3> QED BY <3>2, <3>3
    <2> QED BY <2>1, <2>2 DEF Base, TypeOK, clock, files, MainSteps, WatchSteps
  <1>2. CASE Remove(a)
    <2>1. /\ UNCHANGED <<clock, books, files, burner, pass, usurped, faults>>
          /\ lock' \in [dir : BOOLEAN, pid : 0..MaxStarts]
      BY <1>2, <1>e DEF Remove
    <2>2. pc' \in [Shells -> MainSteps \cup WatchSteps] /\ \A c \in Shells : ShellFits(c)'
      BY <1>2, <1>a, <1>c, <2>1 DEF Remove, At
    <2> QED BY <2>1, <2>2 DEF Base, TypeOK, clock, books, files, MainSteps, WatchSteps
  <1>3. CASE Make(a)
    <2>1. /\ UNCHANGED <<clock, files, burner, pass, held, usurped, faults>>
          /\ lock' \in [dir : BOOLEAN, pid : 0..MaxStarts]
      BY <1>3, <1>d, <1>e DEF Make
    <2>2. pc' \in [Shells -> MainSteps \cup WatchSteps] /\ (\A c \in Shells : ShellFits(c)')
          /\ skipped' \in BOOLEAN
      <3>1. pc[a] \notin {"off", "manage"}
        BY <1>3 DEF Make, At
      <3>2. CASE lock.dir
        BY <1>3, <1>b, <2>1, <3>1, <3>2 DEF Make
      <3>3. CASE ~lock.dir
        BY <1>3, <1>a, <1>c, <1>d, <2>1, <3>1, <3>3 DEF Make
      <3> QED BY <3>2, <3>3
    <2> QED BY <2>1, <2>2 DEF Base, TypeOK, clock, files, MainSteps, WatchSteps
  <1>4. CASE Write(a)
    <2>1. UNCHANGED <<clock, files, burner, held, usurped, faults>>
      BY <1>4 DEF Write
    <2>2. lock' \in [dir : BOOLEAN, pid : 0..MaxStarts]
      <3>1. a[2] \in 0..MaxStarts
        BY <1>0
      <3> QED BY <1>4, <1>d, <3>1 DEF Write
    <2>3. skipped' \in BOOLEAN
      BY <1>4, <1>d DEF Write
    <2>4. [sees |-> held, eod |-> Eod] \in Pass
      BY DEF Base, TypeOK, Pass, Eod
    <2>5. pass' \in [Shells -> {None} \cup Pass] /\ pass'[a] # None
      BY <1>4, <2>4, BurnInAssumption DEF Write, Base, TypeOK, Pass
    <2>6. pc' \in [Shells -> MainSteps \cup WatchSteps] /\ pc'[a] = "manage"
      BY <1>0, <1>4 DEF Write, Goto, MainSteps
    <2>7. pc[a] = "write" /\ \A c \in Shells \ {a} : pc'[c] = pc[c] /\ pass'[c] = pass[c]
      BY <1>0, <1>4 DEF Write, Goto, At, Base, TypeOK
    <2>8. ShellFits(a)'
      BY <1>0, <2>1, <2>5, <2>6, <2>7 DEF ShellFits, MainSteps, WatchSteps
    <2>9. \A c \in Shells : ShellFits(c)'
      BY <2>1, <2>7, <2>8, OneMoves
    <2> QED BY <2>1, <2>2, <2>3, <2>5, <2>6, <2>9 DEF Base, TypeOK, Pass, clock, files,
                                                      MainSteps, WatchSteps
  <1>5. CASE Release(a)
    <2>1. /\ UNCHANGED <<clock, books, files, burner, pass, usurped, faults>>
          /\ lock' \in [dir : BOOLEAN, pid : 0..MaxStarts]
      BY <1>5, <1>d, <1>e DEF Release
    <2>2. pc' \in [Shells -> MainSteps \cup WatchSteps] /\ \A c \in Shells : ShellFits(c)'
      BY <1>0, <1>5, <1>a, <2>1 DEF Release, At, MainSteps, WatchSteps
    <2> QED BY <2>1, <2>2 DEF Base, TypeOK, clock, books, files, MainSteps, WatchSteps
  <1> QED BY <1>1, <1>2, <1>3, <1>4, <1>5 DEF LockStep

LEMMA PassStepBase ==
    ASSUME Base, NEW a \in Shells, PassStep(a) PROVE Base'
  <1>0. /\ a[1] \in {"main", "watch"} /\ a[2] \in 1..MaxStarts /\ ShellFits(a)
        /\ pc \in [Shells -> MainSteps \cup WatchSteps]
        /\ pass \in [Shells -> {None} \cup Pass]
    BY ShellFacts DEF Base, TypeOK, MainSteps, WatchSteps, Shells, Pass
  <1>1. UNCHANGED <<clock, files, burner, lock, skipped, usurped>>
    BY DEF PassStep, PassEnds, PassIdles, PassFails, books
  <1>2. held' \in BOOLEAN
    <2>1. held \in BOOLEAN
      BY DEF Base, TypeOK
    <2> QED BY <2>1 DEF PassStep, PassEnds, PassIdles, PassFails, books
  <1>3. faults' \in 0..MaxFaults
    BY FaultCount DEF PassStep, PassEnds, PassIdles, PassFails
  <1>4. pass' = [pass EXCEPT ![a] = None] /\ pass[a] # None
    BY DEF PassStep, PassEnds, PassIdles, PassFails
  <1>5. pass' \in [Shells -> {None} \cup Pass] /\ pass'[a] = None
        /\ \A c \in Shells \ {a} : pass'[c] = pass[c]
    BY <1>0, <1>4
  <1>6. /\ pc' \in [Shells -> MainSteps \cup WatchSteps]
        /\ \A c \in Shells : ShellFits(c)'
    <2>1. CASE UNCHANGED pc /\ ~At(a, "manage")
      <3>1. ShellFits(a)'
        BY <1>0, <1>1, <1>5, <2>1 DEF ShellFits, At
      <3> QED BY <1>0, <1>1, <1>5, <2>1, <3>1, OneMoves
    <2>2. ASSUME NEW step \in {"release", "off"}, Goto(a, step), At(a, "manage")
          PROVE  /\ pc' \in [Shells -> MainSteps \cup WatchSteps]
                 /\ \A c \in Shells : ShellFits(c)'
      <3>1. /\ pc' \in [Shells -> MainSteps \cup WatchSteps] /\ pc'[a] = step
            /\ \A c \in Shells \ {a} : pc'[c] = pc[c]
        BY <1>0, <2>2 DEF Goto, MainSteps
      <3>2. ShellFits(a)'
        BY <1>0, <1>1, <1>5, <2>2, <3>1 DEF ShellFits, At, MainSteps, WatchSteps
      <3> QED BY <1>1, <1>5, <3>1, <3>2, OneMoves
    <2>3. CASE a[1] = "main" /\ Exit(a[2])
      <3>1. a = Main(a[2])
        BY <2>3, ShellFacts
      <3> QED BY <1>0, <1>1, <1>5, <2>3, <3>1, ExitFits
    <2>4. CASE PassEnds(a) \/ PassIdles(a)
      BY <2>1, <2>2, <2>4 DEF PassEnds, PassIdles
    <2>5. CASE PassFails(a)
      BY <2>1, <2>2, <2>3, <2>5 DEF PassFails
    <2> QED BY <2>4, <2>5 DEF PassStep
  <1> QED BY <1>1, <1>2, <1>3, <1>5, <1>6 DEF Base, TypeOK, Pass, clock, files, MainSteps,
                                              WatchSteps

LEMMA BaseStep == Base /\ [Next]_vars => Base'
  <1> SUFFICES ASSUME Base, [Next]_vars PROVE Base'
    OBVIOUS
  <1>0. /\ pc \in [Shells -> MainSteps \cup WatchSteps]
        /\ burner \in 0..MaxStarts /\ MaxStarts \in Nat
    BY BurnInAssumption DEF Base, TypeOK, MainSteps, WatchSteps
  <1>1. CASE Start
    <2> DEFINE m == Main(burner + 1)
               w == Watch(burner + 1)
    <2>1. UNCHANGED <<clock, files, pass, lock, held, usurped, faults>> /\ skipped' = FALSE
      BY <1>1 DEF Start
    <2>2. burner' = burner + 1 /\ burner' \in 1..MaxStarts /\ \A b \in 1..burner : ~Alive(b)
      BY <1>0, <1>1 DEF Start
    <2>3. m \in Shells /\ w \in Shells /\ m[1] = "main" /\ w[1] = "watch" /\ m[2] = burner'
          /\ w[2] = burner'
      BY <2>2, ShellFacts
    <2>4. pc' = [pc EXCEPT ![m] = "cycle", ![w] = "poll"]
      BY <1>1 DEF Start
    <2>5. /\ pc' \in [Shells -> MainSteps \cup WatchSteps] /\ pc'[m] = "cycle" /\ pc'[w] = "poll"
          /\ \A c \in Shells \ {m, w} : pc'[c] = pc[c]
      BY <1>0, <2>3, <2>4 DEF MainSteps, WatchSteps
    <2>6. ASSUME NEW c \in Shells PROVE ShellFits(c)'
      <3>1. ShellFits(c) /\ pass' = pass
        BY <2>1 DEF Base
      <3>2. CASE c \in {m, w}
        <4>1. pass[c] = None
          BY <1>0, <2>2, <2>3, <3>1, <3>2 DEF ShellFits
        <4> QED BY <1>0, <2>2, <2>3, <2>5, <3>1, <3>2, <4>1 DEF ShellFits, MainSteps, WatchSteps
      <3>3. CASE c \notin {m, w}
        <4>1. c[1] = "main" => pc[c] = "off"
          <5> SUFFICES ASSUME c[1] = "main", pc[c] # "off" PROVE FALSE
            OBVIOUS
          <5>1. c[2] = burner /\ c[2] \in 1..MaxStarts /\ c = Main(c[2])
            BY <3>1, ShellFacts DEF ShellFits
          <5> QED BY <1>0, <2>2, <5>1 DEF Alive, At
        <4>2. c[2] \in Int /\ (c[2] > burner' => c[2] > burner)
          BY <1>0, <2>2, ShellFacts
        <4> QED BY <2>5, <3>1, <3>3, <4>1, <4>2 DEF ShellFits
      <3> QED BY <3>2, <3>3
    <2>7. /\ {held', skipped', usurped'} \subseteq BOOLEAN
          /\ {marked', fetched', discovered', late'} \subseteq BOOLEAN
      BY <2>1 DEF Base, TypeOK, files
    <2>8. day' \in 1..MaxDays /\ slot' \in 1..Evening /\ tuned' \in Nat /\ faults' \in 0..MaxFaults
      BY <2>1 DEF Base, TypeOK, clock, files
    <2>9. /\ burner' \in 0..MaxStarts /\ pass' \in [Shells -> {None} \cup Pass]
          /\ lock' \in [dir : BOOLEAN, pid : 0..MaxStarts]
      BY <2>1, <2>2 DEF Base, TypeOK, Pass
    <2> QED BY <2>5, <2>6, <2>7, <2>8, <2>9 DEF Base, TypeOK, Pass, MainSteps, WatchSteps
  <1>2. CASE Tick
    <2>1. UNCHANGED <<books, burner, pc, pass, lock, usurped, faults>>
      BY <1>2 DEF Tick
    <2>2. day' \in 1..MaxDays /\ slot' \in 1..Evening /\ tuned' \in Nat
      BY <1>2, BurnInAssumption DEF Tick, Base, TypeOK, Evening, files
    <2>3. {marked', fetched', discovered', late'} \subseteq BOOLEAN
      BY <1>2 DEF Tick, Base, TypeOK, files
    <2>4. \A c \in Shells : ShellFits(c)'
      BY <2>1 DEF Base, ShellFits
    <2> QED BY <2>1, <2>2, <2>3, <2>4 DEF Base, TypeOK, books
  \* A watchdog polls or marks, a shell is killed.
  <1>a. ASSUME NEW a \in Shells, NEW step \in {"off", "poll", "test"}, Goto(a, step),
               step # "off" => a[1] = "watch", pc[a] \notin {"off", "manage"} \/ step = "off",
               UNCHANGED <<clock, books, fetched, discovered, tuned, late, burner, pass, lock,
                           usurped>>,
               marked' \in BOOLEAN, faults' \in 0..MaxFaults
        PROVE  Base'
    <2>1. /\ pc' \in [Shells -> MainSteps \cup WatchSteps] /\ pc'[a] = step
          /\ \A c \in Shells \ {a} : pc'[c] = pc[c]
      BY <1>0, <1>a DEF Goto, MainSteps, WatchSteps
    <2>2. ShellFits(a)'
      <3>1. ShellFits(a) /\ a[1] \in {"main", "watch"}
        BY DEF Base, Shells
      <3> QED BY <1>a, <2>1, <3>1 DEF ShellFits, MainSteps, WatchSteps
    <2>3. \A c \in Shells : ShellFits(c)'
      BY <1>a, <2>1, <2>2, OneMoves
    <2> QED BY <1>a, <2>1, <2>3 DEF Base, TypeOK, clock, books, MainSteps, WatchSteps
  <1>3. ASSUME NEW b \in 1..MaxStarts, Poll(b) PROVE Base'
    <2>1. marked' \in BOOLEAN /\ faults' \in 0..MaxFaults
      BY <1>3 DEF Poll, Base, TypeOK, files
    <2> QED BY <1>3, <1>a, <2>1, ShellFacts DEF Poll, At, files
  <1>4. ASSUME NEW b \in 1..MaxStarts, Mark(b) PROVE Base'
    <2>1. marked' \in BOOLEAN /\ faults' \in 0..MaxFaults
      BY <1>4 DEF Mark, Base, TypeOK
    <2> QED BY <1>4, <1>a, <2>1, ShellFacts DEF Mark, At
  <1>5. ASSUME NEW b \in 1..MaxStarts, Stop(b) PROVE Base'
    <2>1. UNCHANGED <<clock, books, files, burner, pass, lock, usurped>> /\ Exit(b) /\ Fault
      BY <1>5 DEF Stop
    <2>2. faults' \in 0..MaxFaults
      BY <2>1, FaultCount
    <2>3. pc' \in [Shells -> MainSteps \cup WatchSteps] /\ \A c \in Shells : ShellFits(c)'
      BY <2>1, ExitFits
    <2> QED BY <2>1, <2>2, <2>3 DEF Base, TypeOK, clock, books, files, MainSteps, WatchSteps
  <1>6. ASSUME NEW a \in Shells, Kill(a) PROVE Base'
    <2>1. marked' \in BOOLEAN /\ faults' \in 0..MaxFaults
      BY <1>6, FaultCount DEF Kill, Base, TypeOK, files
    <2> QED BY <1>6, <1>a, <2>1 DEF Kill, files
  <1>7. CASE UNCHANGED vars
    <2>1. \A c \in Shells : ShellFits(c)'
      BY <1>7 DEF vars, Base, ShellFits
    <2> QED BY <1>7, <2>1 DEF vars, clock, books, files, Base, TypeOK
  <1> QED
    BY <1>1, <1>2, <1>3, <1>4, <1>5, <1>6, <1>7, LoopStepBase, LockStepBase, PassStepBase DEF Next

-----------------------------------------------------------------------------
(* Who does what: a change of the state is the work of one action          *)

LEMMA WhoChanges ==
    ASSUME Base, [Next]_vars
    PROVE  /\ UNCHANGED clock \/ Tick
           /\ UNCHANGED tuned \/ Tick \/ \E b \in 1..MaxStarts : Evaluate(b)
           /\ UNCHANGED <<discovered, late>> \/ Tick \/ \E b \in 1..MaxStarts : Discover(b)
           /\ UNCHANGED marked \/ Tick \/ \E b \in 1..MaxStarts : Mark(b)
  <1>1. CASE \E b \in 1..MaxStarts : LoopStep(b)
    BY <1>1 DEF LoopStep, Fetch, Decide, Discover, Evaluate, Propose, Gate, Wake, Scan,
                ScanHalted, Check, files
  <1>2. CASE \E a \in Shells : LockStep(a)
    BY <1>2 DEF LockStep, Test, Remove, Make, Write, Release, files
  <1>3. CASE \E a \in Shells : PassStep(a)
    BY <1>3 DEF PassStep, PassEnds, PassIdles, PassFails, files
  <1>4. CASE \E b \in 1..MaxStarts : Poll(b) \/ Mark(b) \/ Stop(b)
    BY <1>4 DEF Poll, Mark, Stop, files
  <1>5. CASE Start \/ Tick \/ UNCHANGED vars \/ \E a \in Shells : Kill(a)
    BY <1>5 DEF Start, Kill, vars, files, clock
  <1> QED BY <1>1, <1>2, <1>3, <1>4, <1>5 DEF Next

\* Only Decide sends a loop to the discovery, only Discover sends it on to the tuning, and
\* only Poll sends a watchdog to the lock.
LEMMA WhoMoves ==
    ASSUME Base, [Next]_vars
    PROVE  /\ \A b \in 1..MaxStarts : pc'[Main(b)] = "evaluate" =>
                 pc[Main(b)] = "evaluate" \/ Discover(b)
           /\ \A b \in 1..MaxStarts : pc'[Main(b)] = "discover" =>
                 pc[Main(b)] = "discover" \/ Decide(b)
           /\ \A b \in 1..MaxStarts : pc'[Watch(b)] \notin {"off", "poll"} =>
                 pc[Watch(b)] \notin {"off", "poll"} \/ Poll(b)
  <1>0. pc \in [Shells -> MainSteps \cup WatchSteps]
    BY DEF Base, TypeOK, MainSteps, WatchSteps
  <1>a. ASSUME NEW b \in 1..MaxStarts, Exit(b)
        PROVE  \A c \in Shells : pc'[c] \in {pc[c], "off"}
    BY <1>0, <1>a DEF Exit
  <1>b. ASSUME NEW a \in Shells, NEW step, Goto(a, step)
        PROVE  \A c \in Shells : pc'[c] = IF c = a THEN step ELSE pc[c]
    BY <1>0, <1>b DEF Goto
  <1>1. ASSUME NEW b \in 1..MaxStarts, LoopStep(b)
        PROVE  \A c \in Shells : \/ pc'[c] \in {pc[c], "off"}
                                 \/ /\ c = Main(b)
                                    /\ pc'[c] = "evaluate" => Discover(b)
                                    /\ pc'[c] = "discover" => Decide(b)
    <2>0. Main(b) \in Shells
      BY ShellFacts
    <2>1. CASE Decide(b) \/ Discover(b)
      BY <1>b, <2>0, <2>1 DEF Decide, Discover
    <2>2. CASE Fetch(b) \/ Check(b)
      BY <1>a, <1>b, <2>0, <2>2 DEF Fetch, Check
    <2>3. CASE Evaluate(b) \/ Propose(b) \/ Gate(b) \/ Wake(b) \/ Scan(b) \/ ScanHalted(b)
      <3>1. PICK step \in MainSteps \ {"discover", "evaluate"} : Goto(Main(b), step)
        BY <2>3 DEF Evaluate, Propose, Gate, Wake, Scan, ScanHalted, MainSteps
      <3> QED BY <1>b, <2>0, <3>1
    <2> QED BY <1>1, <2>1, <2>2, <2>3 DEF LoopStep
  <1>2. ASSUME NEW a \in Shells, LockStep(a)
        PROVE  /\ pc[a] \notin {"off", "poll"} /\ pc'[a] \notin {"discover", "evaluate"}
               /\ \A c \in Shells \ {a} : pc'[c] = pc[c]
    BY <1>b, <1>2 DEF LockStep, Test, Remove, Make, Write, Release, Contend, At
  <1>3. ASSUME NEW a \in Shells, PassStep(a)
        PROVE  \/ \A c \in Shells : pc'[c] \in {pc[c], "off"}
               \/ /\ pc[a] = "manage" /\ pc'[a] \in {"release", "off"}
                  /\ \A c \in Shells \ {a} : pc'[c] = pc[c]
    <2>0. a[2] \in 1..MaxStarts
      BY ShellFacts
    <2>1. \/ UNCHANGED pc \/ Exit(a[2])
          \/ At(a, "manage") /\ (Goto(a, "release") \/ Goto(a, "off"))
      BY <1>3 DEF PassStep, PassEnds, PassIdles, PassFails
    <2> QED BY <1>a, <1>b, <2>0, <2>1 DEF At
  <1>4. CASE Start
    <2>1. \A c \in Shells : pc'[c] \in {pc[c], "cycle", "poll"}
                            /\ (pc'[c] = "cycle" => c = Main(burner + 1) \/ pc[c] = "cycle")
      BY <1>0, <1>4 DEF Start
    <2>2. \A b \in 1..MaxStarts : pc'[Watch(b)] \in {pc[Watch(b)], "poll"}
      <3>1. burner + 1 \in 1..MaxStarts
        BY <1>4, BurnInAssumption DEF Start, Base, TypeOK
      <3>2. \A b \in 1..MaxStarts : Watch(b) # Main(burner + 1) /\ Watch(b) \in Shells
        BY <3>1, ShellFacts
      <3> QED BY <1>0, <1>4, <3>2 DEF Start
    <2> QED BY <2>1, <2>2, ShellFacts
  <1>5. ASSUME NEW b \in 1..MaxStarts, Poll(b) \/ Mark(b) \/ Stop(b)
        PROVE  \A c \in Shells : pc'[c] \in {pc[c], "off", "poll"}
                                 \/ (c = Watch(b) /\ Poll(b) /\ pc'[c] = "test")
    <2>0. Watch(b) \in Shells
      BY ShellFacts
    <2> QED BY <1>a, <1>b, <1>5, <2>0 DEF Poll, Mark, Stop
  <1>6. ASSUME NEW a \in Shells, Kill(a) PROVE \A c \in Shells : pc'[c] \in {pc[c], "off"}
    BY <1>b, <1>6 DEF Kill
  <1>7. CASE Tick \/ UNCHANGED vars
    BY <1>7 DEF Tick, vars
  <1> DEFINE Moves ==
               /\ \A b \in 1..MaxStarts : pc'[Main(b)] = "evaluate" =>
                     pc[Main(b)] = "evaluate" \/ Discover(b)
               /\ \A b \in 1..MaxStarts : pc'[Main(b)] = "discover" =>
                     pc[Main(b)] = "discover" \/ Decide(b)
               /\ \A b \in 1..MaxStarts : pc'[Watch(b)] \notin {"off", "poll"} =>
                     pc[Watch(b)] \notin {"off", "poll"} \/ Poll(b)
  <1>11. ASSUME NEW b \in 1..MaxStarts, LoopStep(b) PROVE Moves
    BY <1>1, <1>11, ShellFacts
  <1>12. ASSUME NEW a \in Shells, LockStep(a) PROVE Moves
    BY <1>2, <1>12, ShellFacts
  <1>13. ASSUME NEW a \in Shells, PassStep(a) PROVE Moves
    BY <1>3, <1>13, ShellFacts
  <1>15. ASSUME NEW b \in 1..MaxStarts, Poll(b) \/ Mark(b) \/ Stop(b) PROVE Moves
    <2>1. \A c \in 1..MaxStarts : Main(c) \in Shells /\ Main(c) # Watch(b)
      BY ShellFacts
    <2>2. ASSUME NEW c \in 1..MaxStarts, pc'[Main(c)] \in {"evaluate", "discover"}
          PROVE  pc'[Main(c)] = pc[Main(c)]
      <3>1. pc'[Main(c)] \in {pc[Main(c)], "off", "poll"}
        BY <1>5, <1>15, <2>1
      <3> QED BY <2>2, <3>1
    <2>3. \A c \in 1..MaxStarts : pc'[Watch(c)] \notin {"off", "poll"} =>
              pc[Watch(c)] \notin {"off", "poll"} \/ Poll(c)
      BY <1>5, <1>15, ShellFacts
    <2> QED BY <2>2, <2>3
  <1>16. ASSUME NEW a \in Shells, Kill(a) PROVE Moves
    BY <1>6, <1>16, ShellFacts
  <1> QED BY <1>4, <1>7, <1>11, <1>12, <1>13, <1>15, <1>16 DEF Next

-----------------------------------------------------------------------------
(* The nightly tuning                                                      *)

\* How often the tuning may run on this day.
Tunings == IF late THEN 2 ELSE 1

\* The tuning of a day is counted only when the day's date is written, a loop that is about
\* to tune finds it written and a tuning left, and a loop that discovers once more is the
\* first to do so after midday.
Tuning ==
    /\ tuned > 0 \/ late => discovered
    /\ late => slot > Midday
    /\ tuned <= Tunings
    /\ \A b \in 1..MaxStarts : pc[Main(b)] = "evaluate" => discovered /\ tuned < Tunings
    /\ \A b \in 1..MaxStarts : pc[Main(b)] = "discover" /\ discovered => ~late /\ slot >= Midday

\* The watchdog wants the lock, has a pass and sets its marker from 15:55 on only.
Watches ==
    /\ \A b \in 1..MaxStarts : pc[Watch(b)] \notin {"off", "poll"} => Eod
    /\ marked => Eod

\* From 15:55 on it stays so until midnight.
LEMMA EodStays == Base /\ Tick /\ Eod => Eod' \/ slot = Evening
  BY DEF Base, TypeOK, Tick, Eod, Evening, Close

\* One loop lives.
LEMMA OneLoop ==
    ASSUME Base, NEW b \in 1..MaxStarts, NEW c \in 1..MaxStarts,
           pc[Main(b)] # "off", pc[Main(c)] # "off"
    PROVE  b = c
  BY ShellFacts DEF Base, ShellFits

LEMMA TuningStep == Base /\ Tuning /\ [Next]_vars => Tuning'
  <1> SUFFICES ASSUME Base, Tuning, [Next]_vars PROVE Tuning'
    OBVIOUS
  <1>0. /\ pc \in [Shells -> MainSteps \cup WatchSteps] /\ slot \in 1..6 /\ tuned \in Nat
        /\ late \in BOOLEAN /\ discovered \in BOOLEAN
    BY DEF Base, TypeOK, MainSteps, WatchSteps, Evening
  <1>b. ASSUME NEW b \in 1..MaxStarts, NEW step, Goto(Main(b), step), pc[Main(b)] # "off",
               step # "off"
        PROVE  \A c \in 1..MaxStarts : pc'[Main(c)] = IF c = b THEN step ELSE "off"
    <2>1. ASSUME NEW c \in 1..MaxStarts PROVE pc'[Main(c)] = IF c = b THEN step ELSE "off"
      <3>1. CASE c = b
        BY <1>0, <1>b, <3>1, ShellFacts DEF Goto
      <3>2. CASE c # b
        <4>1. pc[Main(c)] = "off"
          BY <1>b, <3>2, OneLoop
        <4>2. Main(c) # Main(b)
          BY <3>2, ShellFacts
        <4> QED BY <1>0, <1>b, <3>2, <4>1, <4>2, ShellFacts DEF Goto
      <3> QED BY <3>1, <3>2
    <2> QED BY <2>1
  <1>1. CASE Tick
    <2>1. pc' = pc
      BY <1>1 DEF Tick
    <2>2. CASE slot < Evening
      <3>1. slot' = slot + 1 /\ UNCHANGED <<discovered, tuned, late>>
        BY <1>1, <2>2 DEF Tick, files
      <3> QED BY <1>0, <2>1, <3>1 DEF Tuning, Tunings, Midday
    <2>3. CASE ~(slot < Evening)
      <3>1. tuned' = 0 /\ late' = FALSE /\ discovered' = FALSE
        BY <1>1, <2>3 DEF Tick
      <3>2. \A b \in 1..MaxStarts : pc[Main(b)] # "evaluate"
        BY <1>1, <2>3 DEF Tick
      <3> QED BY <2>1, <3>1, <3>2 DEF Tuning, Tunings
    <2> QED BY <2>2, <2>3
  <1>2. ASSUME NEW b \in 1..MaxStarts, Decide(b) PROVE Tuning'
    <2>1. UNCHANGED <<slot, discovered, tuned, late>> /\ pc[Main(b)] # "off"
      BY <1>2 DEF Decide, clock, files, At
    <2>2. PICK step \in {"discover", "gate"} :
              Goto(Main(b), step) /\ (step = "discover" /\ discovered => slot = Midday)
      BY <1>2 DEF Decide
    <2>3. \A c \in 1..MaxStarts : pc'[Main(c)] \in {step, "off"}
      BY <1>b, <2>1, <2>2
    <2>4. step = "discover" /\ discovered => ~late /\ slot >= Midday
      BY <1>0, <2>2 DEF Tuning, Midday
    <2> QED BY <2>1, <2>2, <2>3, <2>4 DEF Tuning, Tunings
  <1>5. ASSUME NEW b \in 1..MaxStarts, Discover(b) PROVE Tuning'
    <2>1. /\ UNCHANGED <<slot, tuned>> /\ discovered' = TRUE
          /\ late' = (late \/ (discovered /\ slot # Midday))
          /\ pc[Main(b)] = "discover"
      BY <1>5 DEF Discover, clock, At
    <2>2. PICK step \in {"evaluate", "gate"} :
              Goto(Main(b), step) /\ (step = "evaluate" <=> slot # Midday)
      BY <1>5 DEF Discover
    <2>3. \A c \in 1..MaxStarts : pc'[Main(c)] \in {step, "off"}
      BY <1>b, <2>1, <2>2
    <2>4. discovered => ~late /\ slot >= Midday
      BY <2>1 DEF Tuning
    <2>5. tuned <= 1 /\ (~discovered => tuned = 0)
      BY <1>0, <2>4 DEF Tuning, Tunings
    <2>6. late' => slot > Midday
      BY <1>0, <2>1, <2>4 DEF Tuning, Midday
    <2>7. tuned' <= Tunings' /\ (step = "evaluate" => tuned' < Tunings')
      BY <1>0, <2>1, <2>2, <2>5 DEF Tunings
    <2> QED BY <2>1, <2>2, <2>3, <2>6, <2>7 DEF Tuning
  <1>3. ASSUME NEW b \in 1..MaxStarts, Evaluate(b) PROVE Tuning'
    <2>1. /\ tuned < Tunings /\ discovered /\ tuned' = tuned + 1
          /\ UNCHANGED <<slot, discovered, late>> /\ pc[Main(b)] = "evaluate"
      BY <1>3 DEF Evaluate, At, Tuning, clock
    <2>2. \A c \in 1..MaxStarts : pc'[Main(c)] \in {"propose", "off"}
      BY <1>3, <1>b, <2>1 DEF Evaluate
    <2>3. tuned' <= Tunings'
      BY <1>0, <2>1 DEF Tunings
    <2> QED BY <2>1, <2>2, <2>3 DEF Tuning
  <1>4. CASE ~Tick /\ ~(\E b \in 1..MaxStarts : Decide(b) \/ Discover(b) \/ Evaluate(b))
    <2>1. UNCHANGED <<slot, tuned, discovered, late>>
      BY <1>4, WhoChanges DEF clock
    <2>2. \A b \in 1..MaxStarts : pc'[Main(b)] \in {"discover", "evaluate"}
              => pc'[Main(b)] = pc[Main(b)]
      BY <1>4, WhoMoves
    <2> QED BY <2>1, <2>2 DEF Tuning, Tunings
  <1> QED BY <1>1, <1>2, <1>3, <1>4, <1>5

LEMMA WatchesStep == Base /\ Watches /\ [Next]_vars => Watches'
  <1> SUFFICES ASSUME Base, Watches, [Next]_vars PROVE Watches'
    OBVIOUS
  <1>1. CASE Tick
    <2>1. pc' = pc
      BY <1>1 DEF Tick
    <2>2. CASE slot < Evening
      <3>1. marked' = marked
        BY <1>1, <2>2 DEF Tick, files
      <3>2. Eod => Eod'
        BY <1>1, <2>2, EodStays DEF Evening, Base, TypeOK
      <3> QED BY <2>1, <3>1, <3>2 DEF Watches
    <2>3. CASE ~(slot < Evening)
      <3>1. ~marked' /\ \A b \in 1..MaxStarts : pc[Watch(b)] \in {"off", "poll"}
        BY <1>1, <2>3 DEF Tick, At
      <3> QED BY <2>1, <3>1 DEF Watches
    <2> QED BY <2>2, <2>3
  <1>2. CASE ~Tick
    <2>1. Eod' <=> Eod
      BY <1>2, WhoChanges DEF Eod, clock
    <2>2. \A b \in 1..MaxStarts : pc'[Watch(b)] \notin {"off", "poll"} => Eod
      BY WhoMoves DEF Watches, Poll
    <2>3. marked' => Eod
      BY <1>2, WhoChanges DEF Watches, Mark, At
    <2> QED BY <2>1, <2>2, <2>3 DEF Watches
  <1> QED BY <1>1, <1>2

LEMMA TuningImplied == Base /\ Tuning /\ Watches => TuningApart
  <1> SUFFICES ASSUME Base, Tuning, Watches PROVE TuningApart
    OBVIOUS
  <1>1. tuned <= IF late THEN 2 ELSE 1
    BY DEF Tuning, Tunings
  <1>2. ASSUME NEW b \in 1..MaxStarts, NEW a \in Shells,
               pc[Main(b)] \in {"evaluate", "propose"}, At(a, "manage")
        PROVE  Eod
    <2>1. ShellFits(a) /\ ShellFits(Main(b)) /\ Main(b)[1] = "main" /\ Main(b)[2] = b
      BY ShellFacts DEF Base
    <2>2. CASE a = Main(a[2])
      BY <1>2, <2>1, <2>2, ShellFacts DEF ShellFits, At
    <2>3. CASE a = Watch(a[2])
      BY <1>2, <2>3, ShellFacts DEF Watches, At
    <2> QED BY <2>2, <2>3, ShellFacts
  <1> QED BY <1>1, <1>2 DEF TuningApart

-----------------------------------------------------------------------------
(* The lock                                                                *)

Holds(a) == pc[a] \in {"write", "manage", "release"} \/ pass[a] # None

\* As long as no lock was taken that was needed: who has made the lock has it for
\* itself, and who removes a stale one is the only one that wants it.
Alone ==
    /\ \A a \in Shells : Holds(a) => lock.dir
    /\ \A a, c \in Shells : Holds(a) /\ Holds(c) => a = c
    /\ \A a \in Shells : pc[a] = "remove" =>
          lock.dir /\ \A c \in Shells \ {a} : pc[c] \notin LockSteps /\ pass[c] = None
Locked == usurped \/ Alone

\* What is not a step under the lock leaves it alone, and nobody gets nearer to it.
LEMMA Outside ==
    ASSUME Base, [Next]_vars, ~(\E a \in Shells : LockStep(a))
    PROVE  /\ lock' = lock /\ usurped' = usurped
           /\ \A a \in Shells :
                 /\ pass'[a] \in {pass[a], None}
                 /\ pc'[a] \in LockSteps =>
                       pc'[a] = pc[a] \/ (pc[a] = "manage" /\ pc'[a] = "release")
  <1>0. pc \in [Shells -> MainSteps \cup WatchSteps] /\ pass \in [Shells -> {None} \cup Pass]
    BY DEF Base, TypeOK, MainSteps, WatchSteps, Pass
  <1>a. ASSUME NEW b \in 1..MaxStarts, Exit(b)
        PROVE  \A c \in Shells : pc'[c] \in {pc[c], "off"}
    BY <1>0, <1>a DEF Exit
  <1>b. ASSUME NEW a \in Shells, NEW step, Goto(a, step)
        PROVE  \A c \in Shells : pc'[c] = IF c = a THEN step ELSE pc[c]
    BY <1>0, <1>b DEF Goto
  <1> DEFINE Aside == \A a \in Shells : pc'[a] \in LockSteps =>
                       pc'[a] = pc[a] \/ (pc[a] = "manage" /\ pc'[a] = "release")
             Quiet == lock' = lock /\ usurped' = usurped /\ Aside
                      /\ \A a \in Shells : pass'[a] \in {pass[a], None}
  <1>1. ASSUME NEW b \in 1..MaxStarts, LoopStep(b) PROVE Quiet
    <2>1. lock' = lock /\ usurped' = usurped /\ pass' = pass
      BY <1>1 DEF LoopStep, Fetch, Decide, Discover, Evaluate, Propose, Gate, Wake, Scan,
                  ScanHalted, Check
    <2>2. Exit(b) \/ \E step \in MainSteps \ LockSteps : Goto(Main(b), step)
      BY <1>1 DEF LoopStep, Fetch, Decide, Discover, Evaluate, Propose, Gate, Wake, Scan,
                  ScanHalted, Check,
                  MainSteps, LockSteps
    <2>3. Aside
      BY <1>a, <1>b, <2>2, ShellFacts DEF LockSteps
    <2> QED BY <2>1, <2>3
  <1>2. ASSUME NEW a \in Shells, PassStep(a) PROVE Quiet
    <2>0. a[2] \in 1..MaxStarts
      BY ShellFacts
    <2>1. lock' = lock /\ usurped' = usurped /\ pass' = [pass EXCEPT ![a] = None]
      BY <1>2 DEF PassStep, PassEnds, PassIdles, PassFails
    <2>2. \/ UNCHANGED pc \/ Exit(a[2])
          \/ At(a, "manage") /\ (Goto(a, "release") \/ Goto(a, "off"))
      BY <1>2 DEF PassStep, PassEnds, PassIdles, PassFails
    <2>3. Aside
      BY <1>a, <1>b, <2>0, <2>2 DEF At, LockSteps
    <2>4. \A c \in Shells : pass'[c] \in {pass[c], None}
      BY <1>0, <2>1
    <2> QED BY <2>1, <2>3, <2>4
  <1>3. CASE Start
    <2>1. \A c \in Shells : pc'[c] \in {pc[c], "cycle", "poll"}
      BY <1>0, <1>3 DEF Start
    <2>2. lock' = lock /\ usurped' = usurped /\ pass' = pass
      BY <1>3 DEF Start
    <2> QED BY <2>1, <2>2 DEF LockSteps
  <1>4. ASSUME NEW b \in 1..MaxStarts, Poll(b) \/ Mark(b) \/ Stop(b) PROVE Quiet
    <2>1. lock' = lock /\ usurped' = usurped /\ pass' = pass
      BY <1>4 DEF Poll, Mark, Stop
    <2>2. Exit(b) \/ Goto(Watch(b), "test") \/ Goto(Watch(b), "poll")
      BY <1>4 DEF Poll, Mark, Stop
    <2>3. Aside
      BY <1>a, <1>b, <2>2, ShellFacts DEF LockSteps
    <2> QED BY <2>1, <2>3
  <1>5. ASSUME NEW a \in Shells, Kill(a) PROVE Quiet
    BY <1>b, <1>5 DEF Kill, LockSteps
  <1>6. CASE Tick \/ UNCHANGED vars
    BY <1>6 DEF Tick, vars
  <1> QED BY <1>1, <1>2, <1>3, <1>4, <1>5, <1>6 DEF Next

LEMMA LockedStep == Base /\ Locked /\ [Next]_vars => Locked'
  <1> SUFFICES ASSUME Base, Locked, [Next]_vars, ~usurped' PROVE Alone'
    BY DEF Locked
  <1>0. /\ pc \in [Shells -> MainSteps \cup WatchSteps] /\ pass \in [Shells -> {None} \cup Pass]
        /\ lock.dir \in BOOLEAN /\ \A a \in Shells : ShellFits(a)
    BY DEF Base, TypeOK, MainSteps, WatchSteps, Pass
  <1>b. ASSUME NEW a \in Shells, NEW step, Goto(a, step)
        PROVE  \A c \in Shells : pc'[c] = IF c = a THEN step ELSE pc[c]
    BY <1>0, <1>b DEF Goto
  <1>1. CASE ~(\E a \in Shells : LockStep(a))
    <2>1. Alone
      BY <1>1, Outside DEF Locked
    <2>2. \A a \in Shells : Holds(a)' => Holds(a)
      BY <1>1, Outside DEF Holds, LockSteps
    <2>3. \A a \in Shells : /\ pc'[a] = "remove" => pc[a] = "remove"
                            /\ pc[a] \notin LockSteps => pc'[a] \notin LockSteps
                            /\ pass[a] = None => pass'[a] = None
      BY <1>1, Outside DEF LockSteps
    <2> QED BY <1>1, <2>1, <2>2, <2>3, Outside DEF Alone
  <1>2. ASSUME NEW a \in Shells, LockStep(a), ~usurped PROVE Alone'
    <2>1. Alone
      BY <1>2 DEF Locked
    \* A shell that leaves, or goes where it has nothing of the lock.
    <2>a. ASSUME NEW step, Goto(a, step), step \notin LockSteps \/ (step = "make" /\ ~lock.dir),
                 pass' = pass, lock' = lock, pass[a] = None
          PROVE  Alone'
      <3>1. \A c \in Shells : pc'[c] = IF c = a THEN step ELSE pc[c]
        BY <1>b, <2>a
      <3>2. \A c \in Shells : Holds(c)' => Holds(c)
        BY <2>a, <3>1 DEF Holds, LockSteps
      <3>3. \A c \in Shells : pc'[c] = "remove" => pc[c] = "remove" /\ lock.dir
        BY <2>1, <2>a, <3>1 DEF LockSteps, Alone
      <3> QED BY <2>1, <2>a, <3>1, <3>2, <3>3 DEF Alone
    <2>b. ASSUME Contend(a), pass' = pass, lock' = lock, pass[a] = None PROVE Alone'
      BY <2>a, <2>b DEF Contend, LockSteps
    <2>2. CASE Test(a)
      <3>0. pass' = pass /\ lock' = lock /\ pass[a] = None
        BY <1>0, <2>2 DEF Test, At, ShellFits
      <3>1. CASE lock.dir /\ ~Stale
        BY <2>2, <2>b, <3>0, <3>1 DEF Test
      <3>2. CASE lock.dir /\ Stale
        <4>1. Goto(a, "remove") /\ ~Needed(a)
          BY <2>2, <3>2 DEF Test
        <4>2. \A c \in Shells \ {a} : pc[c] \notin LockSteps /\ pass[c] = None
          BY <4>1 DEF Needed, LockSteps
        <4>3. \A c \in Shells : pc'[c] = IF c = a THEN "remove" ELSE pc[c]
          BY <1>b, <4>1
        <4> QED BY <3>0, <3>2, <4>2, <4>3 DEF Alone, Holds, LockSteps
      <3>3. CASE ~lock.dir
        <4>1. Goto(a, "make")
          BY <2>2, <3>3 DEF Test
        <4> QED BY <2>a, <3>0, <3>3, <4>1
      <3> QED BY <1>0, <3>1, <3>2, <3>3
    <2>3. CASE Remove(a)
      <3>1. pass[a] = None /\ pass' = pass /\ Goto(a, "make") /\ pc[a] = "remove"
        BY <1>0, <2>3 DEF Remove, At, ShellFits
      <3>2. \A c \in Shells \ {a} : pc[c] \notin LockSteps /\ pass[c] = None
        BY <2>1, <3>1 DEF Alone
      <3>3. \A c \in Shells : pc'[c] = IF c = a THEN "make" ELSE pc[c]
        BY <1>b, <3>1
      <3> QED BY <3>1, <3>2, <3>3 DEF Alone, Holds, LockSteps
    <2>4. CASE Make(a)
      <3>0. pass' = pass /\ pass[a] = None
        BY <1>0, <2>4 DEF Make, At, ShellFits
      <3>1. CASE lock.dir
        BY <2>4, <2>b, <3>0, <3>1 DEF Make
      <3>2. CASE ~lock.dir
        <4>1. lock'.dir /\ Goto(a, "write")
          BY <2>4, <3>2 DEF Make
        <4>2. \A c \in Shells : pc'[c] = IF c = a THEN "write" ELSE pc[c]
          BY <1>b, <4>1
        <4>3. \A c \in Shells : ~Holds(c) /\ pc[c] # "remove"
          BY <2>1, <3>2 DEF Alone
        <4> QED BY <3>0, <4>1, <4>2, <4>3 DEF Alone, Holds
      <3> QED BY <3>1, <3>2
    <2>5. CASE Write(a)
      <3>1. pc[a] = "write" /\ Goto(a, "manage") /\ lock'.dir = lock.dir
        BY <2>5 DEF Write, At
      <3>2. \A c \in Shells : pc'[c] = IF c = a THEN "manage" ELSE pc[c]
        BY <1>b, <3>1
      <3>3. \A c \in Shells \ {a} : pass'[c] = pass[c]
        BY <1>0, <2>5 DEF Write
      <3>4. \A c \in Shells : Holds(c)' => Holds(c)
        BY <3>1, <3>2, <3>3 DEF Holds
      <3>5. \A c \in Shells : pc'[c] # "remove"
        BY <2>1, <3>1, <3>2 DEF Alone, LockSteps
      <3> QED BY <2>1, <3>1, <3>4, <3>5 DEF Alone
    <2>6. CASE Release(a)
      <3>1. /\ pc[a] = "release" /\ pass' = pass /\ pass[a] = None
            /\ lock' = lock \/ lock'.dir = FALSE
        BY <1>0, <2>6 DEF Release, At, ShellFits
      <3>2. PICK step \in {"check", "mark"} : Goto(a, step)
        BY <2>6 DEF Release
      <3>3. \A c \in Shells : pc'[c] = IF c = a THEN step ELSE pc[c]
        BY <1>b, <3>2
      <3>4. \A c \in Shells : ~Holds(c)' /\ pc'[c] # "remove"
        <4>1. \A c \in Shells \ {a} : ~Holds(c) /\ pc[c] # "remove"
          BY <2>1, <3>1 DEF Alone, Holds, LockSteps
        <4> QED BY <3>1, <3>3, <4>1 DEF Holds
      <3> QED BY <3>4 DEF Alone
    <2> QED BY <1>2, <2>2, <2>3, <2>4, <2>5, <2>6 DEF LockStep
  <1>3. \A a \in Shells : LockStep(a) => ~usurped
    BY DEF LockStep, Test, Remove, Make, Write, Release
  <1> QED BY <1>1, <1>2, <1>3

LEMMA LockImplied == Locked => OnePassAtATime
  BY DEF Locked, Alone, Holds, OnePassAtATime

-----------------------------------------------------------------------------
(* The night                                                               *)

M == Main(1)
W == Watch(1)

\* The EOD pass of the day is made, or has begun with nothing to sell.
Cleared == marked \/ pc[W] \in {"release", "mark"} \/ (pc[W] = "manage" /\ ~pass[W].sees)

\* The loop has a pass before it, or one under way that sells.
Pending ==
    \/ pc[M] \in {"test", "remove", "make", "write"}
    \/ pc[M] = "manage" /\ pass[M].sees /\ pass[M].eod

\* A pass of the watchdog is one of 15:55 or later.
EodPasses == pc[W] = "manage" => pass[W].eod

\* Without a fault there is one start, whose shells live.
Undisturbed ==
    faults = 0 =>
        /\ burner \in {0, 1}
        /\ burner = 0 => ~held /\ ~marked
        /\ burner = 1 => /\ pc[M] # "off" /\ pc[W] # "off" /\ EodPasses
                         /\ Cleared /\ held => skipped \/ Pending

LEMMA SoleShells ==
    ASSUME Base, Undisturbed, faults = 0, burner = 1
    PROVE  /\ M \in Shells /\ W \in Shells /\ M # W
           /\ \A a \in Shells : pc[a] # "off" \/ pass[a] # None => a \in {M, W}
           /\ Alive(1)
  <1>1. 1 \in 1..MaxStarts
    BY BurnInAssumption DEF Base, TypeOK
  <1>2. M \in Shells /\ W \in Shells /\ M # W
    BY <1>1, ShellFacts DEF M, W
  <1>3. ASSUME NEW a \in Shells, pc[a] # "off" \/ pass[a] # None PROVE a \in {M, W}
    <2>1. a[2] = 1
      BY <1>3, ShellFacts DEF Base, ShellFits
    <2> QED BY <2>1, ShellFacts DEF M, W
  <1> QED BY <1>2, <1>3 DEF Alive, At, Undisturbed, M

\* Without a fault nothing fails, is killed or halted.
LEMMA NoFault == Base /\ faults' = 0 /\ [Next]_vars => faults = 0 /\ ~Fault
  <1> SUFFICES ASSUME Base, faults' = 0, [Next]_vars PROVE faults = 0 /\ ~Fault
    OBVIOUS
  <1>1. Fault \/ faults' = faults
    <2>1. CASE \E b \in 1..MaxStarts : LoopStep(b)
      BY <2>1 DEF LoopStep, Fetch, Decide, Discover, Evaluate, Propose, Gate, Wake, Scan,
                  ScanHalted, Check
    <2>2. CASE \E a \in Shells : LockStep(a)
      BY <2>2 DEF LockStep, Test, Remove, Make, Write, Release
    <2>3. CASE \E a \in Shells : PassStep(a)
      BY <2>3 DEF PassStep, PassEnds, PassIdles, PassFails
    <2>4. CASE \E b \in 1..MaxStarts : Poll(b) \/ Mark(b) \/ Stop(b)
      BY <2>4 DEF Poll, Mark, Stop
    <2>5. CASE Start \/ Tick \/ UNCHANGED vars \/ \E a \in Shells : Kill(a)
      BY <2>5 DEF Start, Tick, Kill, vars
    <2> QED BY <2>1, <2>2, <2>3, <2>4, <2>5 DEF Next
  <1> QED BY <1>1 DEF Fault, Base, TypeOK

LEMMA UndisturbedStep == Base /\ Watches /\ Undisturbed /\ [Next]_vars => Undisturbed'
  <1> SUFFICES ASSUME Base, Watches, Undisturbed, [Next]_vars, faults' = 0
               PROVE  /\ burner' \in {0, 1}
                      /\ burner' = 0 => ~held' /\ ~marked'
                      /\ burner' = 1 => /\ pc'[M] # "off" /\ pc'[W] # "off" /\ EodPasses'
                                        /\ (Cleared /\ held => skipped \/ Pending)'
    BY DEF Undisturbed
  <1>0. /\ faults = 0 /\ ~Fault
        /\ pc \in [Shells -> MainSteps \cup WatchSteps] /\ pass \in [Shells -> {None} \cup Pass]
        /\ {held, skipped, marked} \subseteq BOOLEAN
        /\ \A a \in Shells : ShellFits(a)
    BY NoFault DEF Base, TypeOK, MainSteps, WatchSteps, Pass
  <1>b. ASSUME NEW a \in Shells, NEW step, Goto(a, step)
        PROVE  \A c \in Shells : pc'[c] = IF c = a THEN step ELSE pc[c]
    BY <1>0, <1>b DEF Goto
  <1>1. CASE burner = 0
    <2>1. \A a \in Shells : pc[a] = "off" /\ pass[a] = None
      BY <1>0, <1>1, ShellFacts DEF ShellFits
    <2>2. Start \/ Tick \/ UNCHANGED vars
      <3>1. ~(\E b \in 1..MaxStarts : LoopStep(b) \/ Poll(b) \/ Mark(b) \/ Stop(b))
        BY <2>1, ShellFacts
           DEF LoopStep, Fetch, Decide, Discover, Evaluate, Propose, Gate, Wake, Scan,
               ScanHalted, Check,
               Poll, Mark, Stop, At, Alive
      <3>2. ~(\E a \in Shells : LockStep(a) \/ PassStep(a) \/ Kill(a))
        BY <2>1 DEF LockStep, Test, Remove, Make, Write, Release, PassStep, PassEnds, PassIdles,
                    PassFails, Kill, At
      <3> QED BY <3>1, <3>2 DEF Next
    <2>3. ~held /\ ~marked
      BY <1>0, <1>1 DEF Undisturbed
    <2>4. CASE Start
      <3>1. burner' = 1 /\ ~held'
        BY <1>1, <2>3, <2>4 DEF Start
      <3>2. 1 \in 1..MaxStarts
        BY <1>1, <2>4, BurnInAssumption DEF Start
      <3>3. pc' = [pc EXCEPT ![M] = "cycle", ![W] = "poll"]
        BY <1>1, <2>4 DEF Start, M, W
      <3>4. pc'[M] = "cycle" /\ pc'[W] = "poll"
        BY <1>0, <3>2, <3>3, ShellFacts DEF M, W
      <3> QED BY <3>1, <3>4 DEF EodPasses
    <2>5. CASE Tick
      BY <1>1, <2>3, <2>5 DEF Tick, books, files
    <2>6. CASE UNCHANGED vars
      BY <1>1, <2>3, <2>6 DEF vars, books, files
    <2> QED BY <2>2, <2>4, <2>5, <2>6
  <1>2. CASE burner = 1
    <2>0. /\ M \in Shells /\ W \in Shells /\ M # W
          /\ \A a \in Shells : pc[a] # "off" \/ pass[a] # None => a \in {M, W}
          /\ pc[M] # "off" /\ pc[W] # "off" /\ EodPasses
          /\ Cleared /\ held => skipped \/ Pending
      BY <1>0, <1>2, SoleShells DEF Undisturbed
    <2>k. /\ M[1] = "main" /\ M[2] = 1 /\ W[1] = "watch" /\ W[2] = 1
          /\ \A b \in 1..MaxStarts : pc[Main(b)] # "off" => Main(b) = M
          /\ \A b \in 1..MaxStarts : pc[Watch(b)] # "off" => Watch(b) = W
          /\ \A a \in Shells : a = M => a[1] = "main"
      <3>1. 1 \in 1..MaxStarts
        BY <1>2, BurnInAssumption DEF Base, TypeOK
      <3> QED BY <2>0, <3>1, ShellFacts DEF M, W
    <2> DEFINE Kept == /\ burner' = 1 /\ pc'[M] # "off" /\ pc'[W] # "off" /\ EodPasses'
                       /\ (Cleared /\ held => skipped \/ Pending)'
    \* What follows from an unchanged watchdog.
    <2>w. ASSUME pc'[W] = pc[W], pass'[W] = pass[W], marked' = marked
          PROVE  EodPasses' /\ (Cleared' <=> Cleared)
      BY <2>0, <2>w DEF EodPasses, Cleared
    <2>1. ASSUME NEW b \in 1..MaxStarts, LoopStep(b) PROVE Kept
      <3>1. Main(b) = M
        BY <2>1, <2>k DEF LoopStep, Fetch, Decide, Discover, Evaluate, Propose, Gate, Wake, Scan,
                          ScanHalted,
                          Check, At
      <3>2. UNCHANGED <<burner, pass, marked>>
        BY <1>0, <2>1 DEF LoopStep, Fetch, Decide, Discover, Evaluate, Propose, Gate, Wake, Scan,
                          ScanHalted,
                          Check, files
      <3>3. PICK step \in MainSteps \ {"off"} : Goto(M, step)
        BY <1>0, <2>1, <3>1 DEF LoopStep, Fetch, Decide, Discover, Evaluate, Propose, Gate, Wake,
                                Scan,
                                ScanHalted, Check, MainSteps
      <3>4. pc'[M] = step /\ pc'[W] = pc[W]
        BY <1>b, <2>0, <3>3
      <3>5. EodPasses' /\ (Cleared' <=> Cleared)
        BY <2>w, <3>2, <3>4
      <3>6. CASE Scan(b)
        <4>1. pc'[M] = "test"
          BY <1>b, <2>0, <3>1, <3>6 DEF Scan
        <4> QED BY <1>2, <2>0, <3>2, <3>4, <3>5, <4>1 DEF Pending
      <3>7. CASE ~Scan(b)
        <4>1. held' = held /\ skipped' = skipped /\ ~Pending
          BY <1>0, <2>1, <3>1, <3>7
             DEF LoopStep, Fetch, Decide, Discover, Evaluate, Propose, Gate, Wake, ScanHalted,
                 Check, books,
                 Pending, At
        <4> QED BY <1>2, <2>0, <3>2, <3>3, <3>4, <3>5, <4>1
      <3> QED BY <3>6, <3>7
    <2>2. ASSUME NEW b \in 1..MaxStarts, Poll(b) \/ Mark(b) PROVE Kept
      <3>1. Watch(b) = W
        BY <2>2, <2>k DEF Poll, Mark, At
      <3>2. UNCHANGED <<burner, pass, held, skipped>>
        BY <2>2 DEF Poll, Mark, books
      <3>3. PICK step \in {"test", "poll"} : Goto(W, step)
        BY <2>2, <3>1 DEF Poll, Mark
      <3>4. pc'[W] = step /\ pc'[M] = pc[M]
        BY <1>b, <2>0, <3>3
      <3>5. EodPasses' /\ (Pending' <=> Pending)
        BY <3>2, <3>3, <3>4 DEF EodPasses, Pending
      <3>6. Cleared' => Cleared
        BY <2>2, <3>1, <3>3, <3>4 DEF Cleared, Poll, Mark, At, files
      <3> QED BY <1>2, <2>0, <3>2, <3>3, <3>4, <3>5, <3>6
    <2>3. ASSUME NEW a \in Shells, LockStep(a) PROVE Kept
      <3>1. a \in {M, W}
        BY <2>0, <2>3 DEF LockStep, Test, Remove, Make, Write, Release, At
      <3>2. burner' = 1 /\ marked' = marked /\ held' = held
        BY <1>2, <2>3 DEF LockStep, Test, Remove, Make, Write, Release, books, files
      <3>3. CASE a = M
        <4>1. PICK step \in MainSteps \ {"off"} : Goto(M, step)
          BY <2>3, <2>k, <3>3 DEF LockStep, Test, Remove, Make, Write, Release, Contend, MainSteps
        <4>2. pc'[M] = step /\ pc'[W] = pc[W]
          BY <1>b, <2>0, <4>1
        <4>3. pass'[W] = pass[W]
          BY <1>0, <2>0, <2>3, <3>3 DEF LockStep, Test, Remove, Make, Write, Release
        <4>4. EodPasses' /\ (Cleared' <=> Cleared)
          BY <2>w, <3>2, <4>2, <4>3
        <4>5. CASE Write(M)
          <5>1. pc'[M] = "manage" /\ pass'[M] = [sees |-> held, eod |-> Eod]
            BY <1>0, <1>b, <2>0, <4>5 DEF Write
          <5>2. Cleared => Eod
            BY <2>0, <2>k, ShellFacts DEF Cleared, Watches, W, Shells
          <5>3. Cleared' /\ held' => Pending'
            BY <3>2, <4>4, <5>1, <5>2 DEF Pending
          <5> QED BY <2>0, <3>2, <4>1, <4>2, <4>4, <5>3
        <4>6. CASE Test(M) \/ Remove(M) \/ Make(M)
          <5>1. skipped' \/ (skipped' = skipped /\ pc'[M] \in {"remove", "make", "write"})
            BY <1>b, <2>0, <2>k, <4>6 DEF Test, Remove, Make, Contend, books
          <5>3. ~skipped' => Pending'
            BY <5>1 DEF Pending
          <5> QED BY <2>0, <3>2, <4>1, <4>2, <4>4, <5>3
        <4>7. CASE Release(M)
          <5>1. skipped' = skipped /\ ~Pending
            BY <4>7 DEF Release, Pending, At, books
          <5> QED BY <2>0, <3>2, <4>1, <4>2, <4>4, <5>1
        <4> QED BY <2>3, <3>3, <4>5, <4>6, <4>7 DEF LockStep
      <3>4. CASE a = W
        <4>1. PICK step \in WatchSteps \ {"off"} : Goto(W, step)
          BY <2>3, <2>k, <3>4 DEF LockStep, Test, Remove, Make, Write, Release, Contend, WatchSteps
        <4>2. pc'[W] = step /\ pc'[M] = pc[M]
          BY <1>b, <2>0, <4>1
        <4>3. pass'[M] = pass[M]
          BY <1>0, <2>0, <2>3, <3>4 DEF LockStep, Test, Remove, Make, Write, Release
        <4>4. (Pending' <=> Pending) /\ skipped' = skipped
          <5>1. skipped \in BOOLEAN
            BY <1>0
          <5>2. skipped' = skipped
            BY <2>3, <2>k, <3>4, <5>1
               DEF LockStep, Test, Remove, Make, Write, Release, Contend, books
          <5> QED BY <4>2, <4>3, <5>2 DEF Pending
        <4>5. CASE Write(W)
          <5>1. pc[W] = "write" /\ pc'[W] = "manage" /\ pass'[W] = [sees |-> held, eod |-> Eod]
            BY <1>0, <1>b, <2>0, <4>5 DEF Write, At
          <5>2. Eod
            BY <2>k, <5>1, ShellFacts, BurnInAssumption, <1>2 DEF Watches, W, Base, TypeOK
          <5>3. EodPasses'
            BY <5>1, <5>2 DEF EodPasses
          <5>4. Cleared' /\ held' => Cleared /\ held
            BY <3>2, <5>1 DEF Cleared
          <5> QED BY <2>0, <3>2, <4>1, <4>2, <4>4, <5>3, <5>4
        <4>6. CASE ~Write(W)
          <5>1. pass' = pass
            BY <2>3, <3>4, <4>6 DEF LockStep, Test, Remove, Make, Release
          <5>2. step # "manage" /\ (step \in {"release", "mark"} => pc[W] = "release")
            BY <2>3, <2>k, <3>4, <4>1, <4>2, <4>6, <1>b, <2>0
               DEF LockStep, Test, Remove, Make, Release, Contend, At
          <5>3. EodPasses' /\ (Cleared' => Cleared)
            BY <3>2, <4>2, <5>1, <5>2 DEF EodPasses, Cleared
          <5> QED BY <2>0, <3>2, <4>1, <4>2, <4>4, <5>3
        <4> QED BY <4>5, <4>6
      <3> QED BY <3>1, <3>3, <3>4
    <2>4. ASSUME NEW a \in Shells, PassStep(a) PROVE Kept
      <3>1. PassEnds(a) /\ pass[a] # None /\ a \in {M, W}
        BY <1>0, <2>0, <2>4 DEF PassStep, PassEnds, PassIdles, PassFails
      <3>2. /\ burner' = 1 /\ marked' = marked /\ skipped' = skipped
            /\ held' \in IF pass[a].sees THEN {FALSE, held /\ ~pass[a].eod} ELSE {held}
            /\ pass' = [pass EXCEPT ![a] = None]
        BY <1>2, <3>1 DEF PassEnds, files
      <3>3. pc[a] = "manage" /\ Goto(a, "release")
        BY <1>0, <2>0, <3>1 DEF PassEnds, At, ShellFits
      <3>4. \A c \in Shells : pc'[c] = IF c = a THEN "release" ELSE pc[c]
        BY <1>b, <3>3
      <3>5. \A c \in Shells \ {a} : pass'[c] = pass[c]
        BY <1>0, <3>2
      <3>6. held' => held
        BY <3>2
      <3>7. CASE a = M
        <4>1. pc'[M] = "release" /\ pc'[W] = pc[W] /\ pass'[W] = pass[W]
          BY <2>0, <3>4, <3>5, <3>7
        <4>2. EodPasses' /\ (Cleared' <=> Cleared)
          BY <2>w, <3>2, <4>1
        <4>3. pass[M].sees /\ pass[M].eod => ~held'
          BY <3>2, <3>7
        <4>4. Pending => pass[M].sees /\ pass[M].eod
          BY <3>3, <3>7 DEF Pending
        <4> QED BY <2>0, <3>2, <3>6, <4>1, <4>2, <4>3, <4>4
      <3>8. CASE a = W
        <4>1. pc'[W] = "release" /\ pc'[M] = pc[M] /\ pass'[M] = pass[M]
          BY <2>0, <3>4, <3>5, <3>8
        <4>2. EodPasses' /\ (Pending' <=> Pending)
          BY <4>1 DEF EodPasses, Pending
        <4>3. pass[W].eod
          BY <2>0, <3>3, <3>8 DEF EodPasses
        <4>4. CASE pass[W].sees
          <5>1. ~held'
            BY <3>2, <3>8, <4>3, <4>4
          <5> QED BY <2>0, <3>2, <4>1, <4>2, <5>1
        <4>5. CASE ~pass[W].sees
          <5>1. Cleared
            BY <3>3, <3>8, <4>5 DEF Cleared
          <5> QED BY <2>0, <3>2, <3>6, <4>1, <4>2, <5>1
        <4> QED BY <4>4, <4>5
      <3> QED BY <3>1, <3>7, <3>8
    <2>5. CASE Tick
      <3>1. UNCHANGED <<held, skipped, burner, pc, pass>>
        BY <2>5 DEF Tick, books
      <3>2. EodPasses' /\ (Pending' <=> Pending)
        BY <2>0, <3>1 DEF EodPasses, Pending
      <3>3. Cleared' => Cleared
        BY <2>5, <3>1 DEF Tick, Cleared, files
      <3> QED BY <1>2, <2>0, <3>1, <3>2, <3>3
    <2>6. CASE UNCHANGED vars
      <3>1. UNCHANGED <<held, skipped, burner, pc, pass, marked>>
        BY <2>6 DEF vars, books, files
      <3> QED BY <1>2, <2>0, <3>1 DEF EodPasses, Pending, Cleared
    <2>7. ~Start
      <3>1. Alive(1)
        BY <1>0, <1>2, SoleShells
      <3> QED BY <1>2, <3>1 DEF Start
    <2>8. \A b \in 1..MaxStarts : ~Stop(b)
      BY <1>0 DEF Stop
    <2>9. \A a \in Shells : ~Kill(a)
      BY <1>0 DEF Kill
    <2> QED BY <2>1, <2>2, <2>3, <2>4, <2>5, <2>6, <2>7, <2>8, <2>9 DEF Next
  <1> QED BY <1>0, <1>1, <1>2 DEF Undisturbed

LEMMA FlatImplied == Base /\ Watches /\ Undisturbed => FlatOvernight
  <1> SUFFICES ASSUME Base, Watches, Undisturbed, burner > 0, At(Main(burner), "sleep"), marked,
                      faults = 0, ~skipped
               PROVE  ~held
    BY DEF FlatOvernight
  <1>1. burner = 1
    BY DEF Undisturbed
  <1>2. pc[M] = "sleep"
    BY <1>1 DEF At, M
  <1> QED BY <1>1, <1>2 DEF Undisturbed, Cleared, Pending

-----------------------------------------------------------------------------
(* Theorems                                                                *)

BurnInInv == Base /\ Tuning /\ Watches /\ Locked /\ Undisturbed

\* The invariant of the script, its watchdog and their files (auto-burn-in.sh).
THEOREM BurnInInvariant == Spec => []BurnInInv
  <1>1. Init => BurnInInv
    <2> SUFFICES ASSUME Init PROVE BurnInInv
      OBVIOUS
    <2>1. Base
      BY BaseInit
    <2>2. \A a \in Shells : pc[a] = "off" /\ pass[a] = None
      BY DEF Init
    <2>3. Tuning /\ Watches
      BY <2>2, ShellFacts DEF Init, Tuning, Tunings, Watches
    <2>4. Locked
      BY <2>2 DEF Locked, Alone, Holds
    <2>5. Undisturbed
      BY DEF Init, Undisturbed
    <2> QED BY <2>1, <2>3, <2>4, <2>5 DEF BurnInInv
  <1>2. BurnInInv /\ [Next]_vars => BurnInInv'
    BY BaseStep, TuningStep, WatchesStep, LockedStep, UndisturbedStep DEF BurnInInv
  <1> QED BY <1>1, <1>2, PTL DEF Spec

\* The state is well-formed (the files and processes of the script).
THEOREM BurnInTypes == Spec => []TypeOK
  <1>1. BurnInInv => TypeOK
    BY DEF BurnInInv, Base
  <1> QED BY <1>1, BurnInInvariant, PTL

\* One nightly tuning a day, a second one only after a midday refresh that began too late,
\* and none beside a manage-positions before 15:55, whatever fails or is killed in between
\* (LAST_DISCOVER_FILE).
THEOREM TuningStaysApart == Spec => []TuningApart
  <1>1. BurnInInv => TuningApart
    BY TuningImplied DEF BurnInInv
  <1> QED BY <1>1, BurnInInvariant, PTL

\* As long as no lock was taken that was needed there is one manage-positions at a time,
\* whatever shell dies at whatever command (_manage_lock_acquire).
THEOREM LockExcludes == Spec => []OnePassAtATime
  <1>1. BurnInInv => OnePassAtATime
    BY LockImplied DEF BurnInInv
  <1> QED BY <1>1, BurnInInvariant, PTL

\* On a day without a fault nothing stays open overnight that a pass could have sold
\* (scan_and_trade, start_eod_watchdog).
THEOREM NothingOpenOvernight == Spec => []FlatOvernight
  <1>1. BurnInInv => FlatOvernight
    BY FlatImplied DEF BurnInInv
  <1> QED BY <1>1, BurnInInvariant, PTL
=============================================================================
