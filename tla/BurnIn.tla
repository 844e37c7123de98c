------------------------------- MODULE BurnIn -------------------------------
(***************************************************************************)
(* scripts/auto-burn-in.sh: a main loop that discovers, tunes, scans and   *)
(* trades, and a watchdog beside it that flattens the positions from 15:55 *)
(* on, also when the main loop hangs.  Both run `manage-positions` under a *)
(* lock that is a directory with a process id in it.                       *)
(*                                                                         *)
(* The watchdog is a subshell, in which `$$` is still the id of the main   *)
(* loop, and which has `set -e` like it: a manage-positions that fails     *)
(* ends the shell that waits for it.  A child outlives a shell that dies.  *)
(*                                                                         *)
(* A day has six slots: before 9:30, to 12:00, to 13:00 (midday), to 15:55 *)
(* (afternoon), to 16:00 (close), and the evening.  Between an operation   *)
(* and the next, time may pass.  One position stands for all.              *)
(***************************************************************************)
EXTENDS Integers

CONSTANTS
    MaxDays,
    FirstSlot,         \* of the first day
    WeekDays,          \* Mondays to Fridays
    MaxStarts,         \* of the script
    MaxFaults,         \* failures, kills and halts
    None

ASSUME BurnInAssumption ==
    /\ {MaxDays, MaxStarts, MaxFaults} \subseteq Nat
    /\ WeekDays \subseteq 1..MaxDays /\ FirstSlot \in 1..6
    /\ MaxDays >= 1 /\ None \notin [sees : BOOLEAN, eod : BOOLEAN]

VARIABLES
    day, slot,
    burner,            \* the number of starts, and the id of the last main loop
    pc,                \* pc[<<kind, b>>]: what that shell is about to do
    pass,              \* pass[a]: the manage-positions that a started, or None
    lock,              \* the lock directory and its pid file (0 when there is none)
    held,              \* a position is open
    marked,            \* the watchdog's marker of today is there
    fetched,           \* the marker of today's EOD download is there
    discovered,        \* .last_discover_date is today
    tuned,             \* how often the nightly tuning ran today
    late,              \* a midday refresh of today began after 13:00 (history variable)
    skipped,           \* the last scan cycle left out manage-positions
    usurped,           \* a lock that looked stale was taken though it was needed
    faults

vars == <<day, slot, burner, pc, pass, lock, held, marked, fetched, discovered, tuned,
          late, skipped, usurped, faults>>
clock == <<day, slot>>
files == <<marked, fetched, discovered, tuned, late>>
books == <<held, skipped>>

Midday == 3
Close == 5
Evening == 6
Shells == {"main", "watch"} \X (1..MaxStarts)
Main(b) == <<"main", b>>
Watch(b) == <<"watch", b>>

MarketOpen == day \in WeekDays /\ slot \in 2..Close
Eod == day \in WeekDays /\ slot >= Close

-----------------------------------------------------------------------------
Init ==
    /\ day = 1 /\ slot = FirstSlot
    /\ burner = 0 /\ pc = [a \in Shells |-> "off"] /\ pass = [a \in Shells |-> None]
    /\ lock = [dir |-> FALSE, pid |-> 0]
    /\ held = FALSE /\ skipped = FALSE
    /\ marked = FALSE /\ fetched = FALSE /\ discovered = FALSE /\ tuned = 0 /\ late = FALSE
    /\ usurped = FALSE /\ faults = 0

At(a, step) == pc[a] = step
Goto(a, step) == pc' = [pc EXCEPT ![a] = step]
Fault == faults < MaxFaults /\ faults' = faults + 1

\* A shell answers kill -0 until it ends.
Alive(b) == ~At(Main(b), "off")

\* on_shutdown, from a trap or from set -e: the loop ends and kills its watchdog.
Exit(b) == pc' = [pc EXCEPT ![Main(b)] = "off", ![Watch(b)] = "off"]

\* The script starts and starts its watchdog; nobody starts a second loop.
Start ==
    /\ burner < MaxStarts
    /\ \A b \in 1..burner : ~Alive(b)
    /\ burner' = burner + 1
    /\ pc' = [pc EXCEPT ![Main(burner + 1)] = "cycle", ![Watch(burner + 1)] = "poll"]
    /\ skipped' = FALSE
    /\ UNCHANGED <<clock, files, pass, lock, held, usurped, faults>>

-----------------------------------------------------------------------------
(* The main loop                                                           *)

\* run_eod_fetch: an interval that fails is skipped, so any of them may be missing.
Downloads == SUBSET {"1d", "1m"}

\* run_eod_data_download: the archive of the day is fetched until something came,
\* and a command that fails ends the loop.
FetchDue == slot >= Midday /\ ~fetched
Fetch(b) ==
    /\ At(Main(b), "cycle")
    /\ \/ ~FetchDue /\ Goto(Main(b), "decide") /\ UNCHANGED <<fetched, faults>>
       \/ /\ FetchDue /\ Goto(Main(b), "decide")
          /\ \E written \in Downloads : fetched' = (written # {})
          /\ UNCHANGED faults
       \/ FetchDue /\ Exit(b) /\ Fault /\ UNCHANGED fetched
    /\ UNCHANGED <<clock, books, burner, pass, lock, marked, discovered, tuned, late, usurped>>

\* should_discover: on a new day, and again at midday when the watchlist is low.
Decide(b) ==
    /\ At(Main(b), "decide")
    /\ \/ ~discovered /\ Goto(Main(b), "discover")
       \/ discovered /\ slot = Midday /\ Goto(Main(b), "discover")
       \/ discovered /\ Goto(Main(b), "gate")
    /\ UNCHANGED <<clock, books, files, burner, pass, lock, usurped, faults>>

\* Variant: a discovery that fails does not write the date.
DiscoverUndated(b) ==
    /\ At(Main(b), "discover")
    /\ discovered' \in {discovered, TRUE}
    /\ late' = (late \/ (discovered /\ slot # Midday))
    /\ Goto(Main(b), IF slot = Midday THEN "gate" ELSE "evaluate")
    /\ UNCHANGED <<clock, books, burner, pass, lock, marked, fetched, tuned, usurped, faults>>

\* The loop reads the clock again, discovers and writes the date; outside midday the
\* nightly tuning follows, after a midday refresh that was due before 13:00 as well.
Discover(b) ==
    /\ At(Main(b), "discover")
    /\ discovered' = TRUE
    /\ late' = (late \/ (discovered /\ slot # Midday))
    /\ Goto(Main(b), IF slot = Midday THEN "gate" ELSE "evaluate")
    /\ UNCHANGED <<clock, books, burner, pass, lock, marked, fetched, tuned, usurped, faults>>

\* run_tune_experiment_step: evaluate, then propose, whatever they return.
Evaluate(b) ==
    /\ At(Main(b), "evaluate")
    /\ tuned' = tuned + 1
    /\ Goto(Main(b), "propose")
    /\ UNCHANGED <<clock, books, burner, pass, lock, marked, fetched, discovered, late, usurped,
                   faults>>
Propose(b) ==
    /\ At(Main(b), "propose")
    /\ Goto(Main(b), "gate")
    /\ UNCHANGED <<clock, books, files, burner, pass, lock, usurped, faults>>

\* Outside market hours the loop polls until the next open and begins anew.
Gate(b) ==
    /\ At(Main(b), "gate")
    /\ Goto(Main(b), IF MarketOpen THEN "scan" ELSE "sleep")
    /\ UNCHANGED <<clock, books, files, burner, pass, lock, usurped, faults>>
Wake(b) ==
    /\ At(Main(b), "sleep") /\ MarketOpen
    /\ Goto(Main(b), "cycle")
    /\ UNCHANGED <<clock, books, files, burner, pass, lock, usurped, faults>>

\* Variant: what is left at the close is the watchdog's.
ScanLeavingTheClose(b) ==
    /\ At(Main(b), "scan")
    /\ held' \in {held, TRUE}
    /\ Goto(Main(b), IF Eod THEN "check" ELSE "test")
    /\ UNCHANGED <<clock, files, burner, pass, lock, skipped, usurped, faults>>

\* scan_and_trade up to manage-positions: a scan, and a paper-trade for each
\* GREEN symbol, that may buy.
Scan(b) ==
    /\ At(Main(b), "scan")
    /\ held' \in {held, TRUE}
    /\ Goto(Main(b), "test")
    /\ UNCHANGED <<clock, files, burner, pass, lock, skipped, usurped, faults>>
\* With the kill switch on it returns before manage-positions.
ScanHalted(b) ==
    /\ At(Main(b), "scan") /\ Fault
    /\ skipped' = TRUE
    /\ Goto(Main(b), "check")
    /\ UNCHANGED <<clock, files, burner, pass, lock, held, usurped>>

\* check_max_drawdown may end the loop; the cycle is over otherwise.
Check(b) ==
    /\ At(Main(b), "check")
    /\ \/ Goto(Main(b), "cycle") /\ UNCHANGED faults
       \/ Exit(b) /\ Fault
    /\ UNCHANGED <<clock, books, files, burner, pass, lock, usurped>>

-----------------------------------------------------------------------------
(* The lock, and manage-positions under it                                 *)

\* A shell that does not get the lock: the loop goes on with its cycle, the
\* watchdog polls again.
Contend(a) ==
    /\ Goto(a, IF a[1] = "main" THEN "check" ELSE "poll")
    /\ skipped' = (skipped \/ a[1] = "main")

\* No live shell has written its id.
Stale == lock.pid = 0 \/ ~Alive(lock.pid)

\* Somebody has made the lock or takes a stale one, or a child still works.
Needed(a) ==
    \E c \in Shells \ {a} :
        pc[c] \in {"remove", "make", "write", "manage", "release"} \/ pass[c] # None

\* Variant: kill -0 is not asked.
TestExists(a) ==
    /\ At(a, "test")
    /\ Goto(a, IF lock.dir THEN "remove" ELSE "make")
    /\ usurped' = (usurped \/ (lock.dir /\ Stale /\ Needed(a)))
    /\ UNCHANGED <<clock, books, files, burner, pass, lock, faults>>

\* _manage_lock_acquire, command by command.
Test(a) ==
    /\ At(a, "test")
    /\ IF lock.dir /\ ~Stale THEN Contend(a)
       ELSE Goto(a, IF lock.dir THEN "remove" ELSE "make") /\ UNCHANGED skipped
    /\ usurped' = (usurped \/ (lock.dir /\ Stale /\ Needed(a)))
    /\ UNCHANGED <<clock, files, burner, pass, lock, held, faults>>
Remove(a) ==
    /\ At(a, "remove")
    /\ lock' = [dir |-> FALSE, pid |-> 0]
    /\ Goto(a, "make")
    /\ UNCHANGED <<clock, books, files, burner, pass, usurped, faults>>
Make(a) ==
    /\ At(a, "make")
    /\ IF lock.dir THEN Contend(a) /\ UNCHANGED lock
       ELSE /\ lock' = [dir |-> TRUE, pid |-> 0]
            /\ Goto(a, "write") /\ UNCHANGED skipped
    /\ UNCHANGED <<clock, files, burner, pass, held, usurped, faults>>

\* The id is written, unless the directory is gone again; manage-positions
\* loads the portfolio and reads the clock.
Write(a) ==
    /\ At(a, "write")
    /\ lock' = IF lock.dir THEN [lock EXCEPT !.pid = a[2]] ELSE lock
    /\ pass' = [pass EXCEPT ![a] = [sees |-> held, eod |-> Eod]]
    /\ skipped' = (skipped /\ a[1] # "main")
    /\ Goto(a, "manage")
    /\ UNCHANGED <<clock, files, burner, held, usurped, faults>>

\* manage-positions ends well: from 15:55 on it has sold what it saw.
PassEnds(a) ==
    /\ pass[a] # None
    /\ pass' = [pass EXCEPT ![a] = None]
    /\ held' \in IF pass[a].sees THEN {FALSE, held /\ ~pass[a].eod} ELSE {held}
    /\ IF At(a, "manage") THEN Goto(a, "release") ELSE UNCHANGED pc
    /\ UNCHANGED <<clock, files, burner, lock, skipped, usurped, faults>>
\* A halt, a breaker or stale bars: it returns 0 and has sold nothing.
PassIdles(a) ==
    /\ pass[a] # None /\ Fault
    /\ pass' = [pass EXCEPT ![a] = None]
    /\ IF At(a, "manage") THEN Goto(a, "release") ELSE UNCHANGED pc
    /\ UNCHANGED <<clock, books, files, burner, lock, usurped>>
\* It fails, with some of its sales made: set -e ends the shell that waits.
PassFails(a) ==
    /\ pass[a] # None /\ Fault
    /\ pass' = [pass EXCEPT ![a] = None]
    /\ held' \in IF pass[a].sees THEN {FALSE, held} ELSE {held}
    /\ IF ~At(a, "manage") THEN UNCHANGED pc
       ELSE IF a[1] = "main" THEN Exit(a[2]) ELSE Goto(a, "off")
    /\ UNCHANGED <<clock, files, burner, lock, skipped, usurped>>

\* Variant: the main loop forgets to.
ReleaseByWatchdog(a) ==
    /\ At(a, "release")
    /\ lock' = IF a[1] = "watch" THEN [dir |-> FALSE, pid |-> 0] ELSE lock
    /\ Goto(a, IF a[1] = "main" THEN "check" ELSE "mark")
    /\ UNCHANGED <<clock, books, files, burner, pass, usurped, faults>>

\* _manage_lock_release: only the lock with the own id.
Release(a) ==
    /\ At(a, "release")
    /\ lock' = IF lock.dir /\ lock.pid = a[2] THEN [dir |-> FALSE, pid |-> 0] ELSE lock
    /\ Goto(a, IF a[1] = "main" THEN "check" ELSE "mark")
    /\ UNCHANGED <<clock, books, files, burner, pass, usurped, faults>>

-----------------------------------------------------------------------------
(* The watchdog                                                            *)

\* Every 30 seconds: is it a weekday, 15:55, and not done?
Poll(b) ==
    /\ At(Watch(b), "poll") /\ Eod /\ ~marked
    /\ Goto(Watch(b), "test")
    /\ UNCHANGED <<clock, books, files, burner, pass, lock, usurped, faults>>
Mark(b) ==
    /\ At(Watch(b), "mark")
    /\ marked' = TRUE
    /\ Goto(Watch(b), "poll")
    /\ UNCHANGED <<clock, books, burner, pass, lock, fetched, discovered, tuned, late, usurped,
                   faults>>

-----------------------------------------------------------------------------
(* Faults and time                                                         *)

\* A signal that ends the loop in good order, once its child has ended.
Stop(b) ==
    /\ Alive(b) /\ ~At(Main(b), "manage") /\ Fault
    /\ Exit(b)
    /\ UNCHANGED <<clock, books, files, burner, pass, lock, usurped>>
\* One shell is killed; its child works on.
Kill(a) ==
    /\ ~At(a, "off") /\ Fault
    /\ Goto(a, "off")
    /\ UNCHANGED <<clock, books, files, burner, pass, lock, usurped>>

\* Before midnight a watchdog that lives polls often enough to be done, and
\* nothing but a scan or a sleep lasts over midnight.
Tick ==
    /\ IF slot < Evening
       THEN slot' = slot + 1 /\ UNCHANGED <<day, files>>
       ELSE /\ day < MaxDays /\ day' = day + 1 /\ slot' = 1
            /\ marked' = FALSE /\ fetched' = FALSE /\ discovered' = FALSE /\ tuned' = 0
            /\ late' = FALSE
            /\ \A b \in 1..MaxStarts :
                /\ \/ At(Watch(b), "off")
                   \/ At(Watch(b), "poll") /\ (Eod => marked)
                /\ pc[Main(b)] \in {"off", "sleep", "scan"}
    /\ UNCHANGED <<books, burner, pc, pass, lock, usurped, faults>>

LoopStep(b) ==
    \/ Fetch(b) \/ Decide(b) \/ Discover(b) \/ Evaluate(b) \/ Propose(b) \/ Gate(b)
    \/ Wake(b) \/ Scan(b) \/ ScanHalted(b) \/ Check(b)
LockStep(a) == Test(a) \/ Remove(a) \/ Make(a) \/ Write(a) \/ Release(a)
PassStep(a) == PassEnds(a) \/ PassIdles(a) \/ PassFails(a)
Next ==
    \/ Start \/ Tick
    \/ \E b \in 1..MaxStarts : LoopStep(b) \/ Poll(b) \/ Mark(b) \/ Stop(b)
    \/ \E a \in Shells : LockStep(a) \/ PassStep(a) \/ Kill(a)

Spec == Init /\ [][Next]_vars

\* Time passes, and shells and commands go on while they have or want the lock;
\* the main loop may hang in anything else it does.
Work(a) ==
    \/ LockStep(a) \/ PassStep(a)
    \/ a[1] = "watch" /\ (Poll(a[2]) \/ Mark(a[2]))
Fairness == WF_vars(Tick) /\ \A a \in Shells : WF_vars(Work(a))
FairSpec == Spec /\ Fairness

-----------------------------------------------------------------------------
(* Properties                                                              *)

\* The state is well-formed (the files and processes of the script).
TypeOK ==
    /\ day \in 1..MaxDays /\ slot \in 1..Evening /\ burner \in 0..MaxStarts
    /\ pc \in [Shells -> {"off", "cycle", "decide", "discover", "evaluate", "propose", "gate",
                          "sleep", "scan", "test", "remove", "make", "write", "manage",
                          "release", "check", "poll", "mark"}]
    /\ pass \in [Shells -> {None} \cup [sees : BOOLEAN, eod : BOOLEAN]]
    /\ lock \in [dir : BOOLEAN, pid : 0..MaxStarts]
    /\ {held, skipped, usurped} \subseteq BOOLEAN
    /\ {marked, fetched, discovered, late} \subseteq BOOLEAN
    /\ tuned \in Nat /\ faults \in 0..MaxFaults

\* Two manage-positions run side by side only after a lock was taken from a
\* shell that had not written its id yet or whose `$$` no longer lived, while
\* its work was not done or another shell took it, too (the lock's promise).
OnePassAtATime ==
    \A a, c \in Shells : a # c /\ pass[a] # None /\ pass[c] # None => usurped

\* On a day without a fault that the watchdog has marked, a loop that sleeps in
\* the evening has left nothing open, though it trades to the last minute and
\* the watchdog's pass may have begun before its last BUY; unless its last
\* manage-positions gave way to the watchdog (scan_and_trade, start_eod_watchdog).
FlatOvernight ==
    burner > 0 =>
        ((At(Main(burner), "sleep") /\ Eod /\ marked /\ faults = 0 /\ ~skipped) => ~held)

\* The nightly tuning runs once a day at most, whatever crashes, and once more only after
\* a midday refresh that found its watchlist low before 13:00 and the second reading of
\* the clock past it; never beside a manage-positions before 15:55, other than one that a
\* dead shell has left behind (LAST_DISCOVER_FILE is written before the tuning).
TuningApart ==
    /\ tuned <= IF late THEN 2 ELSE 1
    /\ \A b \in 1..MaxStarts, a \in Shells :
        pc[Main(b)] \in {"evaluate", "propose"} /\ At(a, "manage") => Eod

\* check_eod_watchdog: the process of eod_watchdog.pid answers.
WatchdogAlive == \E b \in {burner} \ {0} : ~At(Watch(b), "off")

\* When the watchdog of the last start passes check_eod_watchdog at 15:55, the
\* day's EOD pass is made and marked, though the main loop hangs, unless another
\* fault comes in between (start_eod_watchdog, health/checks.py).
EodPassHappens ==
    \A d \in WeekDays, n \in 0..MaxFaults :
        (day = d /\ slot = Close /\ WatchdogAlive /\ faults = n)
            ~> ((day = d /\ marked) \/ faults > n)
=============================================================================
