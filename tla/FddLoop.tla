------------------------------- MODULE FddLoop -------------------------------
(***************************************************************************)
(* The schedule of rule runs: drivers/run_rule_loop.py (the fdd-loop       *)
(* container, and the same program run once by hand), the trigger file     *)
(* that POST /run-fdd touches, and the fdd_backfill_state row that carries *)
(* the backfill cursor over restarts.                                      *)
(*                                                                         *)
(* Times are points on an integer axis.  A run of the rules over a window  *)
(* is one step, which succeeds or raises.                                  *)
(***************************************************************************)
EXTENDS Integers

CONSTANTS
  Loop,        \* the process started with --loop
  OneShots,    \* processes started without it
  Configs,     \* backfill settings PUT /config may store: [on, start, end, step]
  Default,     \* the settings of a configuration that could not be read
  NoEnd,       \* fdd_backfill_end not set
  NoRow, None, \* no row yet; no key
  PollSec,     \* TRIGGER_POLL_SEC
  SleepSec,    \* the interval, max(60, ...)
  MaxNow,      \* bound: the clock
  MaxChanges,  \* bound: PUT /config
  MaxFaults    \* bound: faults met

Procs == {Loop} \cup OneShots
Settings == Configs \cup {Default}
Key(c) == [start |-> c.start, end |-> c.end]
Keys == {Key(c) : c \in Settings}
Rows == [last : Int, key : Keys]

ASSUME SettingsShape ==
  \A c \in Settings :
    /\ c \in [on : BOOLEAN, start : Int, end : Int \cup {NoEnd}, step : Int]
    /\ c.step >= 1                    \* max(1, int(...))
ASSUME DefaultIsOff == ~ Default.on
ASSUME LoopNotOneShot == Loop \notin OneShots
ASSUME NoRowIsNoRow == NoRow \notin Rows /\ None \notin Keys /\ NoEnd \notin Int
ASSUME LoopBounds ==
  /\ PollSec \in Nat \ {0} /\ SleepSec \in Nat /\ SleepSec >= PollSec
  /\ MaxNow \in Nat /\ MaxChanges \in Nat /\ MaxFaults \in Nat

VARIABLES
  now,       \* datetime.now(timezone.utc)
  cfg,       \* the configuration in config/data_model.ttl
  file,      \* does config/.run_fdd_now exist?
  row,       \* fdd_backfill_state
  pc,        \* where each process is
  seen,      \* the settings each process works with
  cursor,    \* start of the next window
  target,    \* target_end of the pass
  elapsed,   \* slept since the loop's timer was reset
  changes, faults,
  asked,     \* history: a run was asked for and none has begun since
  done,      \* history: points evaluated by successful windows, by key
  finished   \* history: key of the last pass the loop completed, None after PUT /config

vars == <<now, cfg, file, row, pc, seen, cursor, target, elapsed, changes, faults,
          asked, done, finished>>
env == <<now, cfg, changes>>
pass == <<cursor, target>>

\* "idle": a one-shot that is not running; "down": the container between exit and restart.
Pcs == {"reload", "pass", "window", "save", "routine", "sleep", "down", "idle"}

Init ==
  /\ now \in 0..MaxNow
  /\ cfg \in Settings
  /\ file \in BOOLEAN
  /\ row = NoRow
  /\ pc = [p \in Procs |-> IF p = Loop THEN "reload" ELSE "idle"]
  /\ seen = [p \in Procs |-> Default]
  /\ cursor = [p \in Procs |-> 0]
  /\ target = [p \in Procs |-> 0]
  /\ elapsed = 0
  /\ changes = 0
  /\ faults = 0
  /\ asked = FALSE
  /\ done = [k \in Keys |-> {}]
  /\ finished = None

Goto(p, l) == pc' = [pc EXCEPT ![p] = l]
Fault == faults < MaxFaults /\ faults' = faults + 1
\* An exception nobody catches, or a kill, ends the process.
Die(p) == Goto(p, IF p = Loop THEN "down" ELSE "idle")

------------------------------------------------------------------------------
\* _runtime_loop_settings: read the shared file.  While the API rewrites it, it
\* is empty and yields the defaults; when building the graph raises, the
\* settings of the previous cycle stay.
Reload(p) ==
  /\ pc[p] = "reload"
  /\ \/ seen' = [seen EXCEPT ![p] = cfg] /\ UNCHANGED faults
     \/ seen' = [seen EXCEPT ![p] = Default] /\ Fault
     \/ UNCHANGED seen /\ Fault
  /\ Goto(p, "pass")
  /\ UNCHANGED <<env, file, row, pass, elapsed, asked, done, finished>>

\* _run_backfill_pass: the early returns.
BackfillOn(c) == c.on /\ (c.end # NoEnd => c.end > c.start)

\* The cursor a pass starts from.
RowKept(c) == IF row = NoRow THEN c.start ELSE row.last      \* mutant: the stored key is not compared
FromStart(c) == c.start                                      \* mutant: the stored row is not used
Resume(c) == IF row = NoRow \/ row.key # Key(c) THEN c.start ELSE row.last

WholeSteps(c) ==                                             \* mutant: no partial last window
  IF c.end = NoEnd THEN now ELSE c.start + ((c.end - c.start) \div c.step) * c.step
PassTarget(c) == IF c.end = NoEnd THEN now ELSE c.end

CompleteBeyond(from, to) == from > to                        \* mutant: off by one
Complete(from, to) == from >= to

\* The run (of whichever kind) that a request is waiting for begins here.
BeginRun(p) == asked' = (asked /\ p # Loop)

BeginPass(p) ==
  /\ pc[p] = "pass"
  /\ BeginRun(p)
  /\ LET c == seen[p] IN
       \/ /\ ~ BackfillOn(c)
          /\ Goto(p, "routine") /\ UNCHANGED pass
       \/ /\ BackfillOn(c) /\ Complete(Resume(c), PassTarget(c))
          /\ Goto(p, "routine") /\ UNCHANGED pass
       \/ /\ BackfillOn(c) /\ ~ Complete(Resume(c), PassTarget(c))
          /\ cursor' = [cursor EXCEPT ![p] = Resume(c)]
          /\ target' = [target EXCEPT ![p] = PassTarget(c)]
          /\ Goto(p, "window")
  /\ UNCHANGED <<env, file, row, seen, elapsed, faults, done, finished>>

\* _load_backfill_state raises: nothing catches it.
BeginPassFails(p) ==
  /\ pc[p] = "pass" /\ BackfillOn(seen[p])
  /\ Fault
  /\ Die(p)
  /\ UNCHANGED <<env, file, row, seen, pass, elapsed, asked, done, finished>>

\* The end of the window at the cursor: min(cursor + step, target_end).
WindowEndUncapped(p) == cursor[p] + seen[p].step             \* mutant: not capped
WindowEnd(p) ==
  LET stop == cursor[p] + seen[p].step IN IF stop < target[p] THEN stop ELSE target[p]

\* _run_window: the points both ends included (load_timeseries_for_*).
RunWindow(p) ==
  /\ pc[p] = "window"
  /\ done' = [done EXCEPT ![Key(seen[p])] = @ \cup (cursor[p]..WindowEnd(p))]
  /\ Goto(p, "save")
  /\ UNCHANGED <<env, file, row, seen, pass, elapsed, faults, asked, finished>>

\* The exception becomes rc 1: the loop goes on with the routine run, a
\* one-shot returns.
RunWindowFails(p) ==
  /\ pc[p] = "window"
  /\ Fault
  /\ Goto(p, IF p = Loop THEN "routine" ELSE "idle")
  /\ UNCHANGED <<env, file, row, seen, pass, elapsed, asked, done, finished>>

\* After a pass that ran windows the loop skips the routine run; a one-shot
\* goes on with it.
AfterPass(p) == IF p = Loop THEN "sleep" ELSE "routine"

\* _save_backfill_state, and the loop test of the pass.
SaveState(p) ==
  /\ pc[p] = "save"
  /\ row' = [last |-> WindowEnd(p), key |-> Key(seen[p])]
  /\ cursor' = [cursor EXCEPT ![p] = WindowEnd(p)]
  /\ \/ WindowEnd(p) < target[p] /\ Goto(p, "window") /\ UNCHANGED <<elapsed, finished>>
     \/ /\ WindowEnd(p) >= target[p]
        /\ Goto(p, AfterPass(p))
        /\ elapsed' = IF p = Loop THEN 0 ELSE elapsed
        /\ finished' = IF p = Loop /\ seen[p] = cfg THEN Key(cfg) ELSE finished
  /\ UNCHANGED <<env, file, seen, target, faults, asked, done>>

SaveStateFails(p) ==
  /\ pc[p] = "save"
  /\ Fault
  /\ Die(p)
  /\ UNCHANGED <<env, file, row, seen, pass, elapsed, asked, done, finished>>

\* Mutant: the trigger file is removed when the run ends.
RunRoutineUnlinks(p) ==
  /\ pc[p] = "routine"
  /\ Goto(p, IF p = Loop THEN "sleep" ELSE "idle")
  /\ file' = FALSE
  /\ elapsed' = IF p = Loop THEN 0 ELSE elapsed
  /\ UNCHANGED <<env, row, seen, pass, faults, asked, done, finished>>

\* _run: weather, then the rules over the last lookback_days; its exceptions
\* are caught, so both outcomes lead to the same place.
RunRoutine(p) ==
  /\ pc[p] = "routine"
  /\ Goto(p, IF p = Loop THEN "sleep" ELSE "idle")
  /\ elapsed' = IF p = Loop THEN 0 ELSE elapsed
  /\ UNCHANGED <<env, file, row, seen, pass, faults, asked, done, finished>>

\* One nap of the "while elapsed < sleep_sec" loop, then a look at the trigger
\* file: nap = min(TRIGGER_POLL_SEC, sleep_sec - elapsed).
FullNap == PollSec                                           \* mutant: not capped
NapLength == IF SleepSec - elapsed < PollSec THEN SleepSec - elapsed ELSE PollSec

NapOn ==
  /\ ~ file
  /\ elapsed' = elapsed + NapLength
  /\ IF elapsed' < SleepSec THEN UNCHANGED pc ELSE Goto(Loop, "reload")
  /\ UNCHANGED <<file, faults>>

\* The file is unlinked before the run it asks for; where that fails, it
\* triggers again at the next nap.  The settings are not read again.
TakeTrigger ==
  /\ file
  /\ \/ file' = FALSE /\ UNCHANGED faults
     \/ UNCHANGED file /\ Fault
  /\ Goto(Loop, "pass")
  /\ UNCHANGED elapsed

Nap ==
  /\ pc[Loop] = "sleep" /\ elapsed < SleepSec
  /\ NapOn \/ TakeTrigger
  /\ UNCHANGED <<env, row, seen, pass, asked, done, finished>>

\* restart: unless-stopped brings the container back with nothing in memory.
Restart ==
  /\ pc[Loop] = "down"
  /\ Goto(Loop, "reload")
  /\ seen' = [seen EXCEPT ![Loop] = Default]
  /\ elapsed' = 0
  /\ UNCHANGED <<env, file, row, pass, faults, asked, done, finished>>

StartOneShot(p) ==
  /\ p # Loop /\ pc[p] = "idle"
  /\ Goto(p, "reload")
  /\ seen' = [seen EXCEPT ![p] = Default]
  /\ UNCHANGED <<env, file, row, pass, elapsed, faults, asked, done, finished>>

Crash(p) ==
  /\ pc[p] \notin {"down", "idle"}
  /\ Fault
  /\ Die(p)
  /\ UNCHANGED <<env, file, row, seen, pass, elapsed, asked, done, finished>>

------------------------------------------------------------------------------
\* Outside the loop.

\* POST /run-fdd, run_trigger_fdd, or touch.
Touch ==
  /\ file' = TRUE
  /\ asked' = TRUE
  /\ UNCHANGED <<env, row, pc, seen, pass, elapsed, faults, done, finished>>

PutConfig(c) ==
  /\ changes < MaxChanges /\ changes' = changes + 1
  /\ c # cfg /\ cfg' = c
  /\ finished' = None
  /\ UNCHANGED <<now, file, row, pc, seen, pass, elapsed, faults, asked, done>>

Tick ==
  /\ now < MaxNow /\ now' = now + 1
  /\ UNCHANGED <<cfg, changes, file, row, pc, seen, pass, elapsed, faults, asked, done, finished>>

Step(p) ==
  \/ Reload(p) \/ BeginPass(p) \/ BeginPassFails(p)
  \/ RunWindow(p) \/ RunWindowFails(p) \/ SaveState(p) \/ SaveStateFails(p)
  \/ RunRoutine(p) \/ StartOneShot(p) \/ Crash(p)

Next ==
  \/ \E p \in Procs : Step(p)
  \/ Nap \/ Restart \/ Touch \/ Tick
  \/ \E c \in Settings : PutConfig(c)

Spec == Init /\ [][Next]_vars

\* The container is scheduled and restarted; failures, requests, changes and
\* the clock are owed to nobody.
FairSpec ==
  /\ Spec
  /\ WF_vars(Reload(Loop)) /\ WF_vars(BeginPass(Loop)) /\ WF_vars(RunWindow(Loop))
  /\ WF_vars(SaveState(Loop)) /\ WF_vars(RunRoutine(Loop)) /\ WF_vars(Nap) /\ WF_vars(Restart)

------------------------------------------------------------------------------
TypeOK ==
  /\ now \in Nat
  /\ cfg \in Settings
  /\ file \in BOOLEAN
  /\ row \in Rows \cup {NoRow}
  /\ pc \in [Procs -> Pcs]
  /\ seen \in [Procs -> Settings]
  /\ cursor \in [Procs -> Int]
  /\ target \in [Procs -> Int]
  /\ elapsed \in 0..SleepSec
  /\ changes \in Nat
  /\ faults \in Nat
  /\ asked \in BOOLEAN
  /\ done \in [Keys -> SUBSET Int]
  /\ finished \in Keys \cup {None}

\* Whatever fails, restarts, is reconfigured or runs beside it, the stored
\* cursor never passes a point that no successful window of the same
\* fdd_backfill_start/end has evaluated.
CursorLeavesNoGap ==
  row # NoRow => row.key.start..row.last \subseteq done[row.key]

\* A closed pass never runs past fdd_backfill_end, so that the routine run,
\* not the backfill, evaluates what comes after.
CursorStaysInRange ==
  row # NoRow => row.last > row.key.start /\ (row.key.end # NoEnd => row.last <= row.key.end)

\* A request is never lost: until a run begins after it, either the file is
\* there or a run is about to begin, across unlink, restart and another touch.
NoTriggerLost ==
  asked => file \/ pc[Loop] \in {"reload", "pass", "down"}

\* With one process, the stored cursor moves back only when the settings it
\* belongs to change.
CursorNeverBack ==
  [][row # NoRow /\ row' # row /\ row'.key = row.key => row'.last > row.last]_vars

\* "one-pass": once the loop has completed a pass, and until the settings
\* change, it runs no more windows.
OnePass ==
  pc[Loop] = "window" => Key(seen[Loop]) # finished

\* If a closed range stays configured and requests cease, its backfill
\* completes and stays completed, whatever windows, saves and processes failed.
BackfillCompletes ==
  \A c \in Configs :
    BackfillOn(c) /\ c.end # NoEnd =>
      (<>[](cfg = c /\ ~ asked) => <>[](row # NoRow /\ row.key = Key(c) /\ row.last = c.end))

\* A bounded backfill does not keep the routine run, and with it the weather
\* fetch, away for ever: if the range stays closed (or the backfill off) and
\* requests cease, the routine run recurs.
RoutineKeepsRunning ==
  <>[](~ asked /\ (BackfillOn(cfg) => cfg.end # NoEnd)) => []<>(pc[Loop] = "routine")
==============================================================================
