----------------------------- MODULE OnboardIngest -----------------------------
(***************************************************************************)
(* How the readings of Onboard buildings reach the database:               *)
(* run_onboard_ingest_once in drivers/onboard.py, run by the               *)
(* onboard-scraper container (drivers/run_onboard_scrape.py --loop) and    *)
(* once by hand beside it.  A row of onboard_ingest_state carries each     *)
(* building's checkpoint from run to run.                                  *)
(*                                                                         *)
(* Time is cut into units; a unit stands for the readings in it.  A window *)
(* is fetched, stored and recorded in the row in one transaction; whether  *)
(* it then raises or the process is killed makes no difference to what is  *)
(* stored, and the next run keeps nothing in memory.                       *)
(***************************************************************************)
EXTENDS Integers

CONSTANTS
  Loop,         \* the scraper container
  Hands,        \* runs started by hand
  N,            \* buildings, numbered in the order a run polls them
  Configs,      \* what PUT /config may store: [start, end], the backfill settings
  Env,          \* the settings of the environment, used while GET /config fails
  NoTime,       \* backfill_start or backfill_end not set
  NoRow,        \* no row of the building yet
  Window,       \* scrape_interval_min
  FirstWindow,  \* max(180, scrape_interval_min)
  MaxNow,       \* bound: the clock
  MaxChanges,   \* bound: PUT /config
  MaxFaults     \* bound: errors and kills

Runners == {Loop} \cup Hands
Buildings == 1..N
Settings == Configs \cup {Env}
Rows == [done : BOOLEAN, last : Nat]

ASSUME OnboardSettings ==
  /\ NoTime \notin Nat /\ NoRow \notin Rows
  /\ \A s \in Settings : s \in [start : Nat \cup {NoTime}, end : Nat \cup {NoTime}]
ASSUME OnboardBounds ==
  /\ N \in Nat /\ Window \in Nat \ {0} /\ FirstWindow \in Nat /\ FirstWindow >= Window
  /\ MaxNow \in Nat /\ MaxChanges \in Nat /\ MaxFaults \in Nat

VARIABLES
  now, cfg,
  rows,      \* onboard_ingest_state, by building
  stored,    \* units with readings in timeseries_readings, by building
  pc,        \* where each run is
  used,      \* the settings of the run
  until,     \* its now_utc
  at,        \* the building it polls
  was,       \* the row it read
  cursor,    \* start of the next window
  changes, faults,
  twice,     \* history: units stored more than once
  waived,    \* history: units before a run's start that no row claimed
  excuses    \* history: what may store a unit twice

env == <<now, cfg, changes>>
locals == <<used, until, at, was, cursor>>
history == <<twice, waived, excuses>>
vars == <<env, rows, stored, pc, locals, faults, history>>

\* Time begins one window before the first poll.
Init ==
  /\ now = Window
  /\ cfg \in Settings
  /\ rows = [b \in Buildings |-> NoRow]
  /\ stored = [b \in Buildings |-> {}]
  /\ pc = [r \in Runners |-> "idle"]
  /\ used = [r \in Runners |-> Env] /\ until = [r \in Runners |-> Window]
  /\ at = [r \in Runners |-> 1]
  /\ was = [r \in Runners |-> NoRow] /\ cursor = [r \in Runners |-> 0]
  /\ changes = 0 /\ faults = 0
  /\ twice = [b \in Buildings |-> {}] /\ waived = [b \in Buildings |-> {}]
  /\ excuses = [b \in Buildings |-> {}]

Fault == faults < MaxFaults /\ faults' = faults + 1
Goto(r, l) == pc' = [pc EXCEPT ![r] = l]

------------------------------------------------------------------------------
\* run_onboard_ingest_once: what it computes.

Min2(a, b) == IF a < b THEN a ELSE b
Max2(a, b) == IF a < b THEN b ELSE a

\* inc_start.
StartFromFloor(s, row, t) ==                    \* mutant: the checkpoint is not used
  IF s.start # NoTime THEN s.start ELSE t - Window
IncStart(s, row, t) ==
  CASE row # NoRow /\ s.start # NoTime -> Max2(row.last, s.start)
    [] row # NoRow /\ s.start = NoTime -> row.last
    [] row = NoRow /\ s.start # NoTime -> s.start
    [] OTHER -> t - Window

WasDone(r) == was[r] # NoRow /\ was[r].done
EffectiveEnd(r) == IF WasDone(r) THEN NoTime ELSE used[r].end
TargetEnd(r) == IF EffectiveEnd(r) # NoTime THEN EffectiveEnd(r) ELSE until[r]
IncEnd(r) == Min2(until[r], TargetEnd(r))
StepLength(r) == IF used[r].start # NoTime /\ was[r] = NoRow THEN FirstWindow ELSE Window
WindowUncut(r) == cursor[r] + StepLength(r)      \* mutant: the last window is not cut at the end
WindowEnd(r) == Min2(cursor[r] + StepLength(r), IncEnd(r))

\* backfill_done, once everything up to e is stored.
DoneNever(r, e) == FALSE                        \* mutant: the cap is never lifted
DoneAt(r, e) == IF used[r].start = NoTime THEN WasDone(r) ELSE e >= TargetEnd(r)

\* The checkpoint saved at the end of a building.
SavedNow(r) == until[r]                         \* mutant: the time of the run, not the end of its windows
Saved(r) == IncEnd(r)

\* _save_state.
SaveState(r, e) ==
  /\ rows' = [rows EXCEPT ![at[r]] = [done |-> DoneAt(r, e), last |-> e]]
  /\ excuses' = [excuses EXCEPT ![at[r]] =
       @ \cup {x \in {"back"} : rows[at[r]] # NoRow /\ e < rows[at[r]].last}]

------------------------------------------------------------------------------
\* run_onboard_ingest_once: what it does.

\* _fetch_platform_config_cached: the settings of GET /config (the 30 s it keeps
\* an answer are over by the next poll), or of the environment without an answer.
FetchConfig(r) ==
  \/ used' = [used EXCEPT ![r] = cfg] /\ UNCHANGED faults
  \/ used' = [used EXCEPT ![r] = Env] /\ Fault

Begin(r) ==
  /\ pc[r] = "idle"
  /\ FetchConfig(r)
  /\ until' = [until EXCEPT ![r] = now]
  /\ at' = [at EXCEPT ![r] = 1]
  /\ was' = [was EXCEPT ![r] = NoRow] /\ cursor' = [cursor EXCEPT ![r] = 0]
  /\ Goto(r, "building")
  /\ excuses' = [b \in Buildings |-> excuses[b] \cup
                   {x \in {"overlap"} : \E u \in Runners \ {r} : pc[u] # "idle"}]
  /\ UNCHANGED <<env, rows, stored, twice, waived>>

NextBuilding(r) ==
  /\ at' = [at EXCEPT ![r] = @ + 1]
  /\ was' = [was EXCEPT ![r] = NoRow] /\ cursor' = [cursor EXCEPT ![r] = 0]
  /\ Goto(r, "building")

\* _load_state, the points of the building, inc_start.
LoadState(r) ==
  LET b == at[r]
      from == IncStart(used[r], rows[b], until[r]) IN
  /\ pc[r] = "building" /\ b \in Buildings
  /\ was' = [was EXCEPT ![r] = rows[b]]
  /\ cursor' = [cursor EXCEPT ![r] = from]
  /\ waived' = [waived EXCEPT ![b] =
       @ \cup ((IF rows[b] = NoRow THEN 0 ELSE rows[b].last)..(from - 1))]
  /\ Goto(r, "window")
  /\ UNCHANGED <<env, rows, stored, used, until, at, faults, twice, excuses>>

\* "continue": no site, or none of its points is mapped.
SkipBuilding(r) ==
  /\ pc[r] = "building" /\ at[r] \in Buildings
  /\ Fault
  /\ NextBuilding(r)
  /\ UNCHANGED <<env, rows, stored, used, until, history>>

\* The rows query-v2 returned for a window, those of every mapped point.
RowsOf(from, to) == from..(to - 1)
\* One window: every batch of points, inserted without ON CONFLICT, and the row.
StoreWindow(r) ==
  LET units == RowsOf(cursor[r], WindowEnd(r)) IN
  /\ pc[r] = "window" /\ cursor[r] < IncEnd(r)
  /\ stored' = [stored EXCEPT ![at[r]] = @ \cup units]
  /\ twice' = [twice EXCEPT ![at[r]] = @ \cup (stored[at[r]] \cap units)]
  /\ SaveState(r, WindowEnd(r))
  /\ cursor' = [cursor EXCEPT ![r] = WindowEnd(r)]
  /\ UNCHANGED <<env, pc, used, until, at, was, faults, waived>>

\* After the windows, if there were any.
FinishBuilding(r) ==
  /\ pc[r] = "window" /\ cursor[r] >= IncEnd(r)
  /\ SaveState(r, Saved(r))
  /\ NextBuilding(r)
  /\ UNCHANGED <<env, stored, used, until, faults, twice, waived>>

End(r) ==
  /\ pc[r] = "building" /\ at[r] \notin Buildings
  /\ Goto(r, "idle")
  /\ UNCHANGED <<env, rows, stored, locals, faults, history>>

\* Any error rolls back what is not committed and ends the run, as a kill does:
\* the buildings after this one are not polled.
Fails(r) ==
  /\ pc[r] # "idle"
  /\ Fault
  /\ Goto(r, "idle")
  /\ UNCHANGED <<env, rows, stored, locals, history>>

PutConfig(c) ==
  /\ changes < MaxChanges /\ changes' = changes + 1
  /\ c # cfg /\ cfg' = c
  /\ UNCHANGED <<now, rows, stored, pc, locals, faults, history>>

Tick ==
  /\ now < MaxNow /\ now' = now + 1
  /\ UNCHANGED <<cfg, changes, rows, stored, pc, locals, faults, history>>

Step(r) == Begin(r) \/ LoadState(r) \/ StoreWindow(r) \/ FinishBuilding(r) \/ End(r)

Next ==
  \/ \E r \in Runners : Step(r) \/ SkipBuilding(r) \/ Fails(r)
  \/ \E c \in Configs : PutConfig(c)
  \/ Tick

Spec == Init /\ [][Next]_vars

\* The container polls again and again; its runs go on.
FairSpec == Spec /\ WF_vars(Step(Loop))

------------------------------------------------------------------------------
\* No checkpoint lies in the future.
TypeOK ==
  /\ now \in Nat /\ now >= Window /\ cfg \in Settings
  /\ rows \in [Buildings -> Rows \cup {NoRow}]
  /\ \A b \in Buildings : rows[b] # NoRow => rows[b].last <= now
  /\ stored \in [Buildings -> SUBSET Nat]
  /\ pc \in [Runners -> {"idle", "building", "window"}]
  /\ used \in [Runners -> Settings]
  /\ until \in [Runners -> Nat]
  /\ \A r \in Runners : Window <= until[r] /\ until[r] <= now
  /\ at \in [Runners -> 1..(N + 1)]
  /\ was \in [Runners -> Rows \cup {NoRow}]
  /\ cursor \in [Runners -> Nat]
  /\ changes \in Nat /\ faults \in Nat
  /\ twice \in [Buildings -> SUBSET Nat] /\ waived \in [Buildings -> SUBSET Nat]
  /\ excuses \in [Buildings -> SUBSET {"back", "overlap"}]

\* "Rolling catch-up": every unit below a checkpoint is stored, or lay before
\* the start of a run and after the checkpoint that run found - whatever fails
\* between windows, however the settings change, and whoever runs beside it.
NoGapBelowCheckpoint ==
  \A b \in Buildings : rows[b] # NoRow => 0..(rows[b].last - 1) \subseteq stored[b] \cup waived[b]

\* Readings are inserted without ON CONFLICT: what keeps them single is the
\* checkpoint.  A unit is stored twice only after a checkpoint moved back or
\* two runs overlapped.
StoredOnce == \A b \in Buildings : excuses[b] = {} => twice[b] = {}

\* The checkpoint of a building.
Checkpoint(row) == IF row = NoRow THEN 0 ELSE row.last

\* A checkpoint moves back only under overlapping runs, or to the
\* backfill_end of a run that took the backfill for unfinished.
BackOnlyToEnd ==
  [][\A b \in Buildings : Checkpoint(rows'[b]) < Checkpoint(rows[b]) =>
       \/ "overlap" \in excuses[b]
       \/ \E r \in Runners : at[r] = b /\ ~ WasDone(r) /\ rows'[b].last = used[r].end]_vars

\* "toward now": unless an end without a start caps the runs, and once nobody
\* starts more runs by hand, again and again the loop has brought every
\* building to the moment its last run began.
NotCapped(c) == c.end = NoTime \/ c.start # NoTime
CatchesUp ==
  <>[](NotCapped(cfg) /\ \A h \in Hands : pc[h] = "idle") =>
    []<>(pc[Loop] = "idle" /\ \A b \in Buildings : Checkpoint(rows[b]) >= until[Loop])
==============================================================================
