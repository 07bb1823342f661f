----------------------------- MODULE ScraperProofs -----------------------------
(***************************************************************************)
(* The safety of the two scrapers, OnboardIngest and BacnetScrape.         *)
(*                                                                         *)
(* OnboardIngest, for any number of buildings and runs, any settings and   *)
(* window lengths: the inductive invariant follows a run through a         *)
(* building.  What lies before its cursor is accounted for, and, as long   *)
(* as no two runs overlapped, no checkpoint is past the cursor or the      *)
(* moment the run began.                                                   *)
(*                                                                         *)
(* BacnetScrape, for any points, devices and lists of gateways: the        *)
(* inductive invariant follows a poll through its devices.  The readings   *)
(* so far are exactly what is due: one of its own object for each point    *)
(* whose object answered, what came astray in a point's place beside it;   *)
(* and no device still to be asked has been heard.                         *)
(***************************************************************************)
EXTENDS OnboardIngest, BacnetScrape, FiniteSetTheorems, TLAPS

\* A run fetches windows of a building only.
AtBuilding == \A r \in Runners : pc[r] = "window" => at[r] \in Buildings

\* Everything before the cursor of a run is stored, or was waived.
CursorCovered ==
  \A r \in Runners : pc[r] = "window" => 0..(cursor[r] - 1) \subseteq stored[at[r]] \cup waived[at[r]]

\* No two runs overlapped so far.
Alone(b) == "overlap" \notin excuses[b]

OneRun ==
  \A b \in Buildings : Alone(b) =>
    \A r, u \in Runners : pc[r] # "idle" /\ pc[u] # "idle" => r = u

\* The one run is not behind the checkpoints it found or made.
RunAhead ==
  \A b \in Buildings : Alone(b) =>
    \A r \in Runners :
      /\ pc[r] # "idle" => Checkpoint(rows[b]) <= until[r]
      /\ pc[r] = "window" /\ at[r] = b => Checkpoint(rows[b]) <= cursor[r]

\* Nothing is stored at a checkpoint or after it.
StoredBelow ==
  \A b \in Buildings : excuses[b] = {} => stored[b] \subseteq 0..(Checkpoint(rows[b]) - 1)

IInv ==
  /\ TypeOK
  /\ AtBuilding
  /\ CursorCovered
  /\ NoGapBelowCheckpoint
  /\ OneRun
  /\ RunAhead
  /\ StoredBelow
  /\ StoredOnce

------------------------------------------------------------------------------
\* Facts about what a run computes.

\* A setting's two ends.
LEMMA SettingFields ==
  ASSUME NEW s \in Settings
  PROVE  s.start \in Nat \cup {NoTime} /\ s.end \in Nat \cup {NoTime}
  BY OnboardSettings

\* A row has a checkpoint, no row has none.
LEMMA CheckpointIsNat ==
  ASSUME NEW row \in Rows \cup {NoRow}
  PROVE  /\ Checkpoint(row) \in Nat
         /\ row # NoRow => row.last \in Nat /\ row.done \in BOOLEAN /\ Checkpoint(row) = row.last
         /\ row = NoRow => Checkpoint(row) = 0
  BY DEF Checkpoint, Rows

\* A run starts at a time, not before the checkpoint it found.
LEMMA StartAfterCheckpoint ==
  ASSUME NEW s \in Settings, NEW row \in Rows \cup {NoRow}, NEW t \in Nat, t >= Window
  PROVE  IncStart(s, row, t) \in Nat /\ Checkpoint(row) <= IncStart(s, row, t)
  <1>1. s.start \in Nat \cup {NoTime}
    BY SettingFields
  <1>2. CASE row # NoRow /\ s.start # NoTime
    <2>1. row.last \in Nat /\ s.start \in Nat /\ Checkpoint(row) = row.last
      BY <1>1, <1>2, CheckpointIsNat
    <2>2. IncStart(s, row, t) = Max2(row.last, s.start)
      BY <1>2 DEF IncStart
    <2> QED BY <2>1, <2>2 DEF Max2
  <1>3. CASE row # NoRow /\ s.start = NoTime
    <2>1. row.last \in Nat /\ Checkpoint(row) = row.last
      BY <1>3, CheckpointIsNat
    <2>2. IncStart(s, row, t) = row.last
      BY <1>3 DEF IncStart
    <2> QED BY <2>1, <2>2
  <1>4. CASE row = NoRow /\ s.start # NoTime
    <2>1. IncStart(s, row, t) = s.start
      BY <1>4 DEF IncStart
    <2> QED BY <1>1, <1>4, <2>1, CheckpointIsNat
  <1>5. CASE row = NoRow /\ s.start = NoTime
    <2>1. IncStart(s, row, t) = t - Window
      BY <1>5 DEF IncStart
    <2>2. Window \in Nat
      BY OnboardBounds
    <2> QED BY <1>5, <2>1, <2>2, CheckpointIsNat
  <1> QED BY <1>2, <1>3, <1>4, <1>5

\* A run ends at a time, not after it began; it ends earlier only at the
\* backfill_end of a backfill that it took for unfinished.
LEMMA EndNotAfterNow ==
  ASSUME TypeOK, NEW r \in Runners
  PROVE  /\ IncEnd(r) \in Nat /\ IncEnd(r) <= until[r]
         /\ IncEnd(r) < until[r] => ~ WasDone(r) /\ IncEnd(r) = used[r].end
  <1>1. until[r] \in Nat /\ used[r] \in Settings
    BY DEF TypeOK
  <1>2. used[r].end \in Nat \cup {NoTime}
    BY <1>1, SettingFields
  <1>3. CASE WasDone(r)
    <2>1. IncEnd(r) = until[r]
      BY <1>1, <1>3 DEF IncEnd, TargetEnd, EffectiveEnd, Min2
    <2> QED BY <1>1, <2>1
  <1>4. CASE ~ WasDone(r) /\ used[r].end = NoTime
    <2>1. IncEnd(r) = until[r]
      BY <1>1, <1>4 DEF IncEnd, TargetEnd, EffectiveEnd, Min2
    <2> QED BY <1>1, <2>1
  <1>5. CASE ~ WasDone(r) /\ used[r].end # NoTime
    <2>1. IncEnd(r) = Min2(until[r], used[r].end)
      BY <1>5 DEF IncEnd, TargetEnd, EffectiveEnd
    <2> QED BY <1>1, <1>2, <1>5, <2>1 DEF Min2
  <1> QED BY <1>3, <1>4, <1>5

\* A window ends after it starts, and not after the run's end.
LEMMA WindowAdvances ==
  ASSUME TypeOK, NEW r \in Runners, cursor[r] < IncEnd(r)
  PROVE  WindowEnd(r) \in Nat /\ cursor[r] < WindowEnd(r) /\ WindowEnd(r) <= IncEnd(r)
  <1>1. cursor[r] \in Nat
    BY DEF TypeOK
  <1>2. IncEnd(r) \in Nat
    BY EndNotAfterNow
  <1>3. StepLength(r) \in Nat /\ StepLength(r) > 0
    BY OnboardBounds DEF StepLength
  <1> QED BY <1>1, <1>2, <1>3 DEF WindowEnd, Min2

\* What is saved is a row.
LEMMA DoneIsBoolean ==
  ASSUME TypeOK, NEW r \in Runners, NEW e \in Nat
  PROVE  DoneAt(r, e) \in BOOLEAN
  <1>1. WasDone(r) \in BOOLEAN
    BY DEF WasDone
  <1>2. (e >= TargetEnd(r)) \in BOOLEAN
    OBVIOUS
  <1> QED BY <1>1, <1>2, Zenon DEF DoneAt

\* Saving the row of a building changes no other.
LEMMA RowSaved ==
  ASSUME TypeOK, NEW r \in Runners, at[r] \in Buildings,
         NEW e \in Nat, e <= until[r], SaveState(r, e)
  PROVE  /\ rows' \in [Buildings -> Rows \cup {NoRow}]
         /\ rows'[at[r]] # NoRow /\ rows'[at[r]].last = e /\ Checkpoint(rows'[at[r]]) = e
         /\ \A b \in Buildings : b # at[r] => rows'[b] = rows[b]
         /\ \A b \in Buildings : rows'[b] # NoRow => rows'[b].last <= now
         /\ excuses' \in [Buildings -> SUBSET {"back", "overlap"}]
         /\ \A b \in Buildings : excuses[b] \subseteq excuses'[b]
         /\ \A b \in Buildings : "overlap" \in excuses'[b] => "overlap" \in excuses[b]
         /\ excuses'[at[r]] = {} => Checkpoint(rows[at[r]]) <= e
  <1> DEFINE new == [done |-> DoneAt(r, e), last |-> e]
  <1>1. new \in Rows /\ new # NoRow /\ new.last = e
    BY DoneIsBoolean, OnboardSettings DEF Rows
  <1>2. rows' = [rows EXCEPT ![at[r]] = new]
    BY DEF SaveState
  <1>3. /\ rows' \in [Buildings -> Rows \cup {NoRow}]
        /\ rows'[at[r]] = new
        /\ \A b \in Buildings : b # at[r] => rows'[b] = rows[b]
    <2> HIDE DEF new
    <2> QED BY <1>1, <1>2 DEF TypeOK
  <1>4. Checkpoint(rows'[at[r]]) = e
    BY <1>1, <1>3 DEF Checkpoint
  <1>5. \A b \in Buildings : rows'[b] # NoRow => rows'[b].last <= now
    <2> HIDE DEF new
    <2>1. e <= now
      BY DEF TypeOK
    <2> QED BY <1>1, <1>3, <2>1 DEF TypeOK
  <1>6. /\ excuses' \in [Buildings -> SUBSET {"back", "overlap"}]
        /\ \A b \in Buildings : excuses[b] \subseteq excuses'[b]
        /\ \A b \in Buildings : "overlap" \in excuses'[b] => "overlap" \in excuses[b]
    BY DEF SaveState, TypeOK
  <1>7. excuses'[at[r]] = {} => Checkpoint(rows[at[r]]) <= e
    <2> SUFFICES ASSUME excuses'[at[r]] = {} PROVE Checkpoint(rows[at[r]]) <= e
      OBVIOUS
    <2>1. rows[at[r]] \in Rows \cup {NoRow}
      BY DEF TypeOK
    <2>2. ~ (rows[at[r]] # NoRow /\ e < rows[at[r]].last)
      BY DEF SaveState, TypeOK
    <2> QED BY <2>1, <2>2, CheckpointIsNat
  <1> QED BY <1>1, <1>3, <1>4, <1>5, <1>6, <1>7

------------------------------------------------------------------------------
LEMMA InitIInv == Init => IInv
  <1> SUFFICES ASSUME Init PROVE IInv
    OBVIOUS
  <1>1. TypeOK
    <2>1. /\ now \in Nat /\ now >= Window /\ cfg \in Settings
          /\ changes \in Nat /\ faults \in Nat
      BY OnboardBounds DEF Init
    <2>2. /\ rows \in [Buildings -> Rows \cup {NoRow}]
          /\ \A b \in Buildings : rows[b] = NoRow
          /\ stored \in [Buildings -> SUBSET Nat]
          /\ twice \in [Buildings -> SUBSET Nat] /\ waived \in [Buildings -> SUBSET Nat]
          /\ excuses \in [Buildings -> SUBSET {"back", "overlap"}]
      BY DEF Init
    <2>3. /\ pc \in [Runners -> {"idle", "building", "window"}]
          /\ used \in [Runners -> Settings]
          /\ was \in [Runners -> Rows \cup {NoRow}]
      BY DEF Init, Settings
    <2>4. /\ until \in [Runners -> Nat] /\ \A r \in Runners : until[r] = Window /\ until[r] = now
          /\ at \in [Runners -> 1..(N + 1)] /\ cursor \in [Runners -> Nat]
      BY OnboardBounds DEF Init
    <2> QED BY <2>1, <2>2, <2>3, <2>4 DEF TypeOK
  <1>2. AtBuilding /\ CursorCovered /\ OneRun /\ RunAhead
    BY DEF Init, AtBuilding, CursorCovered, OneRun, RunAhead
  <1>3. NoGapBelowCheckpoint /\ StoredBelow /\ StoredOnce
    BY DEF Init, NoGapBelowCheckpoint, StoredBelow, StoredOnce
  <1> QED BY <1>1, <1>2, <1>3 DEF IInv

\* Nothing of the invariant reads the clock's bound, the configuration or the
\* counters, and the clock only advances.
LEMMA PutConfigIInv ==
  ASSUME IInv, NEW c \in Configs, PutConfig(c)
  PROVE  IInv'
  <1>1. TypeOK'
    BY DEF IInv, TypeOK, PutConfig, locals, history, Settings
  <1>2. (AtBuilding /\ CursorCovered /\ OneRun /\ RunAhead)'
    BY DEF IInv, PutConfig, locals, history, AtBuilding, CursorCovered, OneRun, Alone, RunAhead
  <1>3. (NoGapBelowCheckpoint /\ StoredBelow /\ StoredOnce)'
    BY DEF IInv, PutConfig, locals, history, NoGapBelowCheckpoint, StoredBelow, StoredOnce
  <1> QED BY <1>1, <1>2, <1>3 DEF IInv

LEMMA TickIInv ==
  ASSUME IInv, Tick
  PROVE  IInv'
  <1>1. TypeOK'
    <2>1. now \in Nat /\ now' = now + 1
      BY DEF IInv, TypeOK, Tick
    <2>2. \A b \in Buildings : rows'[b] # NoRow => rows'[b].last <= now'
      <3> SUFFICES ASSUME NEW b \in Buildings, rows[b] # NoRow PROVE rows[b].last <= now + 1
        BY <2>1 DEF Tick
      <3>1. rows[b].last \in Nat /\ rows[b].last <= now
        BY CheckpointIsNat DEF IInv, TypeOK
      <3> QED BY <2>1, <3>1
    <2>3. now' >= Window /\ \A r \in Runners : Window <= until'[r] /\ until'[r] <= now'
      BY <2>1, OnboardBounds DEF IInv, TypeOK, Tick, locals
    <2> QED BY <2>1, <2>2, <2>3 DEF IInv, TypeOK, Tick, locals, history
  <1>2. (AtBuilding /\ CursorCovered /\ OneRun /\ RunAhead)'
    BY DEF IInv, Tick, locals, history, AtBuilding, CursorCovered, OneRun, Alone, RunAhead
  <1>3. (NoGapBelowCheckpoint /\ StoredBelow /\ StoredOnce)'
    BY DEF IInv, Tick, locals, history, NoGapBelowCheckpoint, StoredBelow, StoredOnce
  <1> QED BY <1>1, <1>2, <1>3 DEF IInv

\* A run begins: it is alone, or every building gets the excuse.
LEMMA BeginIInv ==
  ASSUME IInv, NEW r \in Runners, Begin(r)
  PROVE  IInv'
  <1> USE DEF IInv
  <1>1. /\ \A b \in Buildings : excuses[b] \subseteq excuses'[b]
        /\ \A b \in Buildings : Alone(b)' => Alone(b) /\ \A u \in Runners \ {r} : pc[u] = "idle"
        /\ excuses' \in [Buildings -> SUBSET {"back", "overlap"}]
    BY DEF Begin, FetchConfig, Alone, TypeOK
  <1>2. /\ pc' = [pc EXCEPT ![r] = "building"] /\ until' = [until EXCEPT ![r] = now]
        /\ at' = [at EXCEPT ![r] = 1] /\ was' = [was EXCEPT ![r] = NoRow]
        /\ cursor' = [cursor EXCEPT ![r] = 0]
        /\ used' \in [Runners -> Settings] /\ faults' \in Nat
        /\ UNCHANGED <<now, cfg, changes, rows, stored, twice, waived>>
    BY DEF Begin, FetchConfig, Goto, Fault, env, Settings, TypeOK
  <1>3. TypeOK'
    <2>1. at' \in [Runners -> 1..(N + 1)]
      BY <1>2, OnboardBounds DEF TypeOK
    <2>2. /\ until' \in [Runners -> Nat]
          /\ \A u \in Runners : Window <= until'[u] /\ until'[u] <= now'
      BY <1>2, OnboardBounds DEF TypeOK
    <2>3. /\ pc' \in [Runners -> {"idle", "building", "window"}]
          /\ was' \in [Runners -> Rows \cup {NoRow}] /\ cursor' \in [Runners -> Nat]
      BY <1>2 DEF TypeOK
    <2> QED BY <1>1, <1>2, <2>1, <2>2, <2>3 DEF TypeOK
  <1>4. (AtBuilding /\ CursorCovered)'
    BY <1>2 DEF AtBuilding, CursorCovered, TypeOK
  <1>5. OneRun'
    BY <1>1, <1>2 DEF OneRun, TypeOK
  <1>6. RunAhead'
    <2> SUFFICES ASSUME NEW b \in Buildings, Alone(b)', NEW u \in Runners
                 PROVE  /\ pc'[u] # "idle" => Checkpoint(rows[b]) <= until'[u]
                        /\ pc'[u] = "window" /\ at'[u] = b => Checkpoint(rows[b]) <= cursor'[u]
      BY <1>2 DEF RunAhead
    <2>1. rows[b] \in Rows \cup {NoRow}
      BY DEF TypeOK
    <2>2. Checkpoint(rows[b]) <= now
      BY <2>1, CheckpointIsNat DEF TypeOK
    <2> QED BY <1>1, <1>2, <2>2 DEF TypeOK
  <1>7. (NoGapBelowCheckpoint /\ StoredBelow /\ StoredOnce)'
    <2>1. NoGapBelowCheckpoint'
      BY <1>2 DEF NoGapBelowCheckpoint
    <2>2. \A b \in Buildings : excuses'[b] = {} => excuses[b] = {}
      BY <1>1
    <2> QED BY <1>2, <2>1, <2>2 DEF StoredBelow, StoredOnce
  <1> QED BY <1>3, <1>4, <1>5, <1>6, <1>7

\* A run reads the row of a building: its cursor is at the checkpoint, and what
\* it leaves out before its start is waived.
LEMMA LoadStateIInv ==
  ASSUME IInv, NEW r \in Runners, LoadState(r)
  PROVE  IInv'
  <1> USE DEF IInv
  <1> DEFINE b == at[r]
             from == IncStart(used[r], rows[b], until[r])
  <1>1. b \in Buildings /\ rows[b] \in Rows \cup {NoRow}
    BY DEF LoadState, TypeOK
  <1>2. from \in Nat /\ Checkpoint(rows[b]) <= from
    BY <1>1, StartAfterCheckpoint DEF TypeOK
  <1>3. /\ pc' = [pc EXCEPT ![r] = "window"] /\ was' = [was EXCEPT ![r] = rows[b]]
        /\ cursor' = [cursor EXCEPT ![r] = from]
        /\ UNCHANGED <<env, rows, stored, used, until, at, faults, twice, excuses>>
    BY DEF LoadState, Goto
  <1>4. /\ waived' = [waived EXCEPT ![b] = @ \cup (Checkpoint(rows[b])..(from - 1))]
        /\ waived' \in [Buildings -> SUBSET Nat]
    <2>1. waived' = [waived EXCEPT ![b] = @ \cup (Checkpoint(rows[b])..(from - 1))]
      BY DEF LoadState, Checkpoint
    <2>2. Checkpoint(rows[b]) \in Nat
      BY <1>1, CheckpointIsNat
    <2>3. (Checkpoint(rows[b])..(from - 1)) \subseteq Nat
      BY <1>2, <2>2
    <2> QED BY <1>1, <2>1, <2>3 DEF TypeOK
  <1>5. \A c \in Buildings : waived[c] \subseteq waived'[c]
    BY <1>1, <1>4 DEF TypeOK
  <1>6. TypeOK'
    BY <1>1, <1>2, <1>3, <1>4 DEF TypeOK, env
  <1>7. AtBuilding'
    BY <1>1, <1>3 DEF AtBuilding, TypeOK
  <1>8. CursorCovered'
    <2> SUFFICES ASSUME NEW u \in Runners, pc'[u] = "window", NEW x \in 0..(cursor'[u] - 1)
                 PROVE  x \in stored[at[u]] \/ x \in waived'[at[u]]
      BY <1>3 DEF CursorCovered
    <2>1. CASE u = r
      <3>1. cursor'[u] = from
        BY <1>3, <2>1 DEF TypeOK
      <3>2. CASE x < Checkpoint(rows[b])
        <4>1. x \in stored[b] \cup waived[b]
          BY <1>1, <3>2, CheckpointIsNat DEF NoGapBelowCheckpoint
        <4> QED BY <1>1, <1>5, <2>1, <4>1
      <3>3. CASE x >= Checkpoint(rows[b])
        <4>1. x \in Checkpoint(rows[b])..(from - 1)
          BY <1>1, <1>2, <3>1, <3>3, CheckpointIsNat
        <4> QED BY <1>1, <1>4, <2>1, <4>1 DEF TypeOK
      <3> QED BY <1>1, <3>2, <3>3, CheckpointIsNat
    <2>2. CASE u # r
      <3>1. pc[u] = "window" /\ cursor'[u] = cursor[u]
        BY <1>3, <2>2 DEF TypeOK
      <3>2. at[u] \in Buildings
        BY <3>1 DEF AtBuilding
      <3>3. x \in stored[at[u]] \cup waived[at[u]]
        BY <3>1 DEF CursorCovered
      <3> QED BY <1>5, <3>2, <3>3
    <2> QED BY <2>1, <2>2
  <1>9. NoGapBelowCheckpoint'
    <2> SUFFICES ASSUME NEW c \in Buildings, rows[c] # NoRow
                 PROVE  0..(rows[c].last - 1) \subseteq stored[c] \cup waived'[c]
      BY <1>3 DEF NoGapBelowCheckpoint
    <2> QED BY <1>5 DEF NoGapBelowCheckpoint
  <1>10. (OneRun /\ RunAhead)'
    <2>1. pc[r] # "idle"
      BY DEF LoadState
    <2>2. OneRun'
      BY <1>3, <2>1 DEF OneRun, Alone, TypeOK
    <2>3. RunAhead'
      <3> SUFFICES ASSUME NEW c \in Buildings, Alone(c), NEW u \in Runners
                   PROVE  /\ pc'[u] # "idle" => Checkpoint(rows[c]) <= until[u]
                          /\ pc'[u] = "window" /\ at[u] = c => Checkpoint(rows[c]) <= cursor'[u]
        BY <1>3 DEF RunAhead, Alone
      <3>1. CASE u = r
        BY <1>2, <1>3, <2>1, <3>1 DEF RunAhead, TypeOK
      <3>2. CASE u # r
        BY <1>3, <3>2 DEF RunAhead, TypeOK
      <3> QED BY <3>1, <3>2
    <2> QED BY <2>2, <2>3
  <1>11. (StoredBelow /\ StoredOnce)'
    BY <1>3 DEF StoredBelow, StoredOnce
  <1> QED BY <1>6, <1>7, <1>8, <1>9, <1>10, <1>11

\* A run leaves a building, or is over, without storing anything.
LEMMA RunMovesOn ==
  ASSUME IInv, NEW r \in Runners, pc[r] # "idle",
         NEW l \in {"idle", "building"}, pc' = [pc EXCEPT ![r] = l],
         TypeOK', UNCHANGED <<rows, stored, until, twice, waived, excuses>>,
         \A u \in Runners \ {r} : at'[u] = at[u] /\ cursor'[u] = cursor[u]
  PROVE  IInv'
  <1> USE DEF IInv
  <1>1. \A u \in Runners : pc'[u] = "window" =>
          u # r /\ pc[u] = "window" /\ at'[u] = at[u] /\ cursor'[u] = cursor[u]
    BY DEF TypeOK
  <1>2. \A u \in Runners : pc'[u] # "idle" => pc[u] # "idle"
    BY DEF TypeOK
  <1>3. (AtBuilding /\ CursorCovered)'
    BY <1>1 DEF AtBuilding, CursorCovered
  <1>4. (OneRun /\ RunAhead)'
    BY <1>1, <1>2 DEF OneRun, RunAhead, Alone
  <1>5. (NoGapBelowCheckpoint /\ StoredBelow /\ StoredOnce)'
    BY DEF NoGapBelowCheckpoint, StoredBelow, StoredOnce
  <1> QED BY <1>3, <1>4, <1>5

LEMMA SkipBuildingIInv ==
  ASSUME IInv, NEW r \in Runners, SkipBuilding(r)
  PROVE  IInv'
  <1> USE DEF IInv
  <1>1. /\ at' = [at EXCEPT ![r] = @ + 1] /\ was' = [was EXCEPT ![r] = NoRow]
        /\ cursor' = [cursor EXCEPT ![r] = 0] /\ pc' = [pc EXCEPT ![r] = "building"]
        /\ faults' \in Nat /\ pc[r] = "building"
        /\ UNCHANGED <<env, rows, stored, used, until, twice, waived, excuses>>
    BY DEF SkipBuilding, NextBuilding, Goto, Fault, history, TypeOK
  <1>2. at' \in [Runners -> 1..(N + 1)]
    BY <1>1, OnboardBounds DEF SkipBuilding, Buildings, TypeOK
  <1>3. TypeOK'
    BY <1>1, <1>2 DEF TypeOK, env
  <1>4. \A u \in Runners \ {r} : at'[u] = at[u] /\ cursor'[u] = cursor[u]
    BY <1>1 DEF TypeOK
  <1> QED BY <1>1, <1>3, <1>4, RunMovesOn

LEMMA RunOverIInv ==
  ASSUME IInv, NEW r \in Runners, End(r) \/ Fails(r)
  PROVE  IInv'
  <1> USE DEF IInv
  <1>1. /\ pc[r] # "idle" /\ pc' = [pc EXCEPT ![r] = "idle"] /\ faults' \in Nat
        /\ UNCHANGED <<env, rows, stored, locals, history>>
    BY DEF End, Fails, Goto, Fault, TypeOK
  <1>2. TypeOK'
    BY <1>1 DEF TypeOK, env, locals, history
  <1> QED BY <1>1, <1>2, RunMovesOn DEF locals, history

\* A window is stored and recorded: the units join what lies before the cursor.
LEMMA StoreWindowIInv ==
  ASSUME IInv, NEW r \in Runners, StoreWindow(r)
  PROVE  IInv'
  <1> USE DEF IInv
  <1> DEFINE b == at[r]
             e == WindowEnd(r)
             units == cursor[r]..(e - 1)
  <1>1. pc[r] = "window" /\ b \in Buildings /\ cursor[r] \in Nat
    BY DEF StoreWindow, AtBuilding, TypeOK
  <1>2. e \in Nat /\ cursor[r] < e /\ e <= until[r]
    <2>1. cursor[r] < IncEnd(r)
      BY DEF StoreWindow
    <2> QED BY <2>1, WindowAdvances, EndNotAfterNow DEF TypeOK
  <1>3. SaveState(r, e)
    BY DEF StoreWindow
  <1>4. /\ stored' = [stored EXCEPT ![b] = @ \cup units]
        /\ twice' = [twice EXCEPT ![b] = @ \cup (stored[b] \cap units)]
        /\ cursor' = [cursor EXCEPT ![r] = e]
        /\ UNCHANGED <<now, cfg, changes, pc, used, until, at, was, faults, waived>>
    BY DEF StoreWindow, RowsOf, env
  <1> HIDE DEF e
  <1>5. /\ rows' \in [Buildings -> Rows \cup {NoRow}]
        /\ rows'[b] # NoRow /\ rows'[b].last = e /\ Checkpoint(rows'[b]) = e
        /\ \A c \in Buildings : c # b => rows'[c] = rows[c]
        /\ \A c \in Buildings : rows'[c] # NoRow => rows'[c].last <= now
        /\ excuses' \in [Buildings -> SUBSET {"back", "overlap"}]
        /\ \A c \in Buildings : excuses[c] \subseteq excuses'[c]
        /\ \A c \in Buildings : "overlap" \in excuses'[c] => "overlap" \in excuses[c]
    BY <1>1, <1>2, <1>3, RowSaved
  <1>6. /\ stored'[b] = stored[b] \cup units /\ \A c \in Buildings : stored[c] \subseteq stored'[c]
        /\ \A c \in Buildings : c # b => stored'[c] = stored[c]
    BY <1>1, <1>4 DEF TypeOK
  <1>7. TypeOK'
    <2>1. units \subseteq Nat
      BY <1>1, <1>2
    <2>2. stored' \in [Buildings -> SUBSET Nat] /\ twice' \in [Buildings -> SUBSET Nat]
      BY <1>1, <1>4, <2>1 DEF TypeOK
    <2>3. cursor' \in [Runners -> Nat]
      BY <1>2, <1>4 DEF TypeOK
    <2> QED BY <1>4, <1>5, <2>2, <2>3 DEF TypeOK
  <1>8. AtBuilding'
    BY <1>4 DEF AtBuilding
  <1>9. 0..(e - 1) \subseteq stored'[b] \cup waived[b]
    <2> SUFFICES ASSUME NEW x \in 0..(e - 1) PROVE x \in stored'[b] \cup waived[b]
      OBVIOUS
    <2>1. CASE x < cursor[r]
      <3>1. x \in 0..(cursor[r] - 1)
        BY <1>1, <2>1
      <3> QED BY <1>1, <1>6, <3>1 DEF CursorCovered
    <2>2. CASE x >= cursor[r]
      <3>1. x \in units
        BY <1>1, <1>2, <2>2
      <3> QED BY <1>6, <3>1
    <2> QED BY <1>1, <2>1, <2>2
  <1>10. CursorCovered'
    <2> SUFFICES ASSUME NEW u \in Runners, pc[u] = "window"
                 PROVE  0..(cursor'[u] - 1) \subseteq stored'[at[u]] \cup waived[at[u]]
      BY <1>4 DEF CursorCovered
    <2>1. CASE u = r
      BY <1>4, <1>9, <2>1 DEF TypeOK
    <2>2. CASE u # r
      <3>1. cursor'[u] = cursor[u]
        BY <1>4, <2>2 DEF TypeOK
      <3>2. at[u] \in Buildings
        BY DEF AtBuilding
      <3> QED BY <1>6, <3>1, <3>2 DEF CursorCovered
    <2> QED BY <2>1, <2>2
  <1>11. NoGapBelowCheckpoint'
    <2> SUFFICES ASSUME NEW c \in Buildings, rows'[c] # NoRow
                 PROVE  0..(rows'[c].last - 1) \subseteq stored'[c] \cup waived[c]
      BY <1>4 DEF NoGapBelowCheckpoint
    <2>1. CASE c = b
      BY <1>5, <1>9, <2>1
    <2>2. CASE c # b
      BY <1>5, <1>6, <2>2 DEF NoGapBelowCheckpoint
    <2> QED BY <2>1, <2>2
  <1>12. OneRun'
    BY <1>4, <1>5 DEF OneRun, Alone
  <1>13. RunAhead'
    <2> SUFFICES ASSUME NEW c \in Buildings, Alone(c), NEW u \in Runners
                 PROVE  /\ pc[u] # "idle" => Checkpoint(rows'[c]) <= until[u]
                        /\ pc[u] = "window" /\ at[u] = c => Checkpoint(rows'[c]) <= cursor'[u]
      BY <1>4, <1>5 DEF RunAhead, Alone
    <2>1. pc[u] # "idle" => u = r
      BY <1>1 DEF OneRun
    <2>2. CASE c = b
      BY <1>2, <1>4, <1>5, <2>1, <2>2 DEF TypeOK
    <2>3. CASE c # b
      BY <1>4, <1>5, <2>1, <2>3 DEF RunAhead, TypeOK
    <2> QED BY <2>2, <2>3
  <1>14. excuses'[b] = {} => excuses[b] = {} /\ Checkpoint(rows[b]) <= cursor[r]
    BY <1>1, <1>5 DEF RunAhead, Alone
  <1>15. Checkpoint(rows[b]) \in Nat
    BY <1>1, CheckpointIsNat DEF TypeOK
  <1>16. StoredBelow'
    <2> SUFFICES ASSUME NEW c \in Buildings, excuses'[c] = {}
                 PROVE  stored'[c] \subseteq 0..(Checkpoint(rows'[c]) - 1)
      BY DEF StoredBelow
    <2>1. CASE c = b
      <3>1. stored[b] \subseteq 0..(Checkpoint(rows[b]) - 1)
        BY <1>1, <1>14, <2>1 DEF StoredBelow
      <3>2. 0..(Checkpoint(rows[b]) - 1) \subseteq 0..(e - 1) /\ units \subseteq 0..(e - 1)
        BY <1>1, <1>2, <1>14, <1>15, <2>1
      <3> QED BY <1>5, <1>6, <2>1, <3>1, <3>2
    <2>2. CASE c # b
      BY <1>5, <1>6, <2>2 DEF StoredBelow
    <2> QED BY <2>1, <2>2
  <1>17. StoredOnce'
    <2> SUFFICES ASSUME NEW c \in Buildings, excuses'[c] = {} PROVE twice'[c] = {}
      BY DEF StoredOnce
    <2>1. CASE c = b
      <3>1. stored[b] \cap units = {}
        <4>1. stored[b] \subseteq 0..(Checkpoint(rows[b]) - 1)
          BY <1>1, <1>14, <2>1 DEF StoredBelow
        <4>2. (0..(Checkpoint(rows[b]) - 1)) \cap units = {}
          BY <1>1, <1>2, <1>14, <1>15, <2>1
        <4> QED BY <4>1, <4>2
      <3> QED BY <1>1, <1>4, <1>14, <2>1, <3>1 DEF StoredOnce, TypeOK
    <2>2. CASE c # b
      BY <1>4, <1>5, <2>2 DEF StoredOnce, TypeOK
    <2> QED BY <2>1, <2>2
  <1> QED BY <1>7, <1>8, <1>10, <1>11, <1>12, <1>13, <1>16, <1>17

\* The end of a building: the checkpoint is the end of the run, which the
\* cursor has reached.
LEMMA FinishBuildingIInv ==
  ASSUME IInv, NEW r \in Runners, FinishBuilding(r)
  PROVE  IInv'
  <1> USE DEF IInv
  <1> DEFINE b == at[r]
             e == IncEnd(r)
  <1>1. pc[r] = "window" /\ b \in Buildings /\ cursor[r] \in Nat /\ cursor[r] >= e
    BY DEF FinishBuilding, AtBuilding, TypeOK
  <1>2. e \in Nat /\ e <= until[r]
    BY EndNotAfterNow
  <1>3. SaveState(r, e)
    BY DEF FinishBuilding, Saved
  <1>4. /\ at' = [at EXCEPT ![r] = @ + 1] /\ was' = [was EXCEPT ![r] = NoRow]
        /\ cursor' = [cursor EXCEPT ![r] = 0] /\ pc' = [pc EXCEPT ![r] = "building"]
        /\ UNCHANGED <<now, cfg, changes, stored, used, until, faults, twice, waived>>
    BY DEF FinishBuilding, NextBuilding, Goto, env
  <1> HIDE DEF e
  <1>5. /\ rows' \in [Buildings -> Rows \cup {NoRow}]
        /\ rows'[b] # NoRow /\ rows'[b].last = e /\ Checkpoint(rows'[b]) = e
        /\ \A c \in Buildings : c # b => rows'[c] = rows[c]
        /\ \A c \in Buildings : rows'[c] # NoRow => rows'[c].last <= now
        /\ excuses' \in [Buildings -> SUBSET {"back", "overlap"}]
        /\ \A c \in Buildings : excuses[c] \subseteq excuses'[c]
        /\ \A c \in Buildings : "overlap" \in excuses'[c] => "overlap" \in excuses[c]
        /\ excuses'[b] = {} => Checkpoint(rows[b]) <= e
    BY <1>1, <1>2, <1>3, RowSaved
  <1>6. TypeOK'
    <2>1. at' \in [Runners -> 1..(N + 1)]
      BY <1>1, <1>4, OnboardBounds DEF TypeOK, Buildings
    <2> QED BY <1>4, <1>5, <2>1 DEF TypeOK
  <1>7. /\ \A u \in Runners : pc'[u] = "window" =>
             u # r /\ pc[u] = "window" /\ at'[u] = at[u] /\ cursor'[u] = cursor[u]
        /\ \A u \in Runners : pc'[u] # "idle" => pc[u] # "idle"
    BY <1>1, <1>4 DEF TypeOK
  <1>8. (AtBuilding /\ CursorCovered)'
    BY <1>4, <1>7 DEF AtBuilding, CursorCovered
  <1>9. 0..(e - 1) \subseteq stored[b] \cup waived[b]
    <2>1. 0..(e - 1) \subseteq 0..(cursor[r] - 1)
      BY <1>1, <1>2
    <2> QED BY <1>1, <2>1 DEF CursorCovered
  <1>10. NoGapBelowCheckpoint'
    <2> SUFFICES ASSUME NEW c \in Buildings, rows'[c] # NoRow
                 PROVE  0..(rows'[c].last - 1) \subseteq stored[c] \cup waived[c]
      BY <1>4 DEF NoGapBelowCheckpoint
    <2>1. CASE c = b
      BY <1>5, <1>9, <2>1
    <2>2. CASE c # b
      BY <1>5, <2>2 DEF NoGapBelowCheckpoint
    <2> QED BY <2>1, <2>2
  <1>11. OneRun'
    BY <1>5, <1>7 DEF OneRun, Alone
  <1>12. RunAhead'
    <2> SUFFICES ASSUME NEW c \in Buildings, Alone(c), NEW u \in Runners, pc'[u] # "idle"
                 PROVE  /\ pc'[u] # "window" /\ Checkpoint(rows'[c]) <= until[u]
      BY <1>4, <1>5 DEF RunAhead, Alone
    <2>1. u = r
      BY <1>1, <1>7 DEF OneRun
    <2>2. pc'[u] # "window"
      BY <1>7, <2>1
    <2>3. CASE c = b
      BY <1>2, <1>5, <2>1, <2>2, <2>3
    <2>4. CASE c # b
      BY <1>5, <1>7, <2>2, <2>4 DEF RunAhead
    <2> QED BY <2>3, <2>4
  <1>13. StoredBelow'
    <2> SUFFICES ASSUME NEW c \in Buildings, excuses'[c] = {}
                 PROVE  stored[c] \subseteq 0..(Checkpoint(rows'[c]) - 1)
      BY <1>4 DEF StoredBelow
    <2>1. excuses[c] = {}
      BY <1>5
    <2>2. CASE c = b
      <3>1. stored[b] \subseteq 0..(Checkpoint(rows[b]) - 1)
        BY <1>1, <2>1, <2>2 DEF StoredBelow
      <3>2. Checkpoint(rows[b]) \in Nat
        BY <1>1, CheckpointIsNat DEF TypeOK
      <3>3. 0..(Checkpoint(rows[b]) - 1) \subseteq 0..(e - 1)
        BY <1>2, <1>5, <2>2, <3>2
      <3> QED BY <1>5, <2>2, <3>1, <3>3
    <2>3. CASE c # b
      BY <1>5, <2>1, <2>3 DEF StoredBelow
    <2> QED BY <2>2, <2>3
  <1>14. StoredOnce'
    BY <1>4, <1>5 DEF StoredOnce
  <1> QED BY <1>6, <1>8, <1>10, <1>11, <1>12, <1>13, <1>14

------------------------------------------------------------------------------
\* Every step of the system keeps the inductive invariant.
LEMMA NextIInv == IInv /\ [Next]_vars => IInv'
  <1> SUFFICES ASSUME IInv, [Next]_vars PROVE IInv'
    OBVIOUS
  <1>1. ASSUME NEW r \in Runners, Step(r) PROVE IInv'
    BY <1>1, BeginIInv, LoadStateIInv, StoreWindowIInv, FinishBuildingIInv, RunOverIInv DEF Step
  <1>2. ASSUME NEW r \in Runners, SkipBuilding(r) PROVE IInv'
    BY <1>2, SkipBuildingIInv
  <1>3. ASSUME NEW r \in Runners, Fails(r) PROVE IInv'
    BY <1>3, RunOverIInv
  <1>4. ASSUME NEW c \in Configs, PutConfig(c) PROVE IInv'
    BY <1>4, PutConfigIInv
  <1>5. CASE Tick
    BY <1>5, TickIInv
  <1>6. CASE UNCHANGED vars
    <2> USE <1>6 DEF vars, env, locals, history
    <2>1. TypeOK'
      BY DEF IInv, TypeOK
    <2>2. (AtBuilding /\ CursorCovered /\ OneRun /\ RunAhead)'
      BY DEF IInv, AtBuilding, CursorCovered, OneRun, Alone, RunAhead
    <2>3. (NoGapBelowCheckpoint /\ StoredBelow /\ StoredOnce)'
      BY DEF IInv, NoGapBelowCheckpoint, StoredBelow, StoredOnce
    <2> QED BY <2>1, <2>2, <2>3 DEF IInv
  <1> QED BY <1>1, <1>2, <1>3, <1>4, <1>5, <1>6 DEF Next

\* The inductive invariant holds in every reachable state.
THEOREM Invariance == Spec => []IInv
  BY InitIInv, NextIInv, PTL DEF Spec

\* Every variable of the model keeps its type; no checkpoint and no run is
\* ahead of the clock (inc_end and the windows of run_onboard_ingest_once).
THEOREM OnboardTypeCorrect == Spec => []TypeOK
  BY Invariance, PTL DEF IInv

\* Every unit below a building's last_poll_end is stored or was before the
\* start of a run: a failure, a change of the backfill settings or a second
\* run never leaves a hole that the row claims to be done.
THEOREM GapFree == Spec => []NoGapBelowCheckpoint
  BY Invariance, PTL DEF IInv

\* The insert has no ON CONFLICT clause, and still no unit is stored twice as
\* long as no two runs overlapped and no checkpoint of the building moved back.
THEOREM Single == Spec => []StoredOnce
  BY Invariance, PTL DEF IInv

\* A checkpoint only moves back under overlapping runs, or to the backfill_end
\* of a run that found backfill_done FALSE.
LEMMA BackStep ==
  ASSUME IInv, [Next]_vars, NEW b \in Buildings, Checkpoint(rows'[b]) < Checkpoint(rows[b])
  PROVE  \/ "overlap" \in excuses[b]
         \/ \E r \in Runners : at[r] = b /\ ~ WasDone(r) /\ rows'[b].last = used[r].end
  <1> USE DEF IInv
  <1>1. rows[b] \in Rows \cup {NoRow} /\ Checkpoint(rows[b]) \in Nat
    BY CheckpointIsNat DEF TypeOK
  <1>2. rows'[b] # rows[b]
    BY <1>1
  <1>3. PICK r \in Runners : StoreWindow(r) \/ FinishBuilding(r)
    BY <1>2 DEF Next, Step, Begin, FetchConfig, LoadState, End, SkipBuilding, Fails, PutConfig, Tick, vars
  <1>4. pc[r] = "window" /\ at[r] \in Buildings
    BY <1>3 DEF StoreWindow, FinishBuilding, AtBuilding
  <1>5. CASE StoreWindow(r)
    <2>1. WindowEnd(r) \in Nat /\ cursor[r] < WindowEnd(r) /\ WindowEnd(r) <= until[r]
      BY <1>5, WindowAdvances, EndNotAfterNow DEF StoreWindow, TypeOK
    <2>2. SaveState(r, WindowEnd(r))
      BY <1>5 DEF StoreWindow
    <2>3. /\ Checkpoint(rows'[at[r]]) = WindowEnd(r)
          /\ \A c \in Buildings : c # at[r] => rows'[c] = rows[c]
      BY <1>4, <2>1, <2>2, RowSaved
    <2>4. b = at[r] /\ cursor[r] < Checkpoint(rows[b])
      BY <1>1, <1>2, <2>1, <2>3 DEF TypeOK
    <2> QED BY <1>1, <1>4, <2>4 DEF RunAhead, Alone, TypeOK
  <1>6. CASE FinishBuilding(r)
    <2>1. /\ IncEnd(r) \in Nat /\ IncEnd(r) <= until[r]
          /\ IncEnd(r) < until[r] => ~ WasDone(r) /\ IncEnd(r) = used[r].end
      BY EndNotAfterNow
    <2>2. SaveState(r, IncEnd(r))
      BY <1>6 DEF FinishBuilding, Saved
    <2>3. /\ Checkpoint(rows'[at[r]]) = IncEnd(r) /\ rows'[at[r]].last = IncEnd(r)
          /\ \A c \in Buildings : c # at[r] => rows'[c] = rows[c]
      BY <1>4, <2>1, <2>2, RowSaved
    <2>4. b = at[r] /\ IncEnd(r) < Checkpoint(rows[b])
      BY <1>1, <1>2, <2>3
    <2>5. until[r] \in Nat
      BY DEF TypeOK
    <2>6. CASE IncEnd(r) < until[r]
      BY <2>1, <2>3, <2>4, <2>6
    <2>7. CASE IncEnd(r) = until[r]
      <3>1. "overlap" \notin excuses[b] => Checkpoint(rows[b]) <= until[r]
        BY <1>4 DEF RunAhead, Alone
      <3> QED BY <1>1, <2>1, <2>4, <2>5, <2>7, <3>1
    <2> QED BY <2>1, <2>5, <2>6, <2>7
  <1> QED BY <1>3, <1>5, <1>6

\* BackOnlyToEnd as an action property of the specification.
THEOREM OnlyBackToEnd == Spec => BackOnlyToEnd
  <1> DEFINE Back ==
        \A b \in Buildings : Checkpoint(rows'[b]) < Checkpoint(rows[b]) =>
          \/ "overlap" \in excuses[b]
          \/ \E r \in Runners : at[r] = b /\ ~ WasDone(r) /\ rows'[b].last = used[r].end
  <1>1. IInv /\ [Next]_vars => [Back]_vars
    BY BackStep
  <1>2. Spec => [][Back]_vars
    BY <1>1, Invariance, PTL DEF Spec
  <1> QED BY <1>2 DEF BackOnlyToEnd

------------------------------------------------------------------------------
\* BacnetScrape: lists and what is picked of them.

\* What is asked for names a point and its object or register; what is read for
\* a point may be of something else.
Readings == Points \X Addresses
Entries == Points \X (Addresses \cup {Null})

\* The positions of a finite set of numbers, counted from the smallest.
LEMMA NthPosition ==
  ASSUME NEW I \in SUBSET Nat, IsFiniteSet(I)
  PROVE  /\ Cardinality(I) \in Nat
         /\ \A k \in 1..Cardinality(I) : Nth(I, k) \in I
         /\ \A k, l \in 1..Cardinality(I) : Nth(I, k) = Nth(I, l) => k = l
         /\ \A i \in I : \E k \in 1..Cardinality(I) : Nth(I, k) = i
         /\ I # {} => \E i \in I : \A j \in I : j <= i
  <1> DEFINE n == Cardinality(I)
             Upto(i) == {j \in I : j <= i}
             rank == [i \in I |-> Cardinality(Upto(i))]
  <1>1. n \in Nat
    BY FS_CardinalityType
  <1>2. ASSUME NEW i \in I
        PROVE  /\ IsFiniteSet(Upto(i)) /\ rank[i] \in 1..n
               /\ rank[i] = n => Upto(i) = I
    <2>1. IsFiniteSet(Upto(i)) /\ Cardinality(Upto(i)) <= n /\ (n = Cardinality(Upto(i)) => I = Upto(i))
      BY FS_Subset, Upto(i) \in SUBSET I
    <2>2. Cardinality(Upto(i)) \in Nat
      BY <2>1, FS_CardinalityType
    <2>3. i \in Upto(i)
      OBVIOUS
    <2>4. Cardinality(Upto(i)) # 0
      BY <2>1, <2>3, FS_EmptySet
    <2>5. rank[i] = Cardinality(Upto(i))
      OBVIOUS
    <2> HIDE DEF n, Upto, rank
    <2>6. rank[i] \in 1..n
      BY <1>1, <2>1, <2>2, <2>4, <2>5
    <2> QED BY <2>1, <2>5, <2>6
  <1>3. ASSUME NEW i \in I, NEW j \in I, i < j PROVE rank[i] # rank[j]
    <2>1. Upto(i) \in SUBSET Upto(j) /\ j \in Upto(j) /\ j \notin Upto(i)
      <3>1. i \in Nat /\ j \in Nat
        OBVIOUS
      <3>2. \A x \in Upto(i) : x \in Upto(j)
        BY <1>3, <3>1
      <3>3. j \in Upto(j) /\ j \notin Upto(i)
        BY <1>3, <3>1
      <3> QED BY <3>2, <3>3
    <2>2. IsFiniteSet(Upto(j))
      BY <1>2
    <2> HIDE DEF Upto
    <2>3. Cardinality(Upto(j)) = Cardinality(Upto(i)) => Upto(j) = Upto(i)
      BY <2>1, <2>2, FS_Subset
    <2> QED BY <2>1, <2>3
  <1>4. \A i, j \in I : rank[i] = rank[j] => i = j
    BY <1>3
  <1>5. rank \in Injection(I, 1..n)
    <2>1. rank \in [I -> 1..n]
      BY <1>2
    <2> HIDE DEF rank, n
    <2> QED BY <1>4, <2>1 DEF Injection, IsInjective
  <1>6. IsFiniteSet(1..n) /\ Cardinality(1..n) = n
    BY <1>1, FS_Interval
  <1>7. rank \in Surjection(I, 1..n)
    <2> HIDE DEF rank
    <2> QED BY <1>5, <1>6, FS_Injection
  <1>8. ASSUME NEW k \in 1..n PROVE Nth(I, k) \in I /\ rank[Nth(I, k)] = k
    <2>1. PICK i \in I : rank[i] = k
      BY <1>7, <1>8 DEF Surjection
    <2>2. Cardinality({j \in I : j <= i}) = k
      BY <2>1
    <2> QED BY <2>2 DEF Nth
  <1>9. ASSUME NEW i \in I PROVE rank[i] \in 1..n /\ Nth(I, rank[i]) = i
    BY <1>2, <1>4, <1>8
  <1>10. ASSUME I # {} PROVE \E i \in I : \A j \in I : j <= i
    <2>1. n # 0
      BY <1>10, FS_EmptySet
    <2>2. n \in 1..n
      BY <1>1, <2>1
    <2>3. Upto(Nth(I, n)) = I /\ Nth(I, n) \in I
      BY <1>2, <1>8, <2>2
    <2> QED BY <2>3
  <1> HIDE DEF rank
  <1> QED BY <1>1, <1>8, <1>9, <1>10

\* What is picked of a list: its entries at the positions, once each.
LEMMA PickedEntries ==
  ASSUME NEW T, NEW s \in Seq(T), NEW I \in SUBSET DOMAIN s
  PROVE  /\ Picked(s, I) \in Seq(T)
         /\ Range(Picked(s, I)) = {s[i] : i \in I}
         /\ (\A i, j \in I : s[i] = s[j] => i = j) => IsInjective(Picked(s, I))
         /\ I # {} => \E i \in I : \A j \in I : j <= i
  <1>1. I \in SUBSET Nat /\ IsFiniteSet(I)
    <2>1. DOMAIN s = 1..Len(s) /\ Len(s) \in Nat
      OBVIOUS
    <2>2. IsFiniteSet(1..Len(s))
      BY <2>1, FS_Interval
    <2> QED BY <2>1, <2>2, FS_Subset
  <1> DEFINE n == Cardinality(I)
             pick == Picked(s, I)
  <1>2. /\ n \in Nat
        /\ \A k \in 1..n : Nth(I, k) \in I
        /\ \A k, l \in 1..n : Nth(I, k) = Nth(I, l) => k = l
        /\ \A i \in I : \E k \in 1..n : Nth(I, k) = i
        /\ I # {} => \E i \in I : \A j \in I : j <= i
    BY <1>1, NthPosition
  <1>3. pick = [k \in 1..n |-> s[Nth(I, k)]]
    BY DEF Picked
  <1>4. \A i \in I : s[i] \in T
    OBVIOUS
  <1> HIDE DEF n, pick
  <1>5. DOMAIN pick = 1..n /\ \A k \in 1..n : pick[k] = s[Nth(I, k)]
    BY <1>3
  <1>6. pick \in Seq(T)
    BY <1>2, <1>3, <1>4
  <1>7. Range(pick) = {s[i] : i \in I}
    <2>1. Range(pick) = {pick[k] : k \in 1..n}
      BY <1>5 DEF Range
    <2>2. ASSUME NEW i \in I PROVE \E k \in 1..n : pick[k] = s[i]
      <3>1. PICK k \in 1..n : Nth(I, k) = i
        BY <1>2
      <3> QED BY <1>5, <3>1
    <2>3. ASSUME NEW k \in 1..n PROVE \E i \in I : pick[k] = s[i]
      BY <1>2, <1>5
    <2> QED BY <2>1, <2>2, <2>3
  <1>8. ASSUME \A i, j \in I : s[i] = s[j] => i = j PROVE IsInjective(pick)
    <2>1. ASSUME NEW k \in 1..n, NEW l \in 1..n, pick[k] = pick[l] PROVE k = l
      <3>1. s[Nth(I, k)] = s[Nth(I, l)] /\ Nth(I, k) \in I /\ Nth(I, l) \in I
        BY <1>2, <1>5, <2>1
      <3>2. Nth(I, k) = Nth(I, l)
        BY <1>8, <3>1
      <3> QED BY <1>2, <3>2
    <2> QED BY <1>5, <2>1 DEF IsInjective
  <1> QED BY <1>2, <1>6, <1>7, <1>8 DEF pick

LEMMA PatchedPoint ==
  ASSUME NEW b \in Patches, NEW r \in Point
  PROVE  Patched(r, b) \in Point
  BY ScrapePatches DEF Patched, Point

\* A poll lists each of its points once, and each device once.
LoadedOnce == \A i, j \in DOMAIN loaded : loaded[i][1] = loaded[j][1] => i = j
AskedOnce == IsInjective(left)

\* What the points rs are due when from answered and out came astray.
Due(rs, from, out) ==
  {r \in rs : r[2] \in from} \cup {x \in Entries : \E r \in rs : x[1] = r[1] /\ <<r[2], x[2]>> \in out}

\* The readings so far are exactly what is due to the points, none twice but of
\* objects that answered twice; no device still to be asked has been heard.
ReadingsExact ==
  phase = "reading" /\ Apart =>
    /\ Range(got) = Due(Range(loaded), answered, astray)
    /\ \A m, n \in DOMAIN got : m # n /\ got[m] = got[n] => got[m][2] \in repeated
    /\ \A o \in answered : o[1] \notin Range(left)
    /\ \A pair \in astray : pair[1][1] \notin Range(left) /\ pair[1] # pair[2]

\* Between polls nothing has been heard.
Unheard == phase # "reading" => NothingHeard

PollInv == ScrapeTypeOK /\ LoadedOnce /\ AskedOnce /\ Unheard /\ ReadingsExact

\* The points of a device, out of those loaded.
LEMMA SpecsOfDevice ==
  ASSUME loaded \in Seq(Readings), LoadedOnce, NEW d
  PROVE  /\ SpecsOf(d) \in Seq(Readings)
         /\ Range(SpecsOf(d)) = {r \in Range(loaded) : r[2][1] = d}
         /\ IsInjective(SpecsOf(d))
         /\ \A i, j \in DOMAIN SpecsOf(d) : SpecsOf(d)[i][1] = SpecsOf(d)[j][1] => i = j
         /\ Apart => \A i, j \in DOMAIN SpecsOf(d) : SpecsOf(d)[i][2] = SpecsOf(d)[j][2] => i = j
  <1> DEFINE I == {i \in DOMAIN loaded : loaded[i][2][1] = d}
             specs == SpecsOf(d)
  <1>1. I \in SUBSET DOMAIN loaded
    OBVIOUS
  <1>2. specs = Picked(loaded, I)
    BY DEF SpecsOf
  <1>3. \A i, j \in I : loaded[i] = loaded[j] => i = j
    BY DEF LoadedOnce
  <1>4. Range(loaded) = {loaded[i] : i \in DOMAIN loaded}
    BY DEF Range
  <1>5. {r \in Range(loaded) : r[2][1] = d} = {loaded[i] : i \in I}
    BY <1>4
  <1> HIDE DEF I, specs
  <1>6. specs \in Seq(Readings) /\ Range(specs) = {loaded[i] : i \in I} /\ IsInjective(specs)
    BY <1>1, <1>2, <1>3, PickedEntries
  <1>7. ASSUME Apart, NEW i \in DOMAIN specs, NEW j \in DOMAIN specs, specs[i][2] = specs[j][2] PROVE i = j
    <2>1. PICK a \in I : specs[i] = loaded[a]
      BY <1>6 DEF Range
    <2>2. PICK b \in I : specs[j] = loaded[b]
      BY <1>6 DEF Range
    <2>3. a = b
      BY <1>1, <1>7, <2>1, <2>2 DEF Apart
    <2> QED BY <1>6, <2>1, <2>2, <2>3 DEF IsInjective
  <1>8. ASSUME NEW i \in DOMAIN specs, NEW j \in DOMAIN specs, specs[i][1] = specs[j][1] PROVE i = j
    <2>1. PICK a \in I : specs[i] = loaded[a]
      BY <1>6 DEF Range
    <2>2. PICK b \in I : specs[j] = loaded[b]
      BY <1>6 DEF Range
    <2>3. a = b
      BY <1>1, <1>8, <2>1, <2>2 DEF LoadedOnce
    <2> QED BY <1>6, <2>1, <2>2, <2>3 DEF IsInjective
  <1> QED BY <1>5, <1>6, <1>7, <1>8 DEF specs

\* Those of a list that answer when they are asked one by one.
LEMMA EachOf ==
  ASSUME NEW T, NEW read \in Seq(T), NEW ok
  PROVE  /\ ReadEach(read, ok) \in Seq(T)
         /\ Range(ReadEach(read, ok)) = {x \in Range(read) : x[2] \in ok}
         /\ IsInjective(read) => IsInjective(ReadEach(read, ok))
  <1> DEFINE I == {i \in DOMAIN read : read[i][2] \in ok}
  <1>1. I \in SUBSET DOMAIN read
    OBVIOUS
  <1>2. ReadEach(read, ok) = Picked(read, I)
    BY DEF ReadEach
  <1>3. Range(read) = {read[i] : i \in DOMAIN read}
    BY DEF Range
  <1>4. {x \in Range(read) : x[2] \in ok} = {read[i] : i \in I}
    BY <1>3
  <1>5. IsInjective(read) => \A i, j \in I : read[i] = read[j] => i = j
    BY DEF IsInjective
  <1> HIDE DEF I
  <1> QED BY <1>1, <1>2, <1>4, <1>5, PickedEntries

\* by_device: no device twice.
LEMMA OnceEach ==
  ASSUME NEW T, NEW s \in Seq(T)
  PROVE  Once(s) \in Seq(T) /\ IsInjective(Once(s))
  <1> DEFINE I == {i \in DOMAIN s : \A j \in 1..(i - 1) : s[j] # s[i]}
  <1>1. I \in SUBSET DOMAIN s
    OBVIOUS
  <1>2. Once(s) = Picked(s, I)
    BY DEF Once
  <1>3. \A i, j \in I : s[i] = s[j] => i = j
    <2>1. ASSUME NEW i \in I, NEW j \in I, s[i] = s[j], i < j PROVE FALSE
      <3>1. i \in Nat /\ j \in Nat /\ 1 <= i
        OBVIOUS
      <3>2. i \in 1..(j - 1)
        BY <2>1, <3>1
      <3> QED BY <2>1, <3>2
    <2>2. \A i \in I : i \in Nat
      OBVIOUS
    <2> HIDE DEF I
    <2>3. \A i, j \in I : i < j \/ j < i \/ i = j
      BY <2>2
    <2> QED BY <2>1, <2>3
  <1> HIDE DEF I
  <1> QED BY <1>1, <1>2, <1>3, PickedEntries

\* A result that is placed goes to a point of the object it names, or else to the
\* point in whose place it stands.
LEMMA SpecForItem ==
  ASSUME NEW specs \in Seq(Readings), NEW answer \in Seq(Results({specs[k][2] : k \in DOMAIN specs})),
         NEW i \in Placed(specs, answer)
  PROVE  LET k == SpecFor(specs, i, answer[i])
         IN /\ k \in DOMAIN specs
            /\ answer[i].as = "asked" => specs[k][2] = answer[i].of
            /\ answer[i].as = "otherwise" => k = i
            /\ answer[i].as \in {"asked", "otherwise"}
  <1> DEFINE item == answer[i]
  <1>1. i \in DOMAIN answer /\ (item.as = "asked" \/ (item.as = "otherwise" /\ i \in DOMAIN specs))
    BY DEF Placed
  <1>2. item \in Results({specs[k][2] : k \in DOMAIN specs})
    BY <1>1
  <1>3. CASE item.as = "otherwise"
    <2>1. SpecFor(specs, i, item) = i
      BY <1>3 DEF SpecFor
    <2> QED BY <1>1, <1>3, <2>1
  <1>4. CASE item.as = "asked"
    <2>1. item.of \in {specs[k][2] : k \in DOMAIN specs}
      BY <1>2, <1>4 DEF Results, NoNumber
    <2> DEFINE I == {k \in DOMAIN specs : specs[k][2] = item.of}
    <2>2. I \in SUBSET DOMAIN specs /\ I # {}
      BY <2>1
    <2>3. PICK k \in I : \A l \in I : l <= k
      BY <2>2, PickedEntries
    <2>4. \E k2 \in DOMAIN specs : /\ specs[k2][2] = item.of
                                   /\ \A l \in DOMAIN specs : specs[l][2] = item.of => l <= k2
      BY <2>3
    <2> HIDE DEF item
    <2>5. /\ SpecFor(specs, i, item) \in DOMAIN specs
          /\ specs[SpecFor(specs, i, item)][2] = item.of
      BY <1>4, <2>4 DEF SpecFor
    <2> QED BY <1>4, <2>5 DEF item
  <1> QED BY <1>1, <1>3, <1>4

\* The readings of a request; and when no two of its points share an object,
\* exactly what is due to them, twice only what answered twice.
LEMMA ReadMultipleRows ==
  ASSUME NEW specs \in Seq(Readings), NEW answer \in Seq(Results({specs[k][2] : k \in DOMAIN specs})),
         \A i, j \in DOMAIN specs : specs[i][1] = specs[j][1] => i = j
  PROVE  LET many == ReadMultiple(specs, answer)
         IN /\ many \in Seq(Entries)
            /\ (\A i, j \in DOMAIN specs : specs[i][2] = specs[j][2] => i = j) =>
                 /\ Range(many) = Due(Range(specs), Answering(specs, answer), Astray(specs, answer))
                 /\ \A m, n \in DOMAIN many : m # n /\ many[m] = many[n] => many[m][2] \in Repeated(specs, answer)
  <1> DEFINE I == Placed(specs, answer)
             c == Cardinality(I)
             To(i) == SpecFor(specs, i, answer[i])
             many == ReadMultiple(specs, answer)
             Row(i) == <<specs[To(i)][1], answer[i].of>>
  <1>1. /\ Len(specs) \in Nat /\ DOMAIN specs = 1..Len(specs)
        /\ \A k \in DOMAIN specs : specs[k] \in Readings
        /\ Len(answer) \in Nat /\ DOMAIN answer = 1..Len(answer)
    OBVIOUS
  <1>2. I \in SUBSET Nat /\ IsFiniteSet(I)
    <2>1. I \in SUBSET DOMAIN answer
      BY DEF Placed
    <2>2. IsFiniteSet(1..Len(answer))
      BY <1>1, FS_Interval
    <2> QED BY <1>1, <2>1, <2>2, FS_Subset
  <1>3. /\ c \in Nat
        /\ \A k \in 1..c : Nth(I, k) \in I
        /\ \A k, l \in 1..c : Nth(I, k) = Nth(I, l) => k = l
        /\ \A i \in I : \E k \in 1..c : Nth(I, k) = i
    BY <1>2, NthPosition
  <1>4. DOMAIN many = 1..c /\ \A k \in 1..c : many[k] = Row(Nth(I, k))
    BY DEF ReadMultiple
  <1>5. ASSUME NEW i \in I
        PROVE  /\ To(i) \in DOMAIN specs
               /\ answer[i].as = "asked" => specs[To(i)][2] = answer[i].of
               /\ answer[i].as = "otherwise" => To(i) = i
               /\ answer[i].as \in {"asked", "otherwise"}
    BY SpecForItem
  <1>6. ASSUME NEW i \in I PROVE i \in DOMAIN answer /\ answer[i].of \in Addresses \cup {Null}
    <2>1. i \in DOMAIN answer
      BY DEF Placed
    <2>2. answer[i] \in Results({specs[k][2] : k \in DOMAIN specs})
      BY <2>1
    <2>3. {specs[k][2] : k \in DOMAIN specs} \subseteq Addresses
      BY <1>1 DEF Readings
    <2>4. answer[i].of \in {specs[k][2] : k \in DOMAIN specs} \cup {Null}
      BY <2>2 DEF Results, NoNumber
    <2> QED BY <2>1, <2>3, <2>4
  <1> HIDE DEF To
  <1>7. ASSUME NEW i \in I PROVE Row(i) \in Entries
    BY <1>1, <1>5, <1>6 DEF Readings, Entries
  <1> HIDE DEF I, c, Row
  <1>8. many \in Seq(Entries)
    <2>1. \A k \in 1..c : many[k] \in Entries
      BY <1>3, <1>4, <1>7
    <2>2. many = [k \in 1..c |-> many[k]] /\ c \in Nat
      BY <1>3 DEF ReadMultiple, c, I
    <2> HIDE DEF many
    <2> QED BY <2>1, <2>2
  <1>9. Range(many) = {Row(i) : i \in I}
    <2> HIDE DEF many
    <2>1. Range(many) = {many[k] : k \in 1..c}
      BY <1>4 DEF Range
    <2> QED BY <1>3, <1>4, <2>1
  <1>10. \A i \in DOMAIN answer : i \in Right(specs, answer) => i \in I
    BY DEF Right, I, Placed
  <1>11. ASSUME \A i, j \in DOMAIN specs : specs[i][2] = specs[j][2] => i = j
         PROVE  /\ Range(many) = Due(Range(specs), Answering(specs, answer), Astray(specs, answer))
                /\ \A m, n \in DOMAIN many : m # n /\ many[m] = many[n] => many[m][2] \in Repeated(specs, answer)
    <2> HIDE DEF many
    <2>1. ASSUME NEW i \in I, i \in Right(specs, answer)
          PROVE  To(i) \in DOMAIN specs /\ Row(i) = specs[To(i)] /\ specs[To(i)][2] = answer[i].of
      <3>1. To(i) \in DOMAIN specs /\ specs[To(i)][2] = answer[i].of
        BY <1>5, <2>1 DEF Right
      <3>2. specs[To(i)] \in Readings
        BY <1>1, <3>1
      <3> QED BY <3>1, <3>2 DEF Row, Readings
    <2>2. ASSUME NEW i \in I, i \notin Right(specs, answer)
          PROVE  /\ i \in DOMAIN specs /\ To(i) = i /\ Row(i) = <<specs[i][1], answer[i].of>>
                 /\ <<specs[i][2], answer[i].of>> \in Astray(specs, answer)
      <3>1. answer[i].as = "otherwise" /\ To(i) = i /\ i \in DOMAIN specs /\ i \in DOMAIN answer
        BY <1>5, <1>6, <2>2 DEF Right
      <3>2. specs[i][2] # answer[i].of
        BY <3>1, <2>2 DEF Right
      <3> QED BY <3>1, <3>2 DEF Astray, Row
    <2>3. ASSUME NEW i \in I
          PROVE  Row(i) \in Due(Range(specs), Answering(specs, answer), Astray(specs, answer))
      <3>1. CASE i \in Right(specs, answer)
        <4>1. answer[i].of \in Answering(specs, answer)
          BY <3>1 DEF Answering
        <4> QED BY <2>1, <3>1, <4>1 DEF Due, Range
      <3>2. CASE i \notin Right(specs, answer)
        <4>1. specs[i] \in Range(specs) /\ Row(i) \in Entries
          BY <1>7, <2>2, <3>2 DEF Range
        <4>2. Row(i)[1] = specs[i][1] /\ Row(i)[2] = answer[i].of
          BY <2>2, <3>2 DEF Row
        <4>3. <<specs[i][2], Row(i)[2]>> \in Astray(specs, answer)
          BY <2>2, <3>2, <4>2
        <4> QED BY <4>1, <4>2, <4>3 DEF Due
      <3> QED BY <3>1, <3>2
    <2>4. ASSUME NEW k \in DOMAIN specs, specs[k][2] \in Answering(specs, answer) PROVE \E i \in I : Row(i) = specs[k]
      <3>1. PICK i \in Right(specs, answer) : specs[k][2] = answer[i].of
        BY <2>4 DEF Answering
      <3>2. i \in I
        BY <1>10 DEF Right
      <3>3. To(i) = k
        BY <1>11, <2>1, <3>1, <3>2
      <3> QED BY <2>1, <3>2, <3>3
    <2>5. ASSUME NEW k \in DOMAIN specs, NEW x \in Entries, x[1] = specs[k][1], <<specs[k][2], x[2]>> \in Astray(specs, answer)
          PROVE  \E i \in I : Row(i) = x
      <3>1. PICK i \in DOMAIN answer \cap DOMAIN specs :
              /\ answer[i].as = "otherwise"
              /\ specs[i][2] # answer[i].of /\ <<specs[k][2], x[2]>> = <<specs[i][2], answer[i].of>>
        BY <2>5 DEF Astray
      <3>2. i = k /\ x[2] = answer[i].of
        BY <1>11, <3>1
      <3>3. i \in I
        BY <3>1 DEF I, Placed
      <3>4. To(i) = i
        BY <1>5, <3>1, <3>3
      <3>5. x = <<x[1], x[2]>>
        BY DEF Entries
      <3> QED BY <2>5, <3>2, <3>3, <3>4, <3>5 DEF Row
    <2>6. Range(many) = Due(Range(specs), Answering(specs, answer), Astray(specs, answer))
      <3>1. ASSUME NEW x \in Due(Range(specs), Answering(specs, answer), Astray(specs, answer))
            PROVE  x \in {Row(i) : i \in I}
        <4>1. CASE x \in Range(specs) /\ x[2] \in Answering(specs, answer)
          BY <2>4, <4>1 DEF Range
        <4>2. CASE x \in Entries /\ \E r \in Range(specs) : x[1] = r[1] /\ <<r[2], x[2]>> \in Astray(specs, answer)
          BY <2>5, <4>2 DEF Range
        <4> QED BY <3>1, <4>1, <4>2 DEF Due
      <3> QED BY <1>9, <2>3, <3>1
    <2>7. ASSUME NEW i \in I, NEW j \in I, i # j, Row(i) = Row(j) PROVE answer[i].of \in Repeated(specs, answer)
      <3>1. specs[To(i)][1] = specs[To(j)][1] /\ answer[i].of = answer[j].of
        BY <2>7 DEF Row
      <3>2. To(i) = To(j)
        BY <1>5, <3>1
      <3>3. i \in Right(specs, answer) /\ j \in Right(specs, answer)
        BY <1>5, <1>6, <2>7, <3>1, <3>2 DEF Right
      <3> QED BY <2>7, <3>1, <3>3 DEF Repeated
    <2>8. ASSUME NEW m \in DOMAIN many, NEW n \in DOMAIN many, m # n, many[m] = many[n]
          PROVE  many[m][2] \in Repeated(specs, answer)
      <3>1. Nth(I, m) \in I /\ Nth(I, n) \in I /\ Nth(I, m) # Nth(I, n) /\ Row(Nth(I, m)) = Row(Nth(I, n))
        BY <1>3, <1>4, <2>8
      <3>2. many[m][2] = answer[Nth(I, m)].of
        BY <1>4 DEF Row
      <3> QED BY <2>7, <3>1, <3>2
    <2> QED BY <2>6, <2>8
  <1> QED BY <1>8, <1>11

\* What LoadPoints selects: readings, of each point one at most.
LEMMA SelectedPoints ==
  ASSUME ScrapeTypeOK
  PROVE  /\ Selected \in Seq(Readings)
         /\ \A i, j \in DOMAIN Selected : Selected[i][1] = Selected[j][1] => i = j
  <1> DEFINE S == {p \in DOMAIN points : InScope(p)}
             n == Cardinality(S)
             listed == SetToSeq(S)
  <1>1. IsFiniteSet(S)
    <2>1. S \in SUBSET Points
      BY DEF ScrapeTypeOK
    <2> QED BY <2>1, ScrapeRows, FS_Subset
  <1>2. n \in Nat /\ listed \in [1..n -> S] /\ IsInjective(listed)
    <2>1. n \in Nat /\ ExistsBijection(1..n, S)
      BY <1>1, FS_CardinalityType
    <2>2. PICK f \in Bijection(1..n, S) : TRUE
      BY <2>1 DEF ExistsBijection
    <2>3. f \in [1..n -> S] /\ IsInjective(f)
      BY <2>2 DEF Bijection, Injection
    <2> QED BY <2>1, <2>3 DEF SetToSeq
  <1>3. Selected = [i \in DOMAIN listed |-> <<listed[i], TargetOf(listed[i])>>]
    BY DEF Selected
  <1>4. ASSUME NEW p \in S PROVE <<p, TargetOf(p)>> \in Readings
    <2>1. p \in Points /\ points[p] \in Point /\ kind \in Kinds /\ TargetOf(p) # Null
      BY DEF ScrapeTypeOK, InScope
    <2> QED BY <2>1 DEF TargetOf, Point, Kinds, Readings, Addresses
  <1> HIDE DEF n, S, listed
  <1>5. DOMAIN Selected = 1..n /\ \A i \in 1..n : Selected[i] = <<listed[i], TargetOf(listed[i])>>
    BY <1>2, <1>3
  <1>6. Selected \in Seq(Readings)
    <2>1. \A i \in 1..n : Selected[i] \in Readings
      BY <1>2, <1>4, <1>5
    <2>2. Selected = [i \in 1..n |-> Selected[i]]
      BY <1>3, <1>5
    <2> QED BY <1>2, <2>1, <2>2
  <1>7. ASSUME NEW i \in DOMAIN Selected, NEW j \in DOMAIN Selected, Selected[i][1] = Selected[j][1] PROVE i = j
    <2>1. listed[i] = listed[j]
      BY <1>5, <1>7
    <2> QED BY <1>2, <1>5, <1>7, <2>1 DEF IsInjective
  <1> QED BY <1>6, <1>7

\* Lists that grow and shrink.
LEMMA Joined ==
  ASSUME NEW T, NEW s \in Seq(T), NEW t \in Seq(T)
  PROVE  /\ s \o t \in Seq(T)
         /\ Range(s \o t) = Range(s) \cup Range(t)
         /\ IsInjective(s) /\ IsInjective(t) /\ (\A x \in Range(s) : x \notin Range(t)) => IsInjective(s \o t)
  <1>1. /\ Len(s) \in Nat /\ Len(t) \in Nat
        /\ DOMAIN s = 1..Len(s) /\ DOMAIN t = 1..Len(t)
        /\ s \o t \in Seq(T) /\ DOMAIN (s \o t) = 1..(Len(s) + Len(t))
    OBVIOUS
  <1>2. ASSUME NEW i \in DOMAIN (s \o t)
        PROVE  \/ i \in DOMAIN s /\ (s \o t)[i] = s[i]
               \/ i - Len(s) \in DOMAIN t /\ (s \o t)[i] = t[i - Len(s)]
    BY <1>1
  <1>3. \A i \in DOMAIN s : i \in DOMAIN (s \o t) /\ (s \o t)[i] = s[i]
    BY <1>1
  <1>4. \A i \in DOMAIN t : i + Len(s) \in DOMAIN (s \o t) /\ (s \o t)[i + Len(s)] = t[i]
    BY <1>1
  <1>5. Range(s \o t) = Range(s) \cup Range(t)
    <2>1. ASSUME NEW x \in Range(s \o t) PROVE x \in Range(s) \cup Range(t)
      <3>1. PICK i \in DOMAIN (s \o t) : x = (s \o t)[i]
        BY DEF Range
      <3> QED BY <1>2, <3>1 DEF Range
    <2>2. ASSUME NEW x \in Range(s) PROVE x \in Range(s \o t)
      BY <1>3 DEF Range
    <2>3. ASSUME NEW x \in Range(t) PROVE x \in Range(s \o t)
      BY <1>4 DEF Range
    <2> QED BY <2>1, <2>2, <2>3
  <1>6. ASSUME IsInjective(s), IsInjective(t), \A x \in Range(s) : x \notin Range(t)
        PROVE  IsInjective(s \o t)
    <2>1. ASSUME NEW i \in DOMAIN (s \o t), NEW j \in DOMAIN (s \o t), (s \o t)[i] = (s \o t)[j] PROVE i = j
      <3>1. CASE i \in DOMAIN s /\ (s \o t)[i] = s[i] /\ j \in DOMAIN s /\ (s \o t)[j] = s[j]
        BY <1>6, <2>1, <3>1 DEF IsInjective
      <3>2. CASE /\ i - Len(s) \in DOMAIN t /\ (s \o t)[i] = t[i - Len(s)]
                 /\ j - Len(s) \in DOMAIN t /\ (s \o t)[j] = t[j - Len(s)]
        <4>1. i - Len(s) = j - Len(s)
          BY <1>6, <2>1, <3>2 DEF IsInjective
        <4> QED BY <1>1, <4>1
      <3>3. CASE i \in DOMAIN s /\ (s \o t)[i] = s[i] /\ j - Len(s) \in DOMAIN t /\ (s \o t)[j] = t[j - Len(s)]
        BY <1>6, <2>1, <3>3 DEF Range
      <3>4. CASE j \in DOMAIN s /\ (s \o t)[j] = s[j] /\ i - Len(s) \in DOMAIN t /\ (s \o t)[i] = t[i - Len(s)]
        BY <1>6, <2>1, <3>4 DEF Range
      <3> QED BY <1>2, <3>1, <3>2, <3>3, <3>4
    <2> QED BY <2>1 DEF IsInjective
  <1> QED BY <1>1, <1>5, <1>6

LEMMA TailEntries ==
  ASSUME NEW T, NEW s \in Seq(T), s # <<>>
  PROVE  /\ Head(s) \in T /\ Head(s) \in Range(s) /\ Tail(s) \in Seq(T)
         /\ Range(Tail(s)) \subseteq Range(s)
         /\ IsInjective(s) => IsInjective(Tail(s)) /\ Head(s) \notin Range(Tail(s))
  <1>1. /\ Len(s) \in Nat \ {0} /\ DOMAIN s = 1..Len(s) /\ Head(s) = s[1] /\ Tail(s) \in Seq(T)
        /\ DOMAIN Tail(s) = 1..(Len(s) - 1) /\ \A i \in DOMAIN Tail(s) : Tail(s)[i] = s[i + 1]
    OBVIOUS
  <1>2. \A i \in DOMAIN Tail(s) : i \in Nat /\ i + 1 \in DOMAIN s /\ i + 1 # 1 /\ Tail(s)[i] = s[i + 1]
    BY <1>1
  <1>3. 1 \in DOMAIN s
    BY <1>1
  <1>4. Range(Tail(s)) \subseteq Range(s) /\ Head(s) \in Range(s)
    BY <1>1, <1>2, <1>3 DEF Range
  <1>5. ASSUME IsInjective(s) PROVE IsInjective(Tail(s)) /\ Head(s) \notin Range(Tail(s))
    <2>1. ASSUME NEW i \in DOMAIN Tail(s), NEW j \in DOMAIN Tail(s), Tail(s)[i] = Tail(s)[j] PROVE i = j
      <3>1. i + 1 = j + 1
        BY <1>2, <1>5, <2>1 DEF IsInjective
      <3> QED BY <1>2, <3>1
    <2>2. \A i \in DOMAIN Tail(s) : Tail(s)[i] # s[1]
      BY <1>2, <1>3, <1>5 DEF IsInjective
    <2> QED BY <1>1, <2>1, <2>2 DEF IsInjective, Range
  <1> QED BY <1>1, <1>3, <1>4, <1>5

------------------------------------------------------------------------------
\* One step after the other keeps the invariant.

LEMMA ScrapeInitInv == ScrapeInit => PollInv
  <1> SUFFICES ASSUME ScrapeInit PROVE PollInv
    OBVIOUS
  <1>1. ScrapeTypeOK
    BY ScrapeRows DEF ScrapeInit, ScrapeTypeOK, NoPoll, Lists, Kinds
  <1>2. LoadedOnce /\ AskedOnce /\ Unheard /\ ReadingsExact
    BY DEF ScrapeInit, NoPoll, LoadedOnce, AskedOnce, Unheard, ReadingsExact, IsInjective
  <1> QED BY <1>1, <1>2 DEF PollInv

LEMMA SitesResolved ==
  ASSUME ScrapeTypeOK
  PROVE  ResolvedSites \subseteq Sites \cup {Ghost}
  BY DEF ScrapeTypeOK, ResolvedSites

\* A device was asked: its points have the readings due to them more.
LEMMA DeviceAsked ==
  ASSUME PollInv, phase = "reading", left # <<>>, NEW read \in Seq(Entries), NEW from, NEW out, NEW again,
         \A o \in from : o[1] = Head(left),
         \A pair \in out : pair[1][1] = Head(left) /\ pair[1] # pair[2],
         Apart => /\ Range(read) = Due(Range(SpecsOf(Head(left))), from, out)
                  /\ \A m, n \in DOMAIN read : m # n /\ read[m] = read[n] => read[m][2] \in again,
         Take(read, from, out, again), left' = Tail(left),
         UNCHANGED <<points, phase, mode, gws, todo, kind, loaded>>
  PROVE  PollInv'
  <1> USE DEF PollInv
  <1>1. loaded \in Seq(Readings) /\ got \in Seq(Entries) /\ left \in Seq(Hosts)
    BY DEF ScrapeTypeOK, Readings, Entries
  <1>2. /\ Head(left) \in Range(left) /\ left' \in Seq(Hosts) /\ Range(left') \subseteq Range(left)
        /\ IsInjective(left') /\ Head(left) \notin Range(left')
    BY <1>1, TailEntries DEF AskedOnce
  <1>3. /\ got' = got \o read /\ answered' = answered \cup from /\ astray' = astray \cup out
        /\ repeated' = repeated \cup again /\ sites' \subseteq Sites \cup {Ghost}
    BY SitesResolved DEF Take, ScrapeTypeOK
  <1>4. /\ got' \in Seq(Entries) /\ Range(got') = Range(got) \cup Range(read)
    BY <1>1, <1>3, Joined
  <1>5. ScrapeTypeOK'
    BY <1>2, <1>3, <1>4 DEF ScrapeTypeOK, Readings, Entries
  <1>6. LoadedOnce' /\ AskedOnce' /\ Unheard'
    BY <1>2 DEF LoadedOnce, AskedOnce, Unheard
  <1>7. ASSUME Apart
        PROVE  /\ Range(got') = Due(Range(loaded), answered \cup from, astray \cup out)
               /\ \A m, n \in DOMAIN got' : m # n /\ got'[m] = got'[n] => got'[m][2] \in repeated \cup again
               /\ \A o \in answered \cup from : o[1] \notin Range(left')
               /\ \A pair \in astray \cup out : pair[1][1] \notin Range(left') /\ pair[1] # pair[2]
    <2>1. /\ Range(got) = Due(Range(loaded), answered, astray)
          /\ \A m, n \in DOMAIN got : m # n /\ got[m] = got[n] => got[m][2] \in repeated
          /\ \A o \in answered : o[1] \notin Range(left)
          /\ \A pair \in astray : pair[1][1] \notin Range(left) /\ pair[1] # pair[2]
      BY <1>7 DEF ReadingsExact
    <2>2. Range(SpecsOf(Head(left))) = {r \in Range(loaded) : r[2][1] = Head(left)}
      BY <1>1, SpecsOfDevice
    <2>3. Range(read) = Due(Range(loaded), from, out)
      <3>1. \A r \in Range(loaded) : r[2] \in from => r \in Range(SpecsOf(Head(left)))
        BY <2>2
      <3>2. ASSUME NEW r \in Range(loaded), NEW x, <<r[2], x>> \in out PROVE r \in Range(SpecsOf(Head(left)))
        <4>1. <<r[2], x>>[1][1] = Head(left)
          BY <3>2
        <4> QED BY <2>2, <4>1
      <3> QED BY <1>7, <2>2, <3>1, <3>2 DEF Due
    <2>4. Range(got') = Due(Range(loaded), answered \cup from, astray \cup out)
      BY <1>4, <2>1, <2>3 DEF Due
    <2>5. ASSUME NEW x \in Range(got), x \in Range(read) PROVE FALSE
      <3>1. PICK r \in Range(loaded) : x[1] = r[1] /\ (r[2] \in answered \/ <<r[2], x[2]>> \in astray)
        BY <2>1, <2>5 DEF Due
      <3>2. PICK q \in Range(loaded) : x[1] = q[1] /\ (q[2] \in from \/ <<q[2], x[2]>> \in out)
        BY <2>3, <2>5 DEF Due
      <3>3. r = q
        <4>1. r[1] = q[1]
          BY <3>1, <3>2
        <4> QED BY <4>1 DEF LoadedOnce, Range
      <3>4. r[2][1] \notin Range(left)
        <4>1. <<r[2], x[2]>>[1] = r[2]
          OBVIOUS
        <4> QED BY <2>1, <3>1, <4>1
      <3>5. q[2][1] = Head(left)
        <4>1. <<q[2], x[2]>>[1] = q[2]
          OBVIOUS
        <4> QED BY <3>2, <4>1
      <3> QED BY <1>2, <3>3, <3>4, <3>5
    <2>6. ASSUME NEW m \in DOMAIN got', NEW n \in DOMAIN got', m # n, got'[m] = got'[n]
          PROVE  got'[m][2] \in repeated \cup again
      <3>1. \A k \in DOMAIN got' : \/ k \in DOMAIN got /\ got'[k] = got[k]
                                   \/ k - Len(got) \in DOMAIN read /\ got'[k] = read[k - Len(got)]
        BY <1>1, <1>3
      <3>2. m \in Int /\ n \in Int /\ Len(got) \in Int
        BY <1>1, <1>3
      <3>3. CASE m \in DOMAIN got /\ got'[m] = got[m] /\ n \in DOMAIN got /\ got'[n] = got[n]
        BY <2>1, <2>6, <3>3
      <3>4. CASE /\ m - Len(got) \in DOMAIN read /\ got'[m] = read[m - Len(got)]
                 /\ n - Len(got) \in DOMAIN read /\ got'[n] = read[n - Len(got)]
        <4>1. m - Len(got) # n - Len(got)
          BY <2>6, <3>2
        <4> QED BY <1>7, <2>6, <3>4, <4>1
      <3>5. CASE /\ m \in DOMAIN got /\ got'[m] = got[m]
                 /\ n - Len(got) \in DOMAIN read /\ got'[n] = read[n - Len(got)]
        BY <2>5, <2>6, <3>5 DEF Range
      <3>6. CASE /\ n \in DOMAIN got /\ got'[n] = got[n]
                 /\ m - Len(got) \in DOMAIN read /\ got'[m] = read[m - Len(got)]
        BY <2>5, <2>6, <3>6 DEF Range
      <3> QED BY <3>1, <3>3, <3>4, <3>5, <3>6
    <2>7. \A o \in answered \cup from : o[1] \notin Range(left')
      BY <1>2, <2>1
    <2>8. \A pair \in astray \cup out : pair[1][1] \notin Range(left') /\ pair[1] # pair[2]
      BY <1>2, <2>1
    <2> QED BY <2>4, <2>6, <2>7, <2>8
  <1>8. ReadingsExact'
    BY <1>3, <1>7 DEF ReadingsExact, Apart
  <1> QED BY <1>5, <1>6, <1>8

\* The objects asked for are those of the device at hand.
LEMMA SpecsTargets ==
  ASSUME PollInv, NEW d, NEW i \in DOMAIN SpecsOf(d)
  PROVE  SpecsOf(d)[i][2][1] = d
  <1>1. loaded \in Seq(Readings) /\ LoadedOnce
    BY DEF PollInv, ScrapeTypeOK, Readings
  <1>2. Range(SpecsOf(d)) = {r \in Range(loaded) : r[2][1] = d}
    BY <1>1, SpecsOfDevice
  <1> QED BY <1>2 DEF Range

\* Points asked one by one.
LEMMA ReadEachDue ==
  ASSUME NEW specs \in Seq(Readings), IsInjective(specs), NEW ok
  PROVE  LET read == ReadEach(specs, ok)
         IN /\ read \in Seq(Entries) /\ Range(read) = Due(Range(specs), ok, {})
            /\ \A m, n \in DOMAIN read : m # n /\ read[m] = read[n] => read[m][2] \in {}
  <1> DEFINE read == ReadEach(specs, ok)
  <1>1. /\ read \in Seq(Readings) /\ IsInjective(read)
        /\ Range(read) = {x \in Range(specs) : x[2] \in ok}
    BY EachOf
  <1> HIDE DEF read
  <1>2. read \in Seq(Entries)
    <2>1. \A m \in DOMAIN read : read[m] \in Entries
      BY <1>1 DEF Readings, Entries
    <2>2. Len(read) \in Nat /\ read = [m \in 1..Len(read) |-> read[m]]
      BY <1>1
    <2> QED BY <2>1, <2>2
  <1>3. Range(read) = Due(Range(specs), ok, {})
    BY <1>1 DEF Due
  <1>4. \A m, n \in DOMAIN read : m # n => read[m] # read[n]
    BY <1>1 DEF IsInjective
  <1> QED BY <1>2, <1>3, <1>4 DEF read

LEMMA ReadDeviceInv == PollInv /\ ReadDevice => PollInv'
  <1> SUFFICES ASSUME PollInv, ReadDevice PROVE PollInv'
    OBVIOUS
  <1> DEFINE specs == SpecsOf(Head(left))
             all == {specs[i][2] : i \in DOMAIN specs}
  <1>1. /\ phase = "reading" /\ left # <<>> /\ left' = Tail(left)
        /\ UNCHANGED <<points, phase, mode, gws, todo, kind, loaded>>
    BY DEF ReadDevice
  <1>2. PICK answer \in Answers(Len(specs), all) :
          \/ \E each \in SUBSET all : Take(ReadEach(specs, each), each, {}, {})
          \/ Take(ReadMultiple(specs, answer), Answering(specs, answer), Astray(specs, answer), Repeated(specs, answer))
    BY DEF ReadDevice
  <1>3. loaded \in Seq(Readings) /\ LoadedOnce
    BY DEF PollInv, ScrapeTypeOK, Readings
  <1>4. /\ specs \in Seq(Readings) /\ IsInjective(specs)
        /\ \A i, j \in DOMAIN specs : specs[i][1] = specs[j][1] => i = j
        /\ Apart => \A i, j \in DOMAIN specs : specs[i][2] = specs[j][2] => i = j
    BY <1>3, SpecsOfDevice
  <1>5. \A i \in DOMAIN specs : specs[i][2][1] = Head(left)
    BY SpecsTargets
  <1> HIDE DEF specs
  <1>6. answer \in Seq(Results(all))
    <2>1. PICK n \in 0..Len(specs) \cup 0..MaxResults : answer \in [1..n -> Results(all)]
      BY DEF Answers
    <2>2. n \in Nat
      OBVIOUS
    <2> QED BY <2>1, <2>2
  <1>7. CASE \E each \in SUBSET all : Take(ReadEach(specs, each), each, {}, {})
    <2>1. PICK each \in SUBSET all : Take(ReadEach(specs, each), each, {}, {})
      BY <1>7
    <2>2. \A o \in each : o[1] = Head(left)
      BY <1>5
    <2>3. /\ ReadEach(specs, each) \in Seq(Entries) /\ Range(ReadEach(specs, each)) = Due(Range(specs), each, {})
          /\ \A m, n \in DOMAIN ReadEach(specs, each) :
               m # n /\ ReadEach(specs, each)[m] = ReadEach(specs, each)[n] => ReadEach(specs, each)[m][2] \in {}
      BY <1>4, ReadEachDue
    <2> QED BY <1>1, <2>1, <2>2, <2>3, DeviceAsked DEF specs
  <1>8. CASE Take(ReadMultiple(specs, answer), Answering(specs, answer), Astray(specs, answer), Repeated(specs, answer))
    <2> DEFINE many == ReadMultiple(specs, answer)
    <2>1. ASSUME NEW o \in Answering(specs, answer) PROVE o[1] = Head(left)
      <3>1. PICK i \in Right(specs, answer) : o = answer[i].of
        BY DEF Answering
      <3>2. i \in DOMAIN answer /\ answer[i] \in Results(all)
        BY <1>6 DEF Right
      <3>3. o \in all
        BY <3>1, <3>2 DEF Right, Results, NoNumber
      <3> QED BY <1>5, <3>3
    <2>2. ASSUME NEW pair \in Astray(specs, answer) PROVE pair[1][1] = Head(left) /\ pair[1] # pair[2]
      <3>1. PICK i \in DOMAIN answer \cap DOMAIN specs :
              specs[i][2] # answer[i].of /\ pair = <<specs[i][2], answer[i].of>>
        BY DEF Astray
      <3> QED BY <1>5, <3>1
    <2>3. /\ many \in Seq(Entries)
          /\ Apart => /\ Range(many) = Due(Range(specs), Answering(specs, answer), Astray(specs, answer))
                      /\ \A m, n \in DOMAIN many : m # n /\ many[m] = many[n] => many[m][2] \in Repeated(specs, answer)
      BY <1>4, <1>6, ReadMultipleRows
    <2> HIDE DEF many
    <2> QED BY <1>1, <1>8, <2>1, <2>2, <2>3, DeviceAsked DEF specs, many
  <1> QED BY <1>2, <1>7, <1>8

LEMMA ReadGroupInv == PollInv /\ ReadGroup => PollInv'
  <1> SUFFICES ASSUME PollInv, ReadGroup PROVE PollInv'
    OBVIOUS
  <1> DEFINE specs == SpecsOf(Head(left))
             all == {specs[i][2] : i \in DOMAIN specs}
  <1>1. /\ phase = "reading" /\ left # <<>> /\ left' = Tail(left)
        /\ UNCHANGED <<points, phase, mode, gws, todo, kind, loaded>>
    BY DEF ReadGroup
  <1>2. PICK ok \in SUBSET all : Take(ReadEach(specs, ok), ok, {}, {})
    BY DEF ReadGroup
  <1>3. specs \in Seq(Readings) /\ IsInjective(specs)
    BY SpecsOfDevice DEF PollInv, ScrapeTypeOK, Readings
  <1>4. \A o \in ok : o[1] = Head(left)
    BY SpecsTargets
  <1> HIDE DEF specs
  <1>5. /\ ReadEach(specs, ok) \in Seq(Entries) /\ Range(ReadEach(specs, ok)) = Due(Range(specs), ok, {})
        /\ \A m, n \in DOMAIN ReadEach(specs, ok) :
             m # n /\ ReadEach(specs, ok)[m] = ReadEach(specs, ok)[n] => ReadEach(specs, ok)[m][2] \in {}
    BY <1>3, ReadEachDue
  <1> QED BY <1>1, <1>2, <1>4, <1>5, DeviceAsked DEF specs

\* Outside of a poll nothing has been read.
LEMMA NoReadings ==
  ASSUME ScrapeTypeOK', loaded' = <<>>, left' = <<>>, phase' # "reading", Forget
  PROVE  PollInv'
  BY DEF PollInv, LoadedOnce, AskedOnce, Unheard, NothingHeard, Forget, ReadingsExact, IsInjective

\* What a poll has loaded and read is left alone.
LEMMA PollAside ==
  ASSUME PollInv, ScrapeTypeOK', UNCHANGED <<loaded, left, got, heard>>,
         phase' = phase \/ (phase # "reading" /\ phase' # "reading")
  PROVE  PollInv'
  BY DEF PollInv, LoadedOnce, AskedOnce, Unheard, NothingHeard, ReadingsExact, Apart, heard

LEMMA PollOver ==
  ASSUME ScrapeTypeOK, NEW k \in Kinds, NEW rest \in Lists, NextPoll(k, rest), UNCHANGED <<sites, points, mode, gws>>
  PROVE  PollInv'
  <1>1. ScrapeTypeOK'
    BY DEF NextPoll, Enter, ScrapeTypeOK
  <1>2. loaded' = <<>> /\ left' = <<>> /\ phase' # "reading" /\ Forget
    BY DEF NextPoll, Enter
  <1> QED BY <1>1, <1>2, NoReadings

\* While it runs there is a gateway, and while a gateway is polled one to poll.
Polling ==
  /\ phase # "boot" => gws # <<>>
  /\ phase \in {"polling", "reading"} => todo # <<>>

LEMMA ProceedInv ==
  ASSUME ScrapeTypeOK, todo # <<>>, Proceed \/ GiveUp, UNCHANGED <<sites, points, mode, gws>>
  PROVE  PollInv'
  <1>1. todo \in Lists /\ Tail(todo) \in Lists
    BY DEF ScrapeTypeOK, Lists
  <1> QED BY <1>1, PollOver DEF Proceed, GiveUp, Kinds

LEMMA BootInv == PollInv /\ Boot => PollInv'
  <1> SUFFICES ASSUME PollInv, Boot PROVE PollInv'
    OBVIOUS
  <1>1. PICK list \in GatewayLists \cup {EnvGateways} :
          IF list = Null THEN mode' = "one" /\ gws' = <<Default>> /\ Enter("polling") /\ todo' = <<Default>>
          ELSE IF IsList(list) THEN mode' = "many" /\ gws' = list /\ Enter("polling") /\ todo' = list
          ELSE UNCHANGED <<phase, mode, gws, todo>>
    BY DEF Boot
  <1>2. <<Default>> \in Lists /\ (IsList(list) => list \in Lists)
    BY ScrapeLists DEF IsList, Lists
  <1>3. phase = "boot" /\ UNCHANGED <<sites, points, poll, heard>>
    BY DEF Boot, db
  <1>4. ScrapeTypeOK'
    BY <1>1, <1>2, <1>3 DEF PollInv, ScrapeTypeOK, Enter, poll
  <1>5. phase' # "reading" \/ phase' = phase
    BY <1>1 DEF Enter
  <1> QED BY <1>3, <1>4, <1>5, PollAside DEF poll

LEMMA BeginCycleInv == PollInv /\ BeginCycle => PollInv'
  <1> SUFFICES ASSUME PollInv, BeginCycle PROVE PollInv'
    OBVIOUS
  <1>1. PICK list \in GatewayLists \cup {EnvGateways} : gws' = Adopted(list) /\ todo' = Adopted(list)
    BY DEF BeginCycle
  <1>2. Adopted(list) \in Lists
    BY ScrapeLists DEF PollInv, ScrapeTypeOK, Adopted, IsList
  <1>3. phase = "asleep" /\ phase' = "polling" /\ UNCHANGED <<sites, points, mode, poll, heard>>
    BY DEF BeginCycle, db, Enter
  <1>4. ScrapeTypeOK'
    BY <1>1, <1>2, <1>3 DEF PollInv, ScrapeTypeOK, poll
  <1> QED BY <1>3, <1>4, PollAside DEF poll

LEMMA LoadPointsInv == PollInv /\ Polling /\ LoadPoints => PollInv'
  <1> SUFFICES ASSUME PollInv, Polling, LoadPoints PROVE PollInv'
    OBVIOUS
  <1>1. ScrapeTypeOK /\ todo # <<>> /\ UNCHANGED <<sites, points, mode, gws>>
    BY DEF PollInv, Polling, LoadPoints, db
  <1>2. CASE Selected = <<>>
    <2>1. Proceed
      BY <1>2 DEF LoadPoints
    <2> QED BY <1>1, <2>1, ProceedInv
  <1>3. CASE Selected # <<>>
    <2>1. /\ loaded' = Selected /\ left' = Once(Devices(Selected)) /\ got' = <<>> /\ UNCHANGED heard
          /\ UNCHANGED <<sites, points, mode, gws, kind, todo>> /\ phase' = "reading"
      BY <1>1, <1>3 DEF LoadPoints, Enter, heard
    <2>2. /\ Selected \in Seq(Readings)
          /\ \A i, j \in DOMAIN Selected : Selected[i][1] = Selected[j][1] => i = j
      BY <1>1, SelectedPoints
    <2> DEFINE s == Selected
    <2>3. s \in Seq(Readings)
      BY <2>2
    <2> HIDE DEF s
    <2>4. Devices(s) \in Seq(Hosts)
      <3>1. DOMAIN s = 1..Len(s) /\ Len(s) \in Nat /\ \A i \in DOMAIN s : s[i] \in Readings
        BY <2>3
      <3>2. \A i \in DOMAIN s : s[i][2][1] \in Hosts
        BY <3>1 DEF Readings, Hosts
      <3> QED BY <3>1, <3>2 DEF Devices
    <2>5. Once(Devices(s)) \in Seq(Hosts) /\ IsInjective(Once(Devices(s)))
      BY <2>4, OnceEach
    <2>6. ScrapeTypeOK'
      BY <1>1, <2>1, <2>2, <2>5 DEF ScrapeTypeOK, Readings, s
    <2>7. LoadedOnce' /\ AskedOnce' /\ Unheard'
      BY <2>1, <2>2, <2>5 DEF LoadedOnce, AskedOnce, Unheard, s
    <2>8. ReadingsExact'
      <3>1. NothingHeard
        BY DEF PollInv, Unheard, LoadPoints
      <3>2. NothingHeard'
        BY <2>1, <3>1 DEF NothingHeard, heard
      <3> QED BY <2>1, <3>2 DEF ReadingsExact, NothingHeard, Due, Range
    <2> QED BY <2>6, <2>7, <2>8 DEF PollInv
  <1> QED BY <1>2, <1>3

LEMMA StoreReadingsInv == PollInv /\ Polling /\ StoreReadings => PollInv'
  <1> SUFFICES ASSUME PollInv, Polling, StoreReadings PROVE PollInv'
    OBVIOUS
  <1>1. ScrapeTypeOK /\ todo # <<>> /\ UNCHANGED <<sites, points, mode, gws>> /\ (Proceed \/ GiveUp)
    BY DEF PollInv, Polling, StoreReadings, db
  <1> QED BY <1>1, ProceedInv

LEMMA PollFailsInv == PollInv /\ Polling /\ PollFails => PollInv'
  <1> SUFFICES ASSUME PollInv, Polling, PollFails PROVE PollInv'
    OBVIOUS
  <1>1. ScrapeTypeOK /\ todo # <<>> /\ UNCHANGED <<sites, points, mode, gws>> /\ GiveUp
    BY DEF PollInv, Polling, PollFails, db
  <1> QED BY <1>1, ProceedInv

LEMMA RestartInv == PollInv /\ Restart => PollInv'
  <1> SUFFICES ASSUME PollInv, Restart PROVE PollInv'
    OBVIOUS
  <1>1. /\ phase' = "boot" /\ gws' = <<>> /\ todo' = <<>> /\ mode' = "one" /\ kind' = "bacnet"
        /\ loaded' = <<>> /\ left' = <<>> /\ got' = <<>> /\ Forget /\ UNCHANGED <<sites, points>>
    BY DEF Restart, Enter, db
  <1>2. ScrapeTypeOK'
    BY <1>1 DEF PollInv, ScrapeTypeOK, Lists, Kinds
  <1> QED BY <1>1, <1>2, NoReadings

\* A request leaves the scraper alone; the points keep their columns.
LEMMA RequestInv ==
  ASSUME PollInv, sites' \subseteq Sites \cup {Ghost}, UNCHANGED <<scraper, heard>>,
         DOMAIN points' \subseteq Points, points' \in [DOMAIN points' -> Point]
  PROVE  PollInv'
  <1>1. UNCHANGED <<phase, mode, gws, todo, kind, loaded, left, got>>
    BY DEF scraper, poll
  <1>2. ScrapeTypeOK'
    BY <1>1 DEF PollInv, ScrapeTypeOK
  <1> QED BY <1>1, <1>2, PollAside

LEMMA WithoutPoints ==
  ASSUME ScrapeTypeOK, NEW gone
  PROVE  DOMAIN Without(gone) \subseteq Points /\ Without(gone) \in [DOMAIN Without(gone) -> Point]
  BY DEF ScrapeTypeOK, Without

LEMMA DeletePointInv == ASSUME PollInv, NEW p \in Points, DeletePoint(p) PROVE PollInv'
  <1>1. ScrapeTypeOK /\ sites' = sites /\ points' = Without({p}) /\ UNCHANGED <<scraper, heard>>
    BY DEF PollInv, DeletePoint
  <1>2. sites' \subseteq Sites \cup {Ghost}
    BY <1>1 DEF ScrapeTypeOK
  <1> QED BY <1>1, <1>2, WithoutPoints, RequestInv

LEMMA DeleteSiteInv == ASSUME PollInv, NEW s \in Sites, DeleteSite(s) PROVE PollInv'
  <1> DEFINE gone == {p \in DOMAIN points : SiteOf[p] = s}
  <1>1. ScrapeTypeOK /\ sites' = sites \ {s} /\ points' = Without(gone) /\ UNCHANGED <<scraper, heard>>
    BY DEF PollInv, DeleteSite
  <1>2. sites' \subseteq Sites \cup {Ghost}
    BY <1>1 DEF ScrapeTypeOK
  <1> HIDE DEF gone
  <1> QED BY <1>1, <1>2, WithoutPoints, RequestInv

LEMMA PatchPointInv == ASSUME PollInv, NEW p \in Points, NEW b \in Patches, PatchPoint(p, b) PROVE PollInv'
  <1>1. /\ ScrapeTypeOK /\ sites' = sites /\ p \in DOMAIN points
        /\ points' = [points EXCEPT ![p] = Patched(points[p], b)] /\ UNCHANGED <<scraper, heard>>
    BY DEF PollInv, PatchPoint
  <1>2. sites' \subseteq Sites \cup {Ghost} /\ points \in [DOMAIN points -> Point] /\ DOMAIN points \subseteq Points
    BY <1>1 DEF ScrapeTypeOK
  <1>3. Patched(points[p], b) \in Point
    BY <1>1, <1>2, PatchedPoint
  <1>4. DOMAIN points' = DOMAIN points /\ points' \in [DOMAIN points -> Point]
    BY <1>1, <1>2, <1>3
  <1> QED BY <1>1, <1>2, <1>4, RequestInv

LEMMA PutGatewaysInv == ASSUME PollInv, NEW list \in GatewayLists, PutGateways(list) PROVE PollInv'
  <1>1. ScrapeTypeOK /\ UNCHANGED <<sites, points, scraper, heard>>
    BY DEF PollInv, PutGateways
  <1>2. sites' \subseteq Sites \cup {Ghost} /\ points' \in [DOMAIN points' -> Point] /\ DOMAIN points' \subseteq Points
    BY <1>1 DEF ScrapeTypeOK
  <1> QED BY <1>1, <1>2, RequestInv

LEMMA InitPolling == ScrapeInit => Polling
  BY DEF ScrapeInit, Polling

LEMMA NextPolling == ScrapeTypeOK /\ Polling /\ [ScrapeNext]_scrapeVars => Polling'
  <1> SUFFICES ASSUME ScrapeTypeOK, Polling, [ScrapeNext]_scrapeVars PROVE Polling'
    OBVIOUS
  <1> USE DEF Polling, Enter
  <1>1. CASE Boot
    BY <1>1 DEF Boot, IsList
  <1>2. CASE BeginCycle
    BY <1>2 DEF BeginCycle, Adopted, IsList
  <1>3. ASSUME Proceed \/ GiveUp, phase \in {"polling", "reading"}, gws' = gws PROVE Polling'
    BY <1>3 DEF Proceed, GiveUp, NextPoll
  <1>4. CASE LoadPoints
    BY <1>3, <1>4 DEF LoadPoints
  <1>5. CASE ReadDevice
    BY <1>5 DEF ReadDevice
  <1>6. CASE ReadGroup
    BY <1>6 DEF ReadGroup
  <1>7. CASE StoreReadings
    BY <1>3, <1>7 DEF StoreReadings
  <1>8. CASE PollFails
    BY <1>3, <1>8 DEF PollFails
  <1>9. CASE Restart
    BY <1>9 DEF Restart
  <1>10. CASE UNCHANGED scraper
    BY <1>10 DEF scraper
  <1>11. ASSUME NEW p \in Points, DeletePoint(p) \/ \E b \in Patches : PatchPoint(p, b) PROVE UNCHANGED scraper
    BY <1>11 DEF DeletePoint, PatchPoint
  <1>12. ASSUME NEW s \in Sites, DeleteSite(s) PROVE UNCHANGED scraper
    BY <1>12 DEF DeleteSite
  <1>13. ASSUME NEW list \in GatewayLists, PutGateways(list) PROVE UNCHANGED scraper
    BY <1>13 DEF PutGateways
  <1>14. CASE UNCHANGED scrapeVars
    BY <1>10, <1>14 DEF scrapeVars
  <1> QED BY <1>1, <1>2, <1>4, <1>5, <1>6, <1>7, <1>8, <1>9, <1>10, <1>11, <1>12, <1>13, <1>14 DEF ScrapeNext, Scraper

LEMMA NextPollInv == PollInv /\ Polling /\ [ScrapeNext]_scrapeVars => PollInv'
  <1> SUFFICES ASSUME PollInv, Polling, [ScrapeNext]_scrapeVars PROVE PollInv'
    OBVIOUS
  <1>1. CASE Scraper
    BY <1>1, BootInv, BeginCycleInv, LoadPointsInv, ReadDeviceInv, ReadGroupInv, StoreReadingsInv DEF Scraper
  <1>2. CASE PollFails \/ Restart
    BY <1>2, PollFailsInv, RestartInv
  <1>3. CASE \E p \in Points : DeletePoint(p) \/ \E b \in Patches : PatchPoint(p, b)
    BY <1>3, DeletePointInv, PatchPointInv
  <1>4. CASE \E s \in Sites : DeleteSite(s)
    BY <1>4, DeleteSiteInv
  <1>5. CASE \E list \in GatewayLists : PutGateways(list)
    BY <1>5, PutGatewaysInv
  <1>6. CASE UNCHANGED scrapeVars
    <2>1. UNCHANGED <<sites, points, phase, mode, gws, todo, kind, loaded, left, got, heard>>
      BY <1>6 DEF scrapeVars, scraper, poll
    <2>2. ScrapeTypeOK'
      BY <2>1 DEF PollInv, ScrapeTypeOK
    <2> QED BY <2>1, <2>2, PollAside
  <1> QED BY <1>1, <1>2, <1>3, <1>4, <1>5, <1>6 DEF ScrapeNext

LEMMA PollInvariant == ScrapeSpec => [](PollInv /\ Polling)
  <1>1. ScrapeInit => PollInv /\ Polling
    BY ScrapeInitInv, InitPolling
  <1>2. PollInv /\ Polling /\ [ScrapeNext]_scrapeVars => (PollInv /\ Polling)'
    BY NextPollInv, NextPolling DEF PollInv
  <1> QED BY <1>1, <1>2, PTL DEF ScrapeSpec

\* The scraper's gateways stay a list, whatever the settings hold, and what it
\* loads and reads are points and objects, whatever is deleted or moved
\* meanwhile (drivers/run_bacnet_scrape.py, drivers/bacnet.py, modbus_tcp.py).
THEOREM ScrapeTypeCorrect == ScrapeSpec => []ScrapeTypeOK
  BY PollInvariant, PTL DEF PollInv

\* What is due to a point: a reading of its own object when that answered, and
\* what came astray in its place.
LEMMA ExactIsOwn == PollInv => OwnReadings
  <1> SUFFICES ASSUME PollInv, phase = "reading", Apart, NEW i \in DOMAIN loaded
      PROVE  LET object == loaded[i][2]
                 its == {j \in DOMAIN got : got[j][1] = loaded[i][1]}
                 own == {j \in its : got[j][2] = object}
             IN /\ own # {} <=> object \in answered
                /\ object \notin repeated => \A j, k \in own : j = k
                /\ \A j \in its \ own : <<object, got[j][2]>> \in astray
    BY DEF OwnReadings
  <1> DEFINE object == loaded[i][2]
             its == {j \in DOMAIN got : got[j][1] = loaded[i][1]}
             own == {j \in its : got[j][2] = object}
  <1>1. loaded \in Seq(Readings) /\ got \in Seq(Entries) /\ loaded[i] \in Readings /\ loaded[i] \in Range(loaded)
    BY DEF PollInv, ScrapeTypeOK, Readings, Entries, Range
  <1>2. /\ Range(got) = Due(Range(loaded), answered, astray)
        /\ \A m, n \in DOMAIN got : m # n /\ got[m] = got[n] => got[m][2] \in repeated
        /\ \A pair \in astray : pair[1] # pair[2]
    BY DEF PollInv, ReadingsExact
  <1>3. \A r \in Range(loaded) : r[1] = loaded[i][1] => r = loaded[i]
    BY DEF PollInv, LoadedOnce, Range
  <1>4. ASSUME NEW j \in its PROVE \/ got[j] = loaded[i] /\ object \in answered
                                   \/ <<object, got[j][2]>> \in astray
    <2>1. got[j] \in Due(Range(loaded), answered, astray)
      BY <1>2 DEF Range
    <2> QED BY <1>3, <2>1 DEF Due
  <1>5. ASSUME NEW j \in own PROVE got[j] = loaded[i] /\ object \in answered
    <2>1. <<object, got[j][2]>> \notin astray
      <3>1. <<object, got[j][2]>>[1] = <<object, got[j][2]>>[2]
        OBVIOUS
      <3> QED BY <1>2, <3>1
    <2> QED BY <1>4, <2>1
  <1>6. ASSUME object \in answered PROVE own # {}
    <2>1. loaded[i] \in Range(got)
      BY <1>1, <1>2, <1>6 DEF Due
    <2> QED BY <2>1 DEF Range
  <1>7. ASSUME object \notin repeated, NEW j \in own, NEW k \in own PROVE j = k
    BY <1>2, <1>5, <1>7
  <1>8. ASSUME NEW j \in its \ own PROVE <<object, got[j][2]>> \in astray
    BY <1>4
  <1> QED BY <1>5, <1>6, <1>7, <1>8

\* _scrape_via_rpc and the Modbus poll give a point a reading of its own object
\* exactly when that answered under its identifier or in its place, once unless
\* it answered twice, and nothing else but what came in its place under an
\* identifier not asked for: for any devices and points, any answers, as long as
\* no two points of the poll share an object (drivers/bacnet.py:268-374).
THEOREM ReadingsAreOwn == ScrapeSpec => []OwnReadings
  BY PollInvariant, ExactIsOwn, PTL
==============================================================================
