---------------------------- MODULE FddLoopProofs ----------------------------
(***************************************************************************)
(* What FddLoop's runs check on small instances, proved for any settings,  *)
(* interval length, number of processes and bound.  The inductive          *)
(* invariant follows a pass: between reading the row and saving it, the    *)
(* points before the cursor have been evaluated under the pass's own key.  *)
(* The last part is about the rule files that the runs load: what a reader *)
(* holds of a file that did not change since it began is the file's text.  *)
(***************************************************************************)
EXTENDS FddLoop, RuleFiles, WellFoundedInduction, TLAPS

InPass(p) == pc[p] \in {"window", "save"}

\* A running pass works on valid settings, strictly before its target.
PassShape ==
  \A p \in Procs : InPass(p) =>
    /\ seen[p].start <= cursor[p]
    /\ cursor[p] < target[p]
    /\ seen[p].end # NoEnd => target[p] = seen[p].end

\* What a running pass has evaluated so far.
PassCovered ==
  \A p \in Procs :
    /\ InPass(p) => seen[p].start..(cursor[p] - 1) \subseteq done[Key(seen[p])]
    /\ pc[p] = "save" => cursor[p]..WindowEnd(p) \subseteq done[Key(seen[p])]

IInv ==
  /\ TypeOK
  /\ PassShape
  /\ PassCovered
  /\ CursorStaysInRange
  /\ CursorLeavesNoGap

------------------------------------------------------------------------------
\* Facts about the settings.

\* A setting's fields, and its key.
LEMMA SettingFields ==
  ASSUME NEW c \in Settings
  PROVE  /\ c.on \in BOOLEAN /\ c.start \in Int /\ c.step \in Int /\ c.step >= 1
         /\ c.end \in Int \cup {NoEnd}
         /\ Key(c) \in Keys /\ Key(c).start = c.start /\ Key(c).end = c.end
  BY SettingsShape DEF Keys, Key

\* The cursor a pass starts from is not before the configured start.
LEMMA ResumeInRange ==
  ASSUME TypeOK, CursorStaysInRange, NEW c \in Settings
  PROVE  Resume(c) \in Int /\ Resume(c) >= c.start
  BY SettingFields DEF TypeOK, CursorStaysInRange, Resume, Rows, Key

\* A window moves the cursor forward, to the target at most.
LEMMA WindowAdvances ==
  ASSUME TypeOK, PassShape, NEW p \in Procs, InPass(p)
  PROVE  /\ WindowEnd(p) \in Int
         /\ cursor[p] < WindowEnd(p) /\ WindowEnd(p) <= target[p]
  <1>1. seen[p] \in Settings /\ cursor[p] \in Int /\ target[p] \in Int
    BY DEF TypeOK
  <1>2. seen[p].step \in Int /\ seen[p].step >= 1
    BY <1>1, SettingFields
  <1>3. cursor[p] < target[p]
    BY DEF PassShape
  <1> QED BY <1>1, <1>2, <1>3 DEF WindowEnd

------------------------------------------------------------------------------
LEMMA InitIInv == Init => IInv
  <1> SUFFICES ASSUME Init PROVE IInv
    OBVIOUS
  <1>1. TypeOK
    <2>1. now \in Nat /\ elapsed \in 0..SleepSec /\ changes \in Nat /\ faults \in Nat
      BY LoopBounds DEF Init
    <2>2. pc \in [Procs -> Pcs]
      BY DEF Init, Pcs
    <2>3. /\ seen \in [Procs -> Settings]
          /\ cursor \in [Procs -> Int] /\ target \in [Procs -> Int]
          /\ done \in [Keys -> SUBSET Int]
      BY DEF Init, Settings
    <2>4. cfg \in Settings /\ file \in BOOLEAN /\ asked \in BOOLEAN
          /\ row \in Rows \cup {NoRow} /\ finished \in Keys \cup {None}
      BY DEF Init
    <2> QED BY <2>1, <2>2, <2>3, <2>4 DEF TypeOK
  <1>2. PassShape /\ PassCovered
    BY DEF Init, PassShape, PassCovered, InPass
  <1>3. CursorStaysInRange /\ CursorLeavesNoGap
    BY DEF Init, CursorStaysInRange, CursorLeavesNoGap
  <1> QED BY <1>1, <1>2, <1>3 DEF IInv

------------------------------------------------------------------------------
\* Every step keeps the types.
LEMMA TypeStep ==
  ASSUME TypeOK, [Next]_vars
  PROVE  TypeOK'
  <1> USE DEF TypeOK
  <1>0. \A p \in Procs, l \in Pcs : Goto(p, l) => pc' \in [Procs -> Pcs]
    BY DEF Goto
  <1>1. \A p \in Procs : Die(p) => pc' \in [Procs -> Pcs]
    BY DEF Goto, Die, Pcs
  <1>2. /\ Default \in Settings /\ cfg \in Settings
        /\ Fault => faults' \in Nat
    BY DEF Fault, Settings
  <1>3. \A p \in Procs : WindowEnd(p) \in Int
    <2> TAKE p \in Procs
    <2>1. seen[p].step \in Int
      BY SettingFields
    <2> QED BY <2>1 DEF WindowEnd
  <1>4. ASSUME NEW p \in Procs, Step(p) PROVE TypeOK'
    <2>1. CASE Reload(p)
      <3>1. pc' \in [Procs -> Pcs]
        BY <1>0, <2>1 DEF Reload, Pcs
      <3>2. seen' \in [Procs -> Settings]
        BY <1>2, <2>1 DEF Reload
      <3> QED BY <1>2, <2>1, <3>1, <3>2 DEF Reload, env, pass
    <2>2. CASE BeginPass(p)
      <3>1. seen[p] \in Settings
        OBVIOUS
      <3>2. Resume(seen[p]) \in Int /\ PassTarget(seen[p]) \in Int
        BY <3>1, SettingFields, NoRowIsNoRow DEF Resume, PassTarget, Rows
      <3>3. pc' \in [Procs -> Pcs] /\ cursor' \in [Procs -> Int] /\ target' \in [Procs -> Int]
        BY <1>0, <2>2, <3>2 DEF BeginPass, Pcs, pass
      <3>4. asked' \in BOOLEAN
        BY <2>2 DEF BeginPass, BeginRun
      <3> QED BY <2>2, <3>3, <3>4 DEF BeginPass, env
    <2>3. CASE BeginPassFails(p)
      BY <1>1, <1>2, <2>3 DEF BeginPassFails, env, pass
    <2>4. CASE RunWindow(p)
      <3>1. pc' \in [Procs -> Pcs]
        BY <1>0, <2>4 DEF RunWindow, Pcs
      <3>2. cursor[p]..WindowEnd(p) \subseteq Int
        BY <1>3
      <3>3. done' \in [Keys -> SUBSET Int]
        <4>1. Key(seen[p]) \in Keys
          BY SettingFields
        <4> QED BY <2>4, <3>2, <4>1 DEF RunWindow
      <3> QED BY <2>4, <3>1, <3>3 DEF RunWindow, env, pass
    <2>5. CASE RunWindowFails(p)
      <3>1. pc' \in [Procs -> Pcs]
        BY <1>0, <2>5 DEF RunWindowFails, Pcs
      <3> QED BY <1>2, <2>5, <3>1 DEF RunWindowFails, env, pass
    <2>6. CASE SaveState(p)
      <3>1. AfterPass(p) \in Pcs /\ "window" \in Pcs
        BY DEF AfterPass, Pcs
      <3>2. pc' \in [Procs -> Pcs]
        BY <1>0, <2>6, <3>1 DEF SaveState
      <3>3. row' \in Rows /\ cursor' \in [Procs -> Int]
        BY <1>3, <2>6, SettingFields DEF SaveState, Rows
      <3>4. elapsed' \in 0..SleepSec /\ finished' \in Keys \cup {None}
        BY <2>6, SettingFields, LoopBounds DEF SaveState
      <3> QED BY <2>6, <3>2, <3>3, <3>4 DEF SaveState, env
    <2>7. CASE SaveStateFails(p)
      BY <1>1, <1>2, <2>7 DEF SaveStateFails, env, pass
    <2>8. CASE RunRoutine(p)
      <3>1. pc' \in [Procs -> Pcs]
        BY <1>0, <2>8 DEF RunRoutine, Pcs
      <3>2. elapsed' \in 0..SleepSec
        BY <2>8, LoopBounds DEF RunRoutine
      <3> QED BY <2>8, <3>1, <3>2 DEF RunRoutine, env, pass
    <2>9. CASE StartOneShot(p)
      <3>1. pc' \in [Procs -> Pcs]
        BY <1>0, <2>9 DEF StartOneShot, Pcs
      <3>2. seen' \in [Procs -> Settings]
        BY <1>2, <2>9 DEF StartOneShot
      <3> QED BY <2>9, <3>1, <3>2 DEF StartOneShot, env, pass
    <2>10. CASE Crash(p)
      BY <1>1, <1>2, <2>10 DEF Crash, env, pass
    <2> QED
      BY <1>4, <2>1, <2>2, <2>3, <2>4, <2>5, <2>6, <2>7, <2>8, <2>9, <2>10 DEF Step
  <1>5. CASE Nap
    <2>1. Loop \in Procs /\ "reload" \in Pcs /\ "pass" \in Pcs
      BY DEF Procs, Pcs
    <2>2. CASE NapOn
      <3>1. elapsed' \in 0..SleepSec
        BY <1>5, <2>2, LoopBounds DEF Nap, NapOn, NapLength
      <3>2. pc' \in [Procs -> Pcs]
        BY <1>0, <2>1, <2>2 DEF NapOn
      <3> QED BY <1>5, <2>2, <3>1, <3>2 DEF Nap, NapOn, env, pass
    <2>4. CASE TakeTrigger
      <3>1. pc' \in [Procs -> Pcs]
        BY <1>0, <2>1, <2>4 DEF TakeTrigger
      <3> QED BY <1>2, <1>5, <2>4, <3>1 DEF Nap, TakeTrigger, env, pass
    <2> QED BY <1>5, <2>2, <2>4 DEF Nap
  <1>6. CASE Restart
    <2>1. pc' \in [Procs -> Pcs]
      BY <1>0, <1>6 DEF Restart, Procs, Pcs
    <2>2. seen' \in [Procs -> Settings]
      BY <1>2, <1>6 DEF Restart
    <2> QED BY <1>6, <2>1, <2>2, LoopBounds DEF Restart, env, pass
  <1>7. CASE Touch
    BY <1>7 DEF Touch, env, pass
  <1>8. CASE Tick
    BY <1>8 DEF Tick, pass
  <1>9. ASSUME NEW c \in Settings, PutConfig(c) PROVE TypeOK'
    BY <1>9 DEF PutConfig, pass
  <1>10. CASE UNCHANGED vars
    BY <1>10 DEF vars
  <1> QED
    BY <1>4, <1>5, <1>6, <1>7, <1>8, <1>9, <1>10 DEF Next

------------------------------------------------------------------------------
\* PassShape and PassCovered of one process.
ShapeOf(q) ==
  InPass(q) =>
    /\ seen[q].start <= cursor[q]
    /\ cursor[q] < target[q]
    /\ seen[q].end # NoEnd => target[q] = seen[q].end

CoveredOf(q) ==
  /\ InPass(q) => seen[q].start..(cursor[q] - 1) \subseteq done[Key(seen[q])]
  /\ pc[q] = "save" => cursor[q]..WindowEnd(q) \subseteq done[Key(seen[q])]

\* A process outside a pass has nothing to keep.
LEMMA OutOfPass ==
  ASSUME NEW q, pc'[q] \notin {"window", "save"}
  PROVE  ShapeOf(q)' /\ CoveredOf(q)'
  BY DEF ShapeOf, CoveredOf, InPass

\* A process whose place, settings and bounds stay keeps what it has while
\* done grows.
LEMMA Undisturbed ==
  ASSUME NEW q, pc'[q] = pc[q], seen'[q] = seen[q], cursor'[q] = cursor[q],
         target'[q] = target[q], done[Key(seen[q])] \subseteq done'[Key(seen[q])],
         ShapeOf(q), CoveredOf(q)
  PROVE  ShapeOf(q)' /\ CoveredOf(q)'
  BY DEF ShapeOf, CoveredOf, InPass, WindowEnd

\* Every step keeps both for every process.
LEMMA PassStep ==
  ASSUME IInv, [Next]_vars
  PROVE  (PassShape /\ PassCovered)'
  <1> SUFFICES ASSUME NEW q \in Procs PROVE ShapeOf(q)' /\ CoveredOf(q)'
    BY DEF PassShape, PassCovered, ShapeOf, CoveredOf, InPass, WindowEnd
  <1>0. TypeOK /\ PassShape /\ ShapeOf(q) /\ CoveredOf(q)
    BY DEF IInv, PassShape, PassCovered, ShapeOf, CoveredOf
  <1>q. Key(seen[q]) \in Keys /\ seen[q] \in Settings
    BY <1>0, SettingFields DEF TypeOK
  <1>l. \A p \in Procs : \A l : Goto(p, l) => pc'[p] = l /\ (q # p => pc'[q] = pc[q])
    BY <1>0 DEF TypeOK, Goto
  <1>d. \A p \in Procs : Die(p) => pc'[p] \notin {"window", "save"} /\ (q # p => pc'[q] = pc[q])
    BY <1>l DEF Die
  <1>1. ASSUME NEW p \in Procs, Step(p) PROVE ShapeOf(q)' /\ CoveredOf(q)'
    <2>1. CASE p # q
      <3>1. pc'[q] = pc[q]
        BY <1>l, <1>d, <1>1, <2>1
           DEF Step, Reload, BeginPass, BeginPassFails, RunWindow, RunWindowFails, SaveState,
               SaveStateFails, RunRoutine, StartOneShot, Crash
      <3>2. seen'[q] = seen[q] /\ cursor'[q] = cursor[q] /\ target'[q] = target[q]
        BY <1>0, <1>1, <2>1
           DEF TypeOK, Step, Reload, BeginPass, BeginPassFails, RunWindow, RunWindowFails, SaveState,
               SaveStateFails, RunRoutine, StartOneShot, Crash, pass
      <3>3. done[Key(seen[q])] \subseteq done'[Key(seen[q])]
        BY <1>0, <1>1, <1>q
           DEF TypeOK, Step, Reload, BeginPass, BeginPassFails, RunWindow, RunWindowFails, SaveState,
               SaveStateFails, RunRoutine, StartOneShot, Crash
      <3> QED BY <1>0, <3>1, <3>2, <3>3, Undisturbed
    <2>2. CASE p = q /\ BeginPass(q)
      <3>1. CASE pc'[q] # "window"
        BY <1>l, <2>2, <3>1, OutOfPass DEF BeginPass
      <3>2. CASE pc'[q] = "window"
        <4>1. /\ BackfillOn(seen[q]) /\ ~ Complete(Resume(seen[q]), PassTarget(seen[q]))
              /\ cursor'[q] = Resume(seen[q]) /\ target'[q] = PassTarget(seen[q])
              /\ seen' = seen /\ done' = done
          BY <1>0, <1>l, <2>2, <3>2 DEF BeginPass, TypeOK
        <4>2. Resume(seen[q]) \in Int /\ Resume(seen[q]) >= seen[q].start
          BY <1>0, <1>q, ResumeInRange DEF IInv
        <4>3. PassTarget(seen[q]) \in Int /\ Resume(seen[q]) < PassTarget(seen[q])
          BY <1>0, <1>q, <4>1, <4>2, SettingFields, NoRowIsNoRow DEF PassTarget, Complete, TypeOK
        <4>4. ShapeOf(q)'
          BY <1>q, <4>1, <4>2, <4>3 DEF ShapeOf, PassTarget
        <4>5. seen[q].start..(Resume(seen[q]) - 1) \subseteq done[Key(seen[q])]
          <5>1. CASE row = NoRow \/ row.key # Key(seen[q])
            BY <1>q, <5>1, SettingFields DEF Resume
          <5>2. CASE ~ (row = NoRow \/ row.key # Key(seen[q]))
            <6>1. row.key.start..row.last \subseteq done[row.key] /\ row.last \in Int
              BY <1>0, <5>2 DEF IInv, CursorLeavesNoGap, TypeOK, Rows
            <6>2. row.key.start = seen[q].start /\ seen[q].start \in Int
              BY <1>q, <5>2, SettingFields
            <6> QED BY <5>2, <6>1, <6>2 DEF Resume
          <5> QED BY <5>1, <5>2
        <4>6. CoveredOf(q)'
          BY <3>2, <4>1, <4>5 DEF CoveredOf
        <4> QED BY <4>4, <4>6
      <3> QED BY <3>1, <3>2
    <2>3. CASE p = q /\ RunWindow(q)
      <3>1. pc'[q] = "save" /\ pc[q] = "window" /\ seen' = seen /\ cursor' = cursor /\ target' = target
        BY <1>l, <2>3 DEF RunWindow, pass
      <3>2. done'[Key(seen[q])] = done[Key(seen[q])] \cup (cursor[q]..WindowEnd(q))
        BY <1>0, <1>q, <2>3 DEF RunWindow, TypeOK
      <3> QED BY <1>0, <3>1, <3>2 DEF ShapeOf, CoveredOf, InPass, WindowEnd
    <2>4. CASE p = q /\ SaveState(q)
      <3>1. CASE WindowEnd(q) >= target[q]
        <4>1. pc'[q] = AfterPass(q)
          BY <1>0, <1>l, <2>4, <3>1, WindowAdvances DEF SaveState, InPass, TypeOK
        <4> QED BY <4>1, OutOfPass DEF AfterPass
      <3>2. CASE ~ (WindowEnd(q) >= target[q])
        <4>1. /\ pc'[q] = "window" /\ pc[q] = "save" /\ WindowEnd(q) < target[q]
              /\ seen' = seen /\ cursor'[q] = WindowEnd(q) /\ target' = target /\ done' = done
          BY <1>0, <1>l, <2>4, <3>2 DEF SaveState, TypeOK
        <4>2. WindowEnd(q) \in Int /\ cursor[q] < WindowEnd(q) /\ cursor[q] \in Int /\ seen[q].start \in Int
          BY <1>0, <1>q, <4>1, WindowAdvances, SettingFields DEF InPass, TypeOK
        <4>3. ShapeOf(q)'
          BY <1>0, <4>1, <4>2 DEF ShapeOf, InPass
        <4>4. seen[q].start..(WindowEnd(q) - 1) \subseteq done[Key(seen[q])]
          BY <1>0, <4>1, <4>2 DEF CoveredOf, InPass
        <4>5. CoveredOf(q)'
          BY <4>1, <4>4 DEF CoveredOf
        <4> QED BY <4>3, <4>5
      <3> QED BY <3>1, <3>2
    <2>5. CASE p = q /\ ~ BeginPass(q) /\ ~ RunWindow(q) /\ ~ SaveState(q)
      <3>1. pc'[q] \notin {"window", "save"}
        BY <1>1, <1>l, <1>d, <2>5
           DEF Step, Reload, BeginPassFails, RunWindowFails, SaveStateFails, RunRoutine, StartOneShot, Crash
      <3> QED BY <3>1, OutOfPass
    <2> QED BY <2>1, <2>2, <2>3, <2>4, <2>5
  <1>2. CASE Nap \/ Restart
    <2>1. CASE q = Loop
      <3>1. pc'[q] \notin {"window", "save"}
        BY <1>2, <1>l, <2>1 DEF Nap, NapOn, TakeTrigger, Restart
      <3> QED BY <3>1, OutOfPass
    <2>2. CASE q # Loop
      <3>1. Loop \in Procs
        BY DEF Procs
      <3>2. pc'[q] = pc[q]
        BY <1>2, <1>l, <2>2, <3>1 DEF Nap, NapOn, TakeTrigger, Restart
      <3>3. seen'[q] = seen[q] /\ cursor' = cursor /\ target' = target /\ done' = done
        BY <1>0, <1>2, <2>2 DEF Nap, Restart, pass, TypeOK
      <3> QED BY <1>0, <3>2, <3>3, Undisturbed
    <2> QED BY <2>1, <2>2
  <1>3. CASE Touch \/ Tick \/ UNCHANGED vars \/ \E c \in Settings : PutConfig(c)
    <2>1. pc' = pc /\ seen' = seen /\ cursor' = cursor /\ target' = target /\ done' = done
      BY <1>3 DEF Touch, Tick, PutConfig, vars, pass
    <2> QED BY <1>0, <2>1, Undisturbed
  <1> QED BY <1>1, <1>2, <1>3 DEF Next

------------------------------------------------------------------------------
\* Only SaveState touches the row; every other step leaves it over a growing
\* done.
LEMMA RowStep ==
  ASSUME IInv, [Next]_vars
  PROVE  (CursorStaysInRange /\ CursorLeavesNoGap)'
  <1>0. TypeOK /\ PassShape /\ PassCovered /\ CursorStaysInRange /\ CursorLeavesNoGap
    BY DEF IInv
  <1>1. ASSUME NEW p \in Procs, SaveState(p) PROVE (CursorStaysInRange /\ CursorLeavesNoGap)'
    <2>1. /\ pc[p] = "save" /\ done' = done
          /\ row' = [last |-> WindowEnd(p), key |-> Key(seen[p])]
      BY <1>1 DEF SaveState
    <2>2. /\ seen[p] \in Settings /\ cursor[p] \in Int /\ target[p] \in Int
          /\ seen[p].start \in Int /\ Key(seen[p]).start = seen[p].start
          /\ Key(seen[p]).end = seen[p].end
      BY <1>0, SettingFields DEF TypeOK
    <2>3. /\ WindowEnd(p) \in Int /\ cursor[p] < WindowEnd(p) /\ WindowEnd(p) <= target[p]
      BY <1>0, <2>1, WindowAdvances DEF InPass
    <2>4. /\ seen[p].start <= cursor[p]
          /\ seen[p].end # NoEnd => target[p] = seen[p].end
      BY <1>0, <2>1 DEF PassShape, InPass
    <2>5. CursorStaysInRange'
      BY <2>1, <2>2, <2>3, <2>4 DEF CursorStaysInRange
    <2>6. seen[p].start..WindowEnd(p) \subseteq done[Key(seen[p])]
      <3>1. /\ seen[p].start..(cursor[p] - 1) \subseteq done[Key(seen[p])]
            /\ cursor[p]..WindowEnd(p) \subseteq done[Key(seen[p])]
        BY <1>0, <2>1 DEF PassCovered, InPass
      <3> QED BY <2>2, <2>3, <3>1
    <2>7. CursorLeavesNoGap'
      BY <2>1, <2>2, <2>6 DEF CursorLeavesNoGap
    <2> QED BY <2>5, <2>7
  <1>2. CASE ~ \E p \in Procs : SaveState(p)
    <2>1. row' = row
      BY <1>2 DEF Next, Step, Reload, BeginPass, BeginPassFails, RunWindow, RunWindowFails,
                  SaveStateFails, RunRoutine, StartOneShot, Crash, Nap, Restart, Touch, Tick,
                  PutConfig, vars
    <2>2. \A k \in Keys : done[k] \subseteq done'[k]
      BY <1>0, <1>2 DEF Next, Step, Reload, BeginPass, BeginPassFails, RunWindow, RunWindowFails,
                  SaveStateFails, RunRoutine, StartOneShot, Crash, Nap, Restart, Touch, Tick,
                  PutConfig, vars, TypeOK
    <2>3. row # NoRow => row.key \in Keys
      BY <1>0 DEF TypeOK, Rows
    <2> QED BY <1>0, <2>1, <2>2, <2>3 DEF CursorStaysInRange, CursorLeavesNoGap
  <1> QED BY <1>1, <1>2

\* The inductive invariant is one.
LEMMA NextIInv ==
  ASSUME IInv, [Next]_vars
  PROVE  IInv'
  BY TypeStep, PassStep, RowStep DEF IInv

THEOREM Invariance == Spec => []IInv
  <1>1. IInv /\ [Next]_vars => IInv'
    BY NextIInv
  <1> QED BY InitIInv, <1>1, PTL DEF Spec

------------------------------------------------------------------------------
\* Every variable keeps its type; the slept time stays within the interval.
THEOREM LoopTypeCorrect == Spec => []TypeOK
  BY Invariance, PTL DEF IInv

\* fdd_backfill_state never claims a point that was not evaluated under its own
\* fdd_backfill_start/end, for any settings, any number of processes sharing
\* the row, and any failures.
THEOREM NoGap == Spec => []CursorLeavesNoGap
  BY Invariance, PTL DEF IInv

\* The stored cursor stays between the configured ends.
THEOREM InRange == Spec => []CursorStaysInRange
  BY Invariance, PTL DEF IInv

\* Until a run begins, a request is on disk or about to be served.
THEOREM TriggerKept == Spec => []NoTriggerLost
  <1>1. Init => NoTriggerLost
    BY DEF Init, NoTriggerLost
  <1>2. TypeOK /\ NoTriggerLost /\ [Next]_vars => NoTriggerLost'
    <2> SUFFICES ASSUME TypeOK, NoTriggerLost, [Next]_vars PROVE NoTriggerLost'
      OBVIOUS
    <2>0. Loop \in Procs /\ \A p \in Procs : \A l : Goto(p, l) => pc'[Loop] = IF p = Loop THEN l ELSE pc[Loop]
      BY DEF TypeOK, Goto, Procs
    <2>1. ASSUME NEW p \in Procs, Step(p) PROVE NoTriggerLost'
      <3>1. CASE BeginPass(p)
        BY <2>0, <3>1 DEF BeginPass, BeginRun, NoTriggerLost
      <3>2. CASE ~ BeginPass(p)
        <4>1. file' = file /\ asked' = asked
          BY <2>1, <3>2 DEF Step, Reload, BeginPassFails, RunWindow, RunWindowFails, SaveState,
                            SaveStateFails, RunRoutine, StartOneShot, Crash
        <4>2. pc[Loop] \in {"reload", "pass", "down"} => pc'[Loop] \in {"reload", "pass", "down"}
          BY <2>0, <2>1, <3>2
             DEF Step, Reload, BeginPassFails, RunWindow, RunWindowFails, SaveState,
                 SaveStateFails, RunRoutine, StartOneShot, Crash, Die
        <4> QED BY <4>1, <4>2 DEF NoTriggerLost
      <3> QED BY <3>1, <3>2
    <2>2. CASE Nap
      BY <2>0, <2>2 DEF Nap, NapOn, TakeTrigger, NoTriggerLost
    <2>3. CASE Restart
      BY <2>0, <2>3 DEF Restart, NoTriggerLost
    <2>4. CASE Touch \/ Tick \/ UNCHANGED vars \/ \E c \in Settings : PutConfig(c)
      BY <2>4 DEF Touch, Tick, PutConfig, vars, NoTriggerLost
    <2> QED BY <2>1, <2>2, <2>3, <2>4 DEF Next
  <1> QED BY <1>1, <1>2, LoopTypeCorrect, PTL DEF Spec

------------------------------------------------------------------------------
\* With one process, a running pass is at or after the row of its key.
Ahead ==
  InPass(Loop) /\ row # NoRow /\ row.key = Key(seen[Loop]) => row.last <= cursor[Loop]

\* With one process, the cursor of one key only moves forward.
THEOREM NeverBack ==
  ASSUME OneShots = {}
  PROVE  Spec => CursorNeverBack
  <1>0. \A p \in Procs : p = Loop
    BY DEF Procs
  <1>1. Init => Ahead
    BY DEF Init, Ahead
  <1>2. IInv /\ Ahead /\ [Next]_vars => Ahead'
    <2> SUFFICES ASSUME IInv, Ahead, [Next]_vars PROVE Ahead'
      OBVIOUS
    <2>0. TypeOK /\ PassShape /\ Loop \in Procs
      BY DEF IInv, Procs
    <2>l. \A l : Goto(Loop, l) => pc'[Loop] = l
      BY <2>0 DEF TypeOK, Goto
    <2>1. CASE BeginPass(Loop)
      <3>1. CASE pc'[Loop] # "window"
        BY <2>l, <2>1, <3>1 DEF BeginPass, Ahead, InPass
      <3>2. CASE pc'[Loop] = "window"
        <4>1. cursor'[Loop] = Resume(seen[Loop]) /\ row' = row /\ seen' = seen
          BY <2>0, <2>l, <2>1, <3>2 DEF BeginPass, TypeOK
        <4>2. row # NoRow => row.last \in Int
          BY <2>0 DEF TypeOK, Rows
        <4> QED BY <4>1, <4>2 DEF Ahead, Resume
      <3> QED BY <3>1, <3>2
    <2>2. CASE SaveState(Loop)
      <3>1. /\ row' = [last |-> WindowEnd(Loop), key |-> Key(seen[Loop])]
            /\ cursor'[Loop] = WindowEnd(Loop)
        BY <2>0, <2>2 DEF SaveState, TypeOK
      <3>2. WindowEnd(Loop) \in Int
        BY <2>0, <2>2, WindowAdvances DEF SaveState, InPass
      <3> QED BY <3>1, <3>2 DEF Ahead
    <2>3. CASE RunWindow(Loop)
      BY <2>l, <2>3 DEF RunWindow, Ahead, InPass, pass
    <2>4. CASE Touch \/ Tick \/ UNCHANGED vars \/ \E c \in Settings : PutConfig(c)
      BY <2>4 DEF Touch, Tick, PutConfig, vars, pass, Ahead, InPass
    <2>5. CASE \/ Nap \/ Restart \/ Reload(Loop) \/ BeginPassFails(Loop) \/ RunWindowFails(Loop)
               \/ SaveStateFails(Loop) \/ RunRoutine(Loop) \/ StartOneShot(Loop) \/ Crash(Loop)
      <3>1. pc'[Loop] \notin {"window", "save"}
        BY <2>l, <2>5
           DEF Nap, NapOn, TakeTrigger, Restart, Reload, BeginPassFails, RunWindowFails,
               SaveStateFails, RunRoutine, StartOneShot, Crash, Die
      <3> QED BY <3>1 DEF Ahead, InPass
    <2> QED BY <1>0, <2>1, <2>2, <2>3, <2>4, <2>5 DEF Next, Step
  <1>3. IInv /\ Ahead /\ [Next]_vars =>
          [row # NoRow /\ row' # row /\ row'.key = row.key => row'.last > row.last]_vars
    <2> SUFFICES ASSUME IInv, Ahead, Next, row # NoRow, row' # row, row'.key = row.key
                 PROVE  row'.last > row.last
      OBVIOUS
    <2>1. SaveState(Loop)
      BY <1>0 DEF Next, Step, Reload, BeginPass, BeginPassFails, RunWindow, RunWindowFails,
                  SaveStateFails, RunRoutine, StartOneShot, Crash, Nap, Restart, Touch, Tick,
                  PutConfig
    <2>2. row' = [last |-> WindowEnd(Loop), key |-> Key(seen[Loop])] /\ InPass(Loop)
      BY <2>1 DEF SaveState, InPass
    <2>3. cursor[Loop] < WindowEnd(Loop) /\ WindowEnd(Loop) \in Int /\ cursor[Loop] \in Int
      BY <2>2, WindowAdvances DEF IInv, TypeOK, Procs
    <2>4. row.last \in Int
      BY DEF IInv, TypeOK, Rows
    <2> QED BY <2>2, <2>3, <2>4 DEF Ahead
  <1> QED BY <1>1, <1>2, <1>3, Invariance, PTL DEF Spec, CursorNeverBack

------------------------------------------------------------------------------
\* What a completed pass leaves until the settings change: the row is its own,
\* at the end of a closed range, and the loop works with the same settings or,
\* after a failed read or a restart, with the defaults.
AfterTheEnd ==
  finished # None =>
    /\ finished = Key(cfg)
    /\ row # NoRow /\ row.key = finished
    /\ finished.end # NoEnd => row.last = finished.end
    /\ seen[Loop] \in {cfg, Default}
    /\ InPass(Loop) => seen[Loop] = cfg /\ cfg.end = NoEnd

\* A pass over a closed range that is at its end has nothing to do.
LEMMA EndIsComplete ==
  ASSUME TypeOK, AfterTheEnd, finished # None, BackfillOn(seen[Loop]),
         ~ Complete(Resume(seen[Loop]), PassTarget(seen[Loop]))
  PROVE  seen[Loop] = cfg /\ cfg.end = NoEnd
  <1>1. seen[Loop] = cfg /\ cfg \in Settings
    BY DefaultIsOff DEF AfterTheEnd, BackfillOn, TypeOK
  <1>2. CASE cfg.end # NoEnd
    <2>1. Resume(cfg) = cfg.end /\ PassTarget(cfg) = cfg.end /\ cfg.end \in Int
      BY <1>1, <1>2, SettingFields DEF AfterTheEnd, Resume, PassTarget
    <2> QED BY <1>1, <2>1 DEF Complete
  <1> QED BY <1>1, <1>2

\* A save of the loop keeps it, and establishes it when it ends the pass.
LEMMA AfterTheEndSave ==
  ASSUME TypeOK, PassShape, AfterTheEnd, SaveState(Loop)
  PROVE  AfterTheEnd'
  <1> DEFINE c == seen[Loop]
             w == WindowEnd(Loop)
  <1>1. /\ Loop \in Procs /\ c \in Settings /\ InPass(Loop)
        /\ pc'[Loop] = IF w < target[Loop] THEN "window" ELSE "sleep"
    BY WindowAdvances DEF SaveState, TypeOK, Procs, Goto, AfterPass, InPass
  <1>2. /\ row' = [last |-> w, key |-> Key(c)] /\ row'.key = Key(c) /\ row'.last = w
        /\ row' # NoRow /\ UNCHANGED <<cfg, seen>>
    <2>1. Key(c) \in Keys /\ w \in Int
      BY <1>1, SettingFields, WindowAdvances
    <2> QED BY <2>1, NoRowIsNoRow DEF SaveState, env, Rows
  <1>3. CASE w < target[Loop]
    <2>1. finished' = finished
      BY <1>1, <1>3, WindowAdvances DEF SaveState, TypeOK
    <2> QED BY <1>1, <1>2, <2>1, SettingFields DEF AfterTheEnd, InPass
  <1>4. CASE ~ (w < target[Loop])
    <2>1. /\ finished' = IF c = cfg THEN Key(cfg) ELSE finished
          /\ pc'[Loop] = "sleep" /\ w = target[Loop]
      BY <1>1, <1>4, WindowAdvances DEF SaveState, TypeOK
    <2>2. c.end # NoEnd => w = c.end
      BY <1>1, <2>1 DEF PassShape
    <2>3. finished' # None => c = cfg
      BY <1>1, <2>1 DEF AfterTheEnd
    <2> QED BY <1>1, <1>2, <2>1, <2>2, <2>3, SettingFields DEF AfterTheEnd, InPass
  <1> QED BY <1>3, <1>4

\* The loop alone runs no more windows of a closed range it has completed, until
\* the settings change (_run_backfill_pass), whatever fails or restarts.
THEOREM OnePassAlone ==
  ASSUME OneShots = {}
  PROVE  Spec => [](seen[Loop].end # NoEnd => OnePass)
  <1>0. Loop \in Procs /\ \A p \in Procs : p = Loop
    BY DEF Procs
  <1>1. Init => AfterTheEnd
    BY DEF Init, AfterTheEnd
  <1>2. IInv /\ AfterTheEnd /\ [Next]_vars => AfterTheEnd'
    <2> SUFFICES ASSUME IInv, AfterTheEnd, [Next]_vars PROVE AfterTheEnd'
      OBVIOUS
    <2>0. TypeOK /\ PassShape /\ cfg \in Settings
      BY DEF IInv, TypeOK
    <2>l. \A l : Goto(Loop, l) => pc'[Loop] = l
      BY <1>0, <2>0 DEF TypeOK, Goto
    <2>1. CASE BeginPass(Loop)
      <3>1. UNCHANGED <<cfg, row, seen, finished>>
        BY <2>1 DEF BeginPass, env
      <3>2. \/ pc'[Loop] \notin {"window", "save"}
            \/ BackfillOn(seen[Loop]) /\ ~ Complete(Resume(seen[Loop]), PassTarget(seen[Loop]))
        BY <2>l, <2>1 DEF BeginPass
      <3> QED BY <2>0, <3>1, <3>2, EndIsComplete DEF AfterTheEnd, InPass
    <2>2. CASE SaveState(Loop)
      BY <2>0, <2>2, AfterTheEndSave
    <2>3. CASE RunWindow(Loop)
      BY <2>l, <2>3 DEF RunWindow, AfterTheEnd, InPass, env
    <2>4. CASE Touch \/ Tick \/ UNCHANGED vars
      BY <2>4 DEF Touch, Tick, vars, env, AfterTheEnd, InPass
    <2>5. CASE \E c \in Settings : PutConfig(c)
      BY <2>5 DEF PutConfig, AfterTheEnd
    <2>6. CASE \/ Nap \/ Restart \/ Reload(Loop) \/ BeginPassFails(Loop) \/ RunWindowFails(Loop)
               \/ SaveStateFails(Loop) \/ RunRoutine(Loop) \/ StartOneShot(Loop) \/ Crash(Loop)
      <3>1. pc'[Loop] \notin {"window", "save"} /\ UNCHANGED <<cfg, row, finished>>
        BY <2>l, <2>6
           DEF Nap, NapOn, TakeTrigger, Restart, Reload, BeginPassFails, RunWindowFails,
               SaveStateFails, RunRoutine, StartOneShot, Crash, Die, env
      <3>2. seen'[Loop] \in {seen[Loop], cfg, Default}
        BY <1>0, <2>0, <2>6
           DEF Nap, Restart, Reload, BeginPassFails, RunWindowFails,
               SaveStateFails, RunRoutine, StartOneShot, Crash, TypeOK
      <3> QED BY <3>1, <3>2 DEF AfterTheEnd, InPass
    <2> QED BY <1>0, <2>1, <2>2, <2>3, <2>4, <2>5, <2>6 DEF Next, Step
  <1>3. IInv /\ AfterTheEnd => (seen[Loop].end # NoEnd => OnePass)
    <2> SUFFICES ASSUME IInv, AfterTheEnd, seen[Loop].end # NoEnd, pc[Loop] = "window",
                        Key(seen[Loop]) = finished
                 PROVE  FALSE
      BY DEF OnePass
    <2>1. finished # None
      BY <1>0, SettingFields, NoRowIsNoRow DEF IInv, TypeOK
    <2> QED BY <2>1 DEF AfterTheEnd, InPass
  <1> QED BY <1>1, <1>2, <1>3, Invariance, PTL DEF Spec

------------------------------------------------------------------------------
(***************************************************************************)
(* The rule files.  Every run of the loop loads them; RuleFiles is that    *)
(* load with the other readers and the writers, over a state of its own.   *)
(***************************************************************************)

\* The files a reader has still to read.
Unread(p) == IF phase[p] = "read" THEN names[p] ELSE {}

\* What a reader has of a file that did not change since it began is what the
\* file holds.
LoadOK(p) ==
  phase[p] \in {"read", "upsert", "prune"} =>
    /\ got[p] \subseteq Files \X (Rules \cup {Empty})
    /\ \A e, g \in got[p] : e[1] = g[1] => e = g
    /\ \A e \in got[p] : e[1] \notin Unread(p)
    /\ \A f \in Files : Settled(f, since[p]) =>
         /\ f \in Unread(p) => dir[f].text # Absent
         /\ f \notin Unread(p) =>
              IF dir[f].text = Absent THEN \A e \in got[p] : e[1] # f ELSE <<f, dir[f].text>> \in got[p]

\* The run has the rules it read, as far as they fit.
RunOK ==
  \A f \in Files : Settled(f, running.since) =>
    /\ \A e \in running.rules : e[1] = f => e[2] = dir[f].text /\ e[2].fits
    /\ dir[f].text \in Rules /\ dir[f].text.fits => <<f, dir[f].text>> \in running.rules

\* Nothing read or kept is younger than the clock.
ClockOK ==
  /\ \A f \in Files : dir[f].at <= clock
  /\ \A p \in Readers : since[p] <= clock
  /\ running.since <= clock
  /\ \A h \in hash : h[3] <= clock
  /\ phase[cache] = "hash" => got[cache] \subseteq Files \X Texts \X Nat /\ \A h \in got[cache] : h[3] <= clock

\* A file whose present state the hash stands for is in the rules as it is.
Mark(f) == <<f, dir[f].text, dir[f].at>>
HasNow(S, f) == <<f, dir[f].text>> \in S /\ \A e \in S : e[1] = f => e[2] = dir[f].text
CacheOK ==
  /\ phase[cache] \in {"idle", "hash", "read"}
  /\ phase[cache] # "read" /\ ~ failed => \A f \in There : Mark(f) \in hash => HasNow(rules, f)
  /\ phase[cache] = "read" => \A f \in There \ names[cache] : Mark(f) \in hash => HasNow(got[cache], f)

\* A sync has the definitions of the rules it passed, and does not prune them.
Held(p, t) == t \in Rules /\ t.flag \in DOMAIN tx[p] /\ tx[p][t.flag] \in Rules
SyncOK(p) ==
  /\ phase[p] # "hash"
  /\ phase[p] = "upsert" =>
       /\ names[p] \subseteq {e[1] : e \in got[p]}
       /\ \A e \in got[p] : e[1] \notin names[p] => Held(p, e[2])
  /\ phase[p] = "prune" => \A e \in got[p] : Held(p, e[2]) /\ e[2].flag \notin doomed[p]

ReadersOK == (\A p \in Readers : LoadOK(p)) /\ \A p \in Syncers : SyncOK(p)
RulesInv == RulesTypeOK /\ RunOK /\ ClockOK /\ CacheOK /\ ReadersOK

LEMMA Roles ==
  /\ Syncers \subseteq Readers /\ cache \in Readers /\ cache \notin Syncers
  /\ loop \in Syncers /\ loop # cache
  BY RulesAssumption DEF Syncers, Readers

LEMMA RulesInvInit ==
  ASSUME RulesInit
  PROVE  RulesInv
  <1> USE RulesAssumption DEF RulesInit
  <1>1. PICK s \in Starts : dir = [f \in Files |-> [text |-> s[f], at |-> 0]]
    OBVIOUS
  <1>2. s \in [Files -> Rules \cup {Absent}]
    BY <1>1
  <1>3. RulesTypeOK
    <2>1. dir \in [Files -> [text : Texts \cup {Absent}, at : Nat]]
      BY <1>1, <1>2 DEF Texts
    <2>2. pend \in [Clients -> [file : Files \cup {NoFile}, text : Texts]]
      BY DEF Texts
    <2>3. \A p \in Syncers : tx[p] \in [DOMAIN tx[p] -> Rules \cup {NoDef}] /\ DOMAIN tx[p] \subseteq Flags
      BY DEF Nothing
    <2>4. defs \in [Flags -> Rules \cup {NoDef}]
      BY DEF Flags
    <2>5. running.rules = {} /\ running.since = 0 - 1 /\ DOMAIN running = {"rules", "since"}
      BY DEF NoRun
    <2>6. tx = [p \in Syncers |-> tx[p]] /\ doomed \in [Syncers -> SUBSET Flags]
      OBVIOUS
    <2> QED BY <2>1, <2>2, <2>3, <2>4, <2>5, <2>6 DEF RulesTypeOK
  <1>4. RunOK /\ ClockOK
    BY <1>1, Roles DEF RunOK, ClockOK, Settled, NoRun
  <1>5. CacheOK /\ ReadersOK
    BY <1>1, Roles DEF CacheOK, ReadersOK, LoadOK, SyncOK
  <1> QED BY <1>3, <1>4, <1>5 DEF RulesInv

------------------------------------------------------------------------------
\* Files that change under the readers: what was settled stays so.

LEMMA FilesStep ==
  ASSUME RulesInv, RulesTypeOK', NEW f \in Files, clock' = clock + 1,
         dir'[f].at = clock', \A g \in Files \ {f} : dir'[g] = dir[g],
         UNCHANGED <<here, phase, load, db, running, hot>>
  PROVE  RulesInv'
  <1> USE DEF RulesInv
  <1>0. /\ UNCHANGED <<phase, names, got, since, tx, doomed, running, hash, rules, failed>>
        /\ clock \in Nat
    BY DEF load, db, hot, RulesTypeOK
  <1>1. ClockOK'
    <2>1. \A p \in Readers : since[p] \in Nat
      BY DEF RulesTypeOK
    <2>2. \A h \in hash : h[3] \in Nat
      BY DEF RulesTypeOK
    <2>3. running.since \in Int
      BY DEF RulesTypeOK
    <2>4. \A g \in Files : dir[g].at \in Nat /\ dir'[g].at \in Nat
      BY DEF RulesTypeOK
    <2>5. phase[cache] = "hash" => \A h \in got[cache] : h[3] \in Nat
      BY DEF ClockOK
    <2> QED BY <1>0, <2>1, <2>2, <2>3, <2>4, <2>5 DEF ClockOK
  <1>2. \A g \in Files, t \in Int : t <= clock /\ Settled(g, t)' => g # f /\ Settled(g, t)
    BY <1>0 DEF Settled
  <1>3. RunOK'
    <2>1. running.since \in Int
      BY DEF RulesTypeOK
    <2> QED BY <1>0, <1>2, <2>1 DEF RunOK, ClockOK, Settled
  <1>4. \A p \in Readers : LoadOK(p)'
    <2> TAKE p \in Readers
    <2>1. since[p] \in Nat /\ since[p] <= clock
      BY DEF RulesTypeOK, ClockOK
    <2>2. LoadOK(p)
      BY DEF ReadersOK
    <2>3. \A g \in Files : Settled(g, since[p])' => dir'[g] = dir[g] /\ Settled(g, since[p])
      BY <1>0, <1>2, <2>1 DEF Settled
    <2> QED BY <1>0, <2>2, <2>3 DEF LoadOK, Unread
  <1>5. \A p \in Syncers : SyncOK(p)'
    BY <1>0 DEF SyncOK, ReadersOK, Held
  <1>6. CacheOK'
    <2>1. \A h \in hash : h[3] \in Nat /\ h[3] <= clock
      BY DEF RulesTypeOK, ClockOK
    <2>2. \A g \in Files : Mark(g)' \in hash => g # f
      BY <1>0, <2>1 DEF Mark
    <2>3. \A g \in There' : Mark(g)' \in hash => g \in There /\ Mark(g) \in hash /\ dir'[g] = dir[g]
      BY <2>2 DEF There, Mark
    <2> QED BY <1>0, <2>3 DEF CacheOK, HasNow
  <1> QED BY <1>1, <1>3, <1>4, <1>5, <1>6 DEF ReadersOK

LEMMA ChangeStep ==
  ASSUME RulesInv, NEW c \in Clients, Change(c)
  PROVE  RulesInv'
  <1> USE DEF RulesInv
  <1>1. RulesTypeOK'
    <2>1. ASSUME NEW f \in Files, NEW t \in Texts, Open(c, f, t) PROVE RulesTypeOK'
      BY <2>1 DEF Open, RulesTypeOK, Texts, load, db, hot
    <2>2. CASE FinishWrite(c)
      BY <2>2 DEF FinishWrite, RulesTypeOK, load, db, hot
    <2>3. CASE WriteLost(c)
      BY <2>3 DEF WriteLost, RulesTypeOK, load, db, hot
    <2>4. CASE DeleteRule(c)
      BY <2>4 DEF DeleteRule, There, RulesTypeOK, load, db, hot
    <2> QED BY <2>1, <2>2, <2>3, <2>4
         DEF Change, UploadRule, TestInjectRule, TestInjectDelete, Texts
  <1>2. ASSUME NEW f \in Files, NEW t, Open(c, f, t) PROVE RulesInv'
    BY <1>1, <1>2, FilesStep DEF Open, RulesTypeOK
  <1>3. CASE FinishWrite(c)
    <2>1. pend[c].file \in Files
      BY <1>3 DEF FinishWrite, RulesTypeOK
    <2> QED BY <1>1, <1>3, <2>1, FilesStep DEF FinishWrite, RulesTypeOK
  <1>4. CASE WriteLost(c)
    BY <1>1, <1>4 DEF WriteLost, load, db, hot, RunOK, ClockOK, CacheOK, ReadersOK, LoadOK, SyncOK,
                      Settled, Unread, HasNow, Mark, There, Held
  <1>5. CASE DeleteRule(c)
    <2>1. PICK f \in Files : /\ clock' = clock + 1 /\ dir' = [dir EXCEPT ![f] = [text |-> Absent, at |-> clock + 1]]
                             /\ UNCHANGED <<here, pend, phase, load, db, running, hot>>
      BY <1>5 DEF DeleteRule, There
    <2> QED BY <1>1, <2>1, FilesStep DEF RulesTypeOK
  <1> QED BY <1>2, <1>3, <1>4, <1>5
       DEF Change, UploadRule, TestInjectRule, TestInjectDelete

------------------------------------------------------------------------------
\* The readers.

LEMMA FirstIn ==
  ASSUME NEW S \in SUBSET Files, S # {}
  PROVE  First(S) \in S
  <1>1. S \subseteq Nat
    BY RulesAssumption
  <1>2. PICK f \in S : \A g \in S : ~ (<<g, f>> \in OpToRel(<, Nat))
    BY <1>1, WFMin, NatLessThanWellFounded, Zenon
  <1>3. \A g \in S : ~ (g < f)
    BY <1>1, <1>2 DEF OpToRel
  <1>4. \A g \in S : f <= g
    <2> TAKE g \in S
    <2>1. f \in Nat /\ g \in Nat /\ ~ (g < f)
      BY <1>1, <1>3
    <2> QED BY <2>1
  <1> QED BY <1>4 DEF First

\* A step of one reader leaves what the others have.
LEMMA Others ==
  ASSUME RulesInv, UNCHANGED dir, NEW p \in Readers,
         \A q \in Readers \ {p} : /\ phase'[q] = phase[q] /\ names'[q] = names[q] /\ got'[q] = got[q]
                                    /\ since'[q] = since[q],
         \A q \in Syncers \ {p} : tx'[q] = tx[q] /\ doomed'[q] = doomed[q],
         LoadOK(p)', p \in Syncers => SyncOK(p)'
  PROVE  ReadersOK'
  <1>1. \A q \in Readers \ {p} : LoadOK(q)'
    BY DEF RulesInv, ReadersOK, LoadOK, Unread, Settled
  <1>2. \A q \in Syncers \ {p} : SyncOK(q)'
    BY Roles DEF RulesInv, ReadersOK, SyncOK, Held
  <1> QED BY <1>1, <1>2 DEF ReadersOK

\* The clock, as seen by a reader that goes on, or begins again.
LEMMA ClockStep ==
  ASSUME RulesInv, RulesTypeOK', UNCHANGED <<dir, clock>>,
         \A q \in Readers : since'[q] \in {since[q], clock, 0},
         running' = running \/ running'.since \in {since[loop], 0 - 1},
         hash' = hash \/ (phase[cache] = "hash" /\ hash' = got[cache]),
         phase'[cache] = "hash" => \/ phase[cache] = "hash" /\ got'[cache] = got[cache]
                                \/ got'[cache] = {}
                                \/ \E f \in Files : /\ dir[f].text \in Texts /\ phase[cache] = "hash"
                                                    /\ got'[cache] = got[cache] \cup {<<f, dir[f].text, dir[f].at>>}
  PROVE  ClockOK'
  <1> USE DEF RulesInv
  <1>1. clock \in Nat /\ \A q \in Readers : since[q] \in Nat /\ since[q] <= clock
    BY DEF RulesTypeOK, ClockOK
  <1>2. running'.since <= clock
    BY <1>1, Roles DEF ClockOK
  <1>3. \A q \in Readers : since'[q] <= clock
    <2> TAKE q \in Readers
    <2> QED BY <1>1
  <1>4. \A f \in Files : dir[f].at \in Nat /\ dir[f].at <= clock
    BY DEF RulesTypeOK, ClockOK
  <1>5. \A h \in hash' : h[3] <= clock
    BY DEF ClockOK
  <1>6. phase'[cache] = "hash" => got'[cache] \subseteq Files \X Texts \X Nat /\ \A h \in got'[cache] : h[3] <= clock
    BY <1>4 DEF ClockOK
  <1> QED BY <1>2, <1>3, <1>4, <1>5, <1>6 DEF ClockOK

\* Steps that do not concern the cache.
LEMMA CacheAside ==
  ASSUME RulesInv, phase'[cache] = phase[cache], names'[cache] = names[cache], got'[cache] = got[cache],
         UNCHANGED <<dir, hash, rules, failed>>
  PROVE  CacheOK'
  BY DEF RulesInv, CacheOK, There, Mark, HasNow

\* Steps that do not end a run.
LEMMA RunAside ==
  ASSUME RulesInv, UNCHANGED dir, running' \in {running, NoRun}
  PROVE  RunOK'
  <1>1. CASE running' = running
    BY <1>1 DEF RulesInv, RunOK, Settled
  <1>2. CASE running' = NoRun
    <2>1. \A f \in Files : dir[f].at \in Nat
      BY DEF RulesInv, RulesTypeOK
    <2>2. \A f \in Files : ~ Settled(f, running.since)'
      BY <1>2, <2>1 DEF Settled, NoRun
    <2> QED BY <2>2 DEF RunOK
  <1> QED BY <1>1, <1>2

LEMMA ListStep ==
  ASSUME RulesInv, NEW p \in Readers, NEW to \in {"read", "hash"},
         ListFiles(p, to), to = "hash" => p = cache, to = "read" => p \in Syncers
  PROVE  RulesInv'
  <1> USE DEF RulesInv
  <1>0. /\ phase' = [phase EXCEPT ![p] = to] /\ names' = [names EXCEPT ![p] = There]
        /\ got' = [got EXCEPT ![p] = {}] /\ since' = [since EXCEPT ![p] = clock]
        /\ running' = (IF p = loop THEN NoRun ELSE running) /\ phase[p] = "idle"
        /\ UNCHANGED <<here, dir, clock, pend, tx, doomed, defs, hash, rules, failed, failures>>
    BY DEF ListFiles, files, db, hot
  <1>1. RulesTypeOK'
    BY <1>0 DEF RulesTypeOK, NoRun, There
  <1>2. ClockOK'
    <2>1. \A q \in Readers : since'[q] \in {since[q], clock, 0}
      BY <1>0 DEF RulesTypeOK
    <2>2. running' = running \/ running'.since \in {since[loop], 0 - 1}
      BY <1>0 DEF NoRun
    <2>3. phase'[cache] = "hash" => got'[cache] = {} \/ (phase[cache] = "hash" /\ got'[cache] = got[cache])
      BY <1>0, Roles DEF RulesTypeOK
    <2> QED BY <1>0, <1>1, <2>1, <2>2, <2>3, ClockStep
  <1>3. RunOK'
    BY <1>0, RunAside
  <1>4. CacheOK'
    <2>1. CASE to = "read"
      BY <1>0, <2>1, CacheAside, Roles DEF RulesTypeOK
    <2>2. CASE to = "hash"
      BY <1>0, <2>2, Roles DEF RulesTypeOK, CacheOK, There, Mark, HasNow
    <2> QED BY <2>1, <2>2
  <1>5. LoadOK(p)'
    <2>1. CASE to = "read"
      BY <1>0, <2>1 DEF LoadOK, Unread, RulesTypeOK, There, Settled
    <2>2. CASE to = "hash"
      BY <1>0, <2>2 DEF LoadOK, RulesTypeOK
    <2> QED BY <2>1, <2>2
  <1>6. p \in Syncers => SyncOK(p)'
    BY <1>0, Roles DEF SyncOK, RulesTypeOK
  <1>7. ReadersOK'
    BY <1>0, <1>5, <1>6, Others DEF RulesTypeOK
  <1> QED BY <1>1, <1>2, <1>3, <1>4, <1>7

\* A load that is given up.
LEMMA GivenUp ==
  ASSUME RulesInv, NEW p \in Readers, phase[p] = "read", GiveUp(p)
  PROVE  RulesInv'
  <1> USE DEF RulesInv
  <1>0. /\ phase' = [phase EXCEPT ![p] = "idle"] /\ names' = [names EXCEPT ![p] = {}]
        /\ got' = [got EXCEPT ![p] = {}] /\ since' = [since EXCEPT ![p] = 0]
        /\ failed' = (failed \/ p = cache)
        /\ UNCHANGED <<here, dir, clock, pend, tx, doomed, defs, running, hash, rules>>
    BY DEF GiveUp, files, db
  <1>1. RulesTypeOK'
    BY <1>0 DEF RulesTypeOK
  <1>2. ClockOK'
    <2>1. \A q \in Readers : since'[q] \in {since[q], clock, 0}
      BY <1>0 DEF RulesTypeOK
    <2>2. phase'[cache] = "hash" => phase[cache] = "hash" /\ got'[cache] = got[cache]
      BY <1>0, Roles DEF RulesTypeOK
    <2> QED BY <1>0, <1>1, <2>1, <2>2, ClockStep
  <1>3. RunOK'
    BY <1>0, RunAside
  <1>4. CacheOK'
    <2>1. CASE p # cache
      BY <1>0, <2>1, CacheAside, Roles DEF RulesTypeOK
    <2>2. CASE p = cache
      BY <1>0, <2>2, Roles DEF RulesTypeOK, CacheOK
    <2> QED BY <2>1, <2>2
  <1>5. LoadOK(p)' /\ SyncOK(p)'
    BY <1>0 DEF LoadOK, SyncOK, RulesTypeOK
  <1>6. ReadersOK'
    BY <1>0, <1>5, Others DEF RulesTypeOK
  <1> QED BY <1>1, <1>2, <1>3, <1>4, <1>6

LEMMA ReadStep ==
  ASSUME RulesInv, NEW p \in Readers, ReadFile(p)
  PROVE  RulesInv'
  <1> USE DEF RulesInv
  <1> DEFINE f == First(names[p])
             t == dir[f].text
  <1>0. /\ phase[p] = "read" /\ names[p] # {}
        /\ \/ GiveUp(p)
           \/ /\ t \notin {Absent, Broken}
              /\ names' = [names EXCEPT ![p] = @ \ {f}]
              /\ got' = [got EXCEPT ![p] = @ \cup {<<f, t>>}]
              /\ UNCHANGED <<here, dir, clock, pend, phase, since, tx, doomed, defs, running, hash, rules, failed>>
    BY DEF ReadFile, files, db, hot
  <1>a. f \in names[p] /\ f \in Files
    BY <1>0, FirstIn DEF RulesTypeOK
  <1>b. t \in Rules \cup {Empty, Broken, Absent}
    BY <1>a DEF RulesTypeOK, Texts
  <1> HIDE DEF f, t
  <1> SUFFICES ASSUME ~ GiveUp(p) PROVE RulesInv'
    BY <1>0, GivenUp
  <1>1. RulesTypeOK'
    <2>1. <<f, t>> \in Seen
      BY <1>0, <1>a, <1>b DEF Seen, Texts
    <2>2. names' \in [Readers -> SUBSET Files] /\ got' \in [Readers -> SUBSET Seen]
      <3>1. /\ names \in [Readers -> SUBSET Files] /\ got \in [Readers -> SUBSET Seen]
            /\ names' = [names EXCEPT ![p] = @ \ {f}] /\ got' = [got EXCEPT ![p] = @ \cup {<<f, t>>}]
        BY <1>0 DEF RulesTypeOK
      <3>2. names[p] \ {f} \in SUBSET Files /\ got[p] \cup {<<f, t>>} \in SUBSET Seen
        BY <2>1, <3>1
      <3> QED BY <3>1, <3>2
    <2> QED BY <1>0, <2>2 DEF RulesTypeOK
  <1>2. ClockOK'
    <2>1. phase'[cache] = "hash" => phase[cache] = "hash" /\ got'[cache] = got[cache]
      BY <1>0, Roles DEF RulesTypeOK
    <2> QED BY <1>0, <1>1, <2>1, ClockStep
  <1>3. RunOK'
    BY <1>0, RunAside
  <1>4. LoadOK(p)'
    <2>1. /\ LoadOK(p) /\ phase'[p] = "read" /\ names'[p] = names[p] \ {f}
          /\ got'[p] = got[p] \cup {<<f, t>>} /\ dir' = dir /\ since' = since
      BY <1>0 DEF RulesTypeOK, ReadersOK
    <2>2. \A e \in got[p] : e[1] \notin names[p]
      BY <1>0, <2>1 DEF LoadOK, Unread
    <2>3. got'[p] \subseteq Files \X (Rules \cup {Empty})
      BY <1>0, <1>a, <1>b, <2>1 DEF LoadOK
    <2>4. \A e, g \in got'[p] : e[1] = g[1] => e = g
      BY <1>0, <1>a, <2>1, <2>2 DEF LoadOK
    <2>5. \A e \in got'[p] : e[1] \notin names'[p]
      BY <2>1, <2>2
    <2>6. \A g \in Files : Settled(g, since[p]) =>
            /\ g \in names'[p] => dir[g].text # Absent
            /\ g \notin names'[p] =>
                 IF dir[g].text = Absent THEN \A e \in got'[p] : e[1] # g ELSE <<g, dir[g].text>> \in got'[p]
      <3> TAKE g \in Files
      <3>1. CASE g = f
        BY <1>0, <2>1, <3>1 DEF t
      <3>2. CASE g # f
        BY <1>0, <2>1, <3>2 DEF LoadOK, Unread
      <3> QED BY <3>1, <3>2
    <2> QED BY <2>1, <2>3, <2>4, <2>5, <2>6 DEF LoadOK, Unread, Settled
  <1>5. SyncOK(p)'
    BY <1>0 DEF SyncOK
  <1>6. CacheOK'
    <2>1. CASE p # cache
      BY <1>0, <2>1, CacheAside, Roles DEF RulesTypeOK
    <2>2. CASE p = cache
      <3>1. /\ names'[cache] = names[cache] \ {f} /\ got'[cache] = got[cache] \cup {<<f, t>>}
            /\ \A e \in got[cache] : e[1] \notin names[cache]
        BY <1>0, <2>2 DEF RulesTypeOK, ReadersOK, LoadOK, Unread
      <3>2. ASSUME NEW g \in There \ names'[cache], Mark(g) \in hash
            PROVE  <<g, dir[g].text>> \in got'[cache] /\ \A e \in got'[cache] : e[1] = g => e[2] = dir[g].text
        <4>1. CASE g = f
          BY <1>a, <2>2, <3>1, <4>1 DEF t
        <4>2. CASE g # f
          <5>1. g \in There \ names[cache]
            BY <3>1, <3>2, <4>2
          <5>2. HasNow(got[cache], g)
            BY <1>0, <2>2, <3>2, <5>1 DEF CacheOK
          <5> QED BY <3>1, <4>2, <5>2 DEF HasNow
        <4> QED BY <4>1, <4>2
      <3> QED BY <1>0, <2>2, <3>2 DEF CacheOK, There, Mark, HasNow
    <2> QED BY <2>1, <2>2
  <1>7. ReadersOK'
    BY <1>0, <1>4, <1>5, Others DEF RulesTypeOK
  <1> QED BY <1>1, <1>2, <1>3, <1>6, <1>7

------------------------------------------------------------------------------
\* The syncs.

\* What a sync wrote or dooms, as far as another action keeps the rest.
LEMMA TransactionStep ==
  ASSUME RulesInv, RulesTypeOK', NEW p \in Syncers,
         \A q \in Readers \ {p} : phase'[q] = phase[q] /\ names'[q] = names[q],
         \A q \in Syncers \ {p} : tx'[q] = tx[q] /\ doomed'[q] = doomed[q],
         UNCHANGED <<dir, clock, got, since, running, hash, rules, failed>>,
         LoadOK(p)', SyncOK(p)'
  PROVE  RulesInv'
  <1> USE DEF RulesInv
  <1>1. p # cache /\ p \in Readers
    BY Roles
  <1>2. phase'[cache] = phase[cache] /\ names'[cache] = names[cache]
    BY <1>1, Roles
  <1>3. ClockOK'
    BY <1>2, ClockStep
  <1>4. CacheOK' /\ RunOK'
    BY <1>2, CacheAside, RunAside
  <1>5. ReadersOK'
    BY <1>1, Others
  <1> QED BY <1>3, <1>4, <1>5

\* A sync that ends, however it ends: the run goes on with the rules it read.
LEMMA SyncEnds ==
  ASSUME RulesInv, NEW p \in Syncers, AfterSync(p), UNCHANGED here,
         phase[p] \in {"read", "upsert", "prune"}, Unread(p) = {}, defs' \in [Flags -> Rules \cup {NoDef}]
  PROVE  RulesInv'
  <1> USE DEF RulesInv
  <1>0. /\ phase' = [phase EXCEPT ![p] = "idle"] /\ names' = [names EXCEPT ![p] = {}]
        /\ got' = [got EXCEPT ![p] = {}] /\ since' = [since EXCEPT ![p] = 0]
        /\ tx' = [tx EXCEPT ![p] = Nothing] /\ doomed' = [doomed EXCEPT ![p] = {}]
        /\ running' = (IF p = loop THEN [rules |-> RunRules, since |-> since[p]] ELSE running)
        /\ UNCHANGED <<dir, clock, pend, hash, rules, failed>>
    BY DEF AfterSync, files, hot
  <1>r. p \in Readers /\ p # cache /\ cache \in Readers
    BY Roles
  <1>1. RulesTypeOK'
    <2>1. \A q \in Syncers : tx'[q] \in [DOMAIN tx'[q] -> Rules \cup {NoDef}] /\ DOMAIN tx'[q] \subseteq Flags
      BY <1>0 DEF Nothing, RulesTypeOK
    <2>2. running'.rules \subseteq Files \X Rules /\ running'.since \in Nat \cup {0 - 1} /\ DOMAIN running' = {"rules", "since"}
      <3>1. ASSUME p = loop PROVE RunRules \subseteq Files \X Rules
        BY <3>1, <1>r DEF RunRules, ReadersOK, LoadOK
      <3> QED BY <1>0, <1>r, <3>1 DEF RulesTypeOK
    <2>3. names' \in [Readers -> SUBSET Files] /\ got' \in [Readers -> SUBSET Seen] /\ since' \in [Readers -> Nat]
      BY <1>0 DEF RulesTypeOK
    <2>4. tx' = [q \in Syncers |-> tx'[q]] /\ doomed' \in [Syncers -> SUBSET Flags]
      BY <1>0 DEF RulesTypeOK
    <2>5. phase' \in [Readers -> {"idle", "hash", "read", "upsert", "prune"}]
      BY <1>0 DEF RulesTypeOK
    <2> QED BY <1>0, <2>1, <2>2, <2>3, <2>4, <2>5 DEF RulesTypeOK
  <1>2. ClockOK'
    <2>1. \A q \in Readers : since'[q] \in {since[q], clock, 0}
      BY <1>0 DEF RulesTypeOK
    <2>2. phase'[cache] = "hash" => phase[cache] = "hash" /\ got'[cache] = got[cache]
      BY <1>0, <1>r DEF RulesTypeOK
    <2>3. running' = running \/ running'.since = since[loop]
      BY <1>0
    <2> QED BY <1>0, <1>1, <2>1, <2>2, <2>3, ClockStep
  <1>3. RunOK'
    <2>1. CASE p # loop
      BY <1>0, <2>1, RunAside
    <2>2. CASE p = loop
      <3>1. /\ \A e, g \in got[p] : e[1] = g[1] => e = g
            /\ got[p] \subseteq Files \X (Rules \cup {Empty})
            /\ \A f \in Files : Settled(f, since[p]) =>
                 IF dir[f].text = Absent THEN \A e \in got[p] : e[1] # f ELSE <<f, dir[f].text>> \in got[p]
        BY <1>r DEF ReadersOK, LoadOK
      <3>2. running'.rules = {e \in got[p] : e[2] \in Rules /\ e[2].fits} /\ running'.since = since[p]
        BY <1>0, <2>2 DEF RunRules
      <3>3. ASSUME NEW f \in Files, Settled(f, since[p])
            PROVE  /\ \A e \in running'.rules : e[1] = f => e[2] = dir[f].text /\ e[2].fits
                   /\ dir[f].text \in Rules /\ dir[f].text.fits => <<f, dir[f].text>> \in running'.rules
        <4>1. CASE dir[f].text = Absent
          <5>1. Absent \notin Rules
            BY RulesAssumption
          <5> QED BY <3>1, <3>2, <3>3, <4>1, <5>1
        <4>2. CASE dir[f].text # Absent
          <5>1. <<f, dir[f].text>> \in got[p]
            BY <3>1, <3>3, <4>2
          <5> QED BY <3>1, <3>2, <5>1
        <4> QED BY <4>1, <4>2
      <3> QED BY <1>0, <3>2, <3>3 DEF RunOK, Settled
    <2> QED BY <2>1, <2>2
  <1>4. CacheOK'
    BY <1>0, <1>r, CacheAside DEF RulesTypeOK
  <1>5. LoadOK(p)' /\ SyncOK(p)'
    BY <1>0, <1>r DEF LoadOK, SyncOK, RulesTypeOK
  <1>6. ReadersOK'
    BY <1>0, <1>r, <1>5, Others DEF RulesTypeOK
  <1> QED BY <1>1, <1>2, <1>3, <1>4, <1>6

LEMMA EndLoadStep ==
  ASSUME RulesInv, NEW p \in Syncers, EndLoad(p)
  PROVE  RulesInv'
  <1> USE DEF RulesInv
  <1>0. phase[p] = "read" /\ names[p] = {} /\ Unread(p) = {}
    BY DEF EndLoad, Unread
  <1>1. CASE got[p] = {}
    BY <1>0, <1>1, SyncEnds DEF EndLoad, AfterSync, files, RulesTypeOK
  <1>2. CASE got[p] # {}
    <2>1. /\ phase' = [phase EXCEPT ![p] = "upsert"] /\ names' = [names EXCEPT ![p] = {e[1] : e \in got[p]}]
          /\ UNCHANGED <<here, dir, clock, pend, got, since, tx, doomed, defs, running, hash, rules, failed>>
      BY <1>2 DEF EndLoad, Synced, files, db, hot
    <2>2. p \in Readers /\ LoadOK(p)
      BY Roles DEF ReadersOK
    <2>3. {e[1] : e \in got[p]} \subseteq Files
      BY <1>0, <2>2 DEF LoadOK
    <2>4. RulesTypeOK'
      BY <2>1, <2>3 DEF RulesTypeOK
    <2>5. phase'[p] = "upsert" /\ names'[p] = {e[1] : e \in got[p]} /\ got' = got
      BY <2>1, <2>2 DEF RulesTypeOK
    <2>6. LoadOK(p)' /\ SyncOK(p)'
      BY <1>0, <2>1, <2>2, <2>5 DEF LoadOK, SyncOK, Unread, Settled
    <2> QED BY <2>1, <2>4, <2>6, TransactionStep DEF RulesTypeOK
  <1> QED BY <1>1, <1>2

\* The entry a sync upserts next.
LEMMA NextEntry ==
  ASSUME RulesInv, NEW p \in Syncers, phase[p] = "upsert", names[p] # {}
  PROVE  /\ First(names[p]) \in names[p]
         /\ ToUpsert(p) \in Rules \cup {Empty}
         /\ \A e \in got[p] : e[1] = First(names[p]) => e[2] = ToUpsert(p)
  <1> USE DEF RulesInv
  <1> DEFINE f == First(names[p])
  <1>1. f \in names[p]
    BY FirstIn, Roles DEF RulesTypeOK
  <1> HIDE DEF f
  <1>2. LoadOK(p) /\ SyncOK(p)
    BY Roles DEF ReadersOK
  <1>3. PICK e \in got[p] : e[1] = f
    BY <1>1, <1>2 DEF SyncOK
  <1>4. \A g \in got[p] : g[1] = f => g = e
    BY <1>2, <1>3 DEF LoadOK
  <1>5. ToUpsert(p) = e[2]
    <2>1. (CHOOSE g \in got[p] : g[1] = f) = e
      BY <1>3, <1>4
    <2> QED BY <2>1 DEF ToUpsert, Synced, f
  <1>6. e[2] \in Rules \cup {Empty}
    BY <1>2 DEF LoadOK
  <1> QED BY <1>1, <1>4, <1>5, <1>6 DEF f

LEMMA UpsertStep ==
  ASSUME RulesInv, NEW p \in Syncers, Upsert(p)
  PROVE  RulesInv'
  <1> USE DEF RulesInv
  <1> DEFINE f == First(names[p])
             r == ToUpsert(p)
  <1>0. /\ phase[p] = "upsert" /\ names[p] # {} /\ r # Empty
        /\ names' = [names EXCEPT ![p] = @ \ {f}]
        /\ tx' = [tx EXCEPT ![p] = Put(@, r.flag, r)]
        /\ UNCHANGED <<here, dir, clock, pend, phase, got, since, doomed, defs, running, hash, rules, failed>>
    BY DEF Upsert, files, hot
  <1>1. f \in names[p] /\ r \in Rules /\ \A e \in got[p] : e[1] = f => e[2] = r
    BY <1>0, NextEntry
  <1> HIDE DEF f, r
  <1>2. r.flag \in Flags
    BY <1>1, RulesAssumption
  <1>3. p \in Readers /\ LoadOK(p) /\ SyncOK(p)
    BY Roles DEF ReadersOK
  <1>4. /\ tx'[p] = Put(tx[p], r.flag, r) /\ names'[p] = names[p] \ {f}
        /\ \A q \in Syncers \ {p} : tx'[q] = tx[q]
    BY <1>0, <1>3 DEF RulesTypeOK
  <1>5. /\ DOMAIN tx'[p] = DOMAIN tx[p] \cup {r.flag}
        /\ \A y \in DOMAIN tx'[p] : tx'[p][y] = IF y = r.flag THEN r ELSE tx[p][y]
        /\ tx'[p] \in [DOMAIN tx'[p] -> Rules \cup {NoDef}]
    <2>1. \A y \in DOMAIN tx[p] : tx[p][y] \in Rules \cup {NoDef}
      BY DEF RulesTypeOK
    <2> QED BY <1>1, <1>4, <2>1 DEF Put
  <1>6. RulesTypeOK'
    <2>1. names' \in [Readers -> SUBSET Files]
      BY <1>0, <1>3 DEF RulesTypeOK
    <2>2. tx' = [q \in Syncers |-> tx'[q]]
      BY <1>0 DEF RulesTypeOK
    <2>3. \A q \in Syncers : tx'[q] \in [DOMAIN tx'[q] -> Rules \cup {NoDef}] /\ DOMAIN tx'[q] \subseteq Flags
      <3> TAKE q \in Syncers
      <3>1. CASE q = p
        BY <1>2, <1>5, <3>1 DEF RulesTypeOK
      <3>2. CASE q # p
        BY <1>4, <3>2 DEF RulesTypeOK
      <3> QED BY <3>1, <3>2
    <2> QED BY <1>0, <2>1, <2>2, <2>3 DEF RulesTypeOK
  <1>7. LoadOK(p)'
    BY <1>0, <1>3, <1>4 DEF LoadOK, Unread, Settled
  <1>8. SyncOK(p)'
    <2>1. \A e \in got[p] : e[1] \notin names'[p] => Held(p, e[2])'
      <3> SUFFICES ASSUME NEW e \in got[p], e[1] \notin names'[p] PROVE Held(p, e[2])'
        OBVIOUS
      <3>1. e[2] = r \/ Held(p, e[2])
        BY <1>0, <1>1, <1>3, <1>4 DEF SyncOK
      <3> QED BY <1>1, <1>5, <3>1 DEF Held
    <2>2. names'[p] \subseteq {e[1] : e \in got[p]}
      BY <1>0, <1>3, <1>4 DEF SyncOK
    <2> QED BY <1>0, <2>1, <2>2 DEF SyncOK
  <1>9. \A q \in Readers \ {p} : names'[q] = names[q]
    BY <1>0 DEF RulesTypeOK
  <1> QED BY <1>0, <1>4, <1>6, <1>7, <1>8, <1>9, TransactionStep

LEMMA ListDoomedStep ==
  ASSUME RulesInv, NEW p \in Syncers, ListDoomed(p)
  PROVE  RulesInv'
  <1> USE DEF RulesInv
  <1>0. /\ phase[p] = "upsert" /\ names[p] = {}
        /\ phase' = [phase EXCEPT ![p] = "prune"] /\ doomed' = [doomed EXCEPT ![p] = Doomed(p)]
        /\ UNCHANGED <<here, dir, clock, pend, names, got, since, tx, defs, running, hash, rules, failed>>
    BY DEF ListDoomed, files, load, hot
  <1>1. p \in Readers /\ LoadOK(p) /\ SyncOK(p)
    BY Roles DEF ReadersOK
  <1>2. phase'[p] = "prune" /\ doomed'[p] = Doomed(p) /\ Doomed(p) \subseteq Flags
    BY <1>0, <1>1 DEF RulesTypeOK, Doomed
  <1>3. RulesTypeOK'
    BY <1>0, <1>2 DEF RulesTypeOK
  <1>4. LoadOK(p)'
    BY <1>0, <1>1, <1>2 DEF LoadOK, Unread, Settled
  <1>5. SyncOK(p)'
    <2>1. \A e \in got[p] : Held(p, e[2]) /\ e[2].flag \notin Doomed(p)
      BY <1>0, <1>1 DEF SyncOK, Held, Doomed, Flagged, Synced
    <2> QED BY <1>0, <1>2, <2>1 DEF SyncOK, Held
  <1> QED BY <1>0, <1>3, <1>4, <1>5, TransactionStep DEF RulesTypeOK

LEMMA DeleteRowStep ==
  ASSUME RulesInv, NEW p \in Syncers, DeleteRow(p)
  PROVE  RulesInv'
  <1> USE DEF RulesInv
  <1>0. /\ phase[p] = "prune"
        /\ UNCHANGED <<here, dir, clock, pend, phase, names, got, since, defs, running, hash, rules, failed>>
    BY DEF DeleteRow, files, load, hot
  <1>1. PICK x \in doomed[p] : /\ doomed' = [doomed EXCEPT ![p] = @ \ {x}]
                               /\ tx' = [tx EXCEPT ![p] = Put(@, x, NoDef)]
    BY DEF DeleteRow
  <1>2. p \in Readers /\ LoadOK(p) /\ SyncOK(p) /\ x \in Flags
    BY Roles DEF ReadersOK, RulesTypeOK
  <1>3. /\ tx'[p] = Put(tx[p], x, NoDef) /\ doomed'[p] = doomed[p] \ {x}
        /\ \A q \in Syncers \ {p} : tx'[q] = tx[q] /\ doomed'[q] = doomed[q]
    BY <1>1 DEF RulesTypeOK
  <1>4. /\ DOMAIN tx'[p] = DOMAIN tx[p] \cup {x}
        /\ \A y \in DOMAIN tx'[p] : tx'[p][y] = IF y = x THEN NoDef ELSE tx[p][y]
        /\ tx'[p] \in [DOMAIN tx'[p] -> Rules \cup {NoDef}]
    <2>1. \A y \in DOMAIN tx[p] : tx[p][y] \in Rules \cup {NoDef}
      BY DEF RulesTypeOK
    <2> QED BY <1>3, <2>1 DEF Put
  <1>5. RulesTypeOK'
    <2>1. doomed' \in [Syncers -> SUBSET Flags] /\ tx' = [q \in Syncers |-> tx'[q]]
      BY <1>1 DEF RulesTypeOK
    <2>2. \A q \in Syncers : tx'[q] \in [DOMAIN tx'[q] -> Rules \cup {NoDef}] /\ DOMAIN tx'[q] \subseteq Flags
      <3> TAKE q \in Syncers
      <3>1. CASE q = p
        BY <1>2, <1>4, <3>1 DEF RulesTypeOK
      <3>2. CASE q # p
        BY <1>3, <3>2 DEF RulesTypeOK
      <3> QED BY <3>1, <3>2
    <2> QED BY <1>0, <2>1, <2>2 DEF RulesTypeOK
  <1>6. LoadOK(p)'
    BY <1>0, <1>2 DEF LoadOK, Unread, Settled
  <1>7. SyncOK(p)'
    <2>1. \A e \in got[p] : Held(p, e[2])' /\ e[2].flag \notin doomed'[p]
      BY <1>0, <1>2, <1>3, <1>4 DEF SyncOK, Held
    <2> QED BY <1>0, <2>1 DEF SyncOK
  <1> QED BY <1>0, <1>3, <1>5, <1>6, <1>7, TransactionStep

LEMMA SyncStep ==
  ASSUME RulesInv, NEW p \in Syncers, Sync(p) \/ SyncFails(p)
  PROVE  RulesInv'
  <1> USE DEF RulesInv
  <1>t. RulesTypeOK /\ p \in Readers
    BY Roles
  <1>1. CASE UpsertRaises(p) \/ Deadlocked(p) \/ SyncFails(p)
    <2>1. phase[p] \in {"upsert", "prune"} /\ AfterSync(p) /\ defs' = defs
      BY <1>1 DEF UpsertRaises, Deadlocked, SyncFails, Waits
    <2>2. Unread(p) = {} /\ UNCHANGED here
      BY <2>1 DEF Unread, AfterSync, files
    <2> QED BY <1>t, <2>1, <2>2, SyncEnds DEF RulesTypeOK
  <1>2. CASE Commit(p)
    <2>1. phase[p] = "prune" /\ AfterSync(p)
          /\ defs' = [x \in Flags |-> IF x \in DOMAIN tx[p] THEN tx[p][x] ELSE defs[x]]
      BY <1>2 DEF Commit
    <2>2. defs' \in [Flags -> Rules \cup {NoDef}]
      BY <1>t, <2>1 DEF RulesTypeOK
    <2>3. Unread(p) = {} /\ UNCHANGED here
      BY <2>1 DEF Unread, AfterSync, files
    <2> QED BY <2>1, <2>2, <2>3, SyncEnds
  <1> QED BY <1>t, <1>1, <1>2, ReadStep, EndLoadStep, UpsertStep, ListDoomedStep, DeleteRowStep DEF Sync

------------------------------------------------------------------------------
\* The cache.

LEMMA CheckStep ==
  ASSUME RulesInv, Check
  PROVE  RulesInv'
  <1> USE DEF RulesInv
  <1>r. cache \in Readers /\ cache \notin Syncers /\ \A q \in Syncers : q # cache
    BY Roles
  <1>a. ASSUME UNCHANGED <<here, dir, clock, pend, since, tx, doomed, defs, running>>, RulesTypeOK',
               \A q \in Readers \ {cache} : phase'[q] = phase[q] /\ names'[q] = names[q] /\ got'[q] = got[q],
               hash' = hash \/ (phase[cache] = "hash" /\ hash' = got[cache]),
               phase'[cache] = "hash" => \/ phase[cache] = "hash" /\ got'[cache] = got[cache]
                                      \/ got'[cache] = {}
                                      \/ \E f \in Files : /\ dir[f].text \in Texts /\ phase[cache] = "hash"
                                                          /\ got'[cache] = got[cache] \cup {<<f, dir[f].text, dir[f].at>>},
               LoadOK(cache)', CacheOK'
        PROVE  RulesInv'
    <2>1. ClockOK'
      BY <1>a, ClockStep
    <2>2. RunOK'
      BY <1>a, RunAside
    <2>3. ReadersOK'
      BY <1>a, <1>r, Others
    <2> QED BY <1>a, <2>1, <2>2, <2>3
  <1>1. CASE StartCheck
    BY <1>1, <1>r, ListStep DEF StartCheck
  <1>2. CASE HashFile
    <2> DEFINE f == First(names[cache])
    <2>1. f \in names[cache] /\ f \in Files
      BY <1>2, <1>r, FirstIn DEF HashFile, RulesTypeOK
    <2>2. /\ phase[cache] = "hash"
          /\ UNCHANGED <<here, dir, clock, pend, since, tx, doomed, defs, running, hash, rules, failed>>
          /\ IF dir[f].text = Absent
             THEN /\ phase' = [phase EXCEPT ![cache] = "idle"] /\ names' = [names EXCEPT ![cache] = {}]
                  /\ got' = [got EXCEPT ![cache] = {}]
             ELSE /\ names' = [names EXCEPT ![cache] = @ \ {f}] /\ phase' = phase
                  /\ got' = [got EXCEPT ![cache] = @ \cup {<<f, dir[f].text, dir[f].at>>}]
      BY <1>2 DEF HashFile, files, db, hot
    <2> HIDE DEF f
    <2>3. dir[f].text # Absent => dir[f].text \in Texts /\ <<f, dir[f].text, dir[f].at>> \in Seen
      BY <2>1 DEF RulesTypeOK, Seen
    <2>4. phase'[cache] \in {"idle", "hash"} /\ \A q \in Readers \ {cache} : phase'[q] = phase[q] /\ names'[q] = names[q] /\ got'[q] = got[q]
      BY <1>r, <2>2 DEF RulesTypeOK
    <2>5. RulesTypeOK'
      <3>1. CASE dir[f].text = Absent
        BY <2>2, <3>1 DEF RulesTypeOK
      <3>2. CASE dir[f].text # Absent
        <4>1. names[cache] \ {f} \in SUBSET Files /\ got[cache] \cup {<<f, dir[f].text, dir[f].at>>} \in SUBSET Seen
          BY <1>r, <2>3, <3>2 DEF RulesTypeOK
        <4>2. /\ names \in [Readers -> SUBSET Files] /\ got \in [Readers -> SUBSET Seen]
              /\ names' = [names EXCEPT ![cache] = names[cache] \ {f}]
              /\ got' = [got EXCEPT ![cache] = got[cache] \cup {<<f, dir[f].text, dir[f].at>>}]
          BY <2>2, <3>2 DEF RulesTypeOK
        <4>3. names' \in [Readers -> SUBSET Files] /\ got' \in [Readers -> SUBSET Seen]
          BY <4>1, <4>2
        <4> QED BY <2>2, <3>2, <4>3 DEF RulesTypeOK
      <3> QED BY <3>1, <3>2
    <2>6. phase'[cache] = "hash" => got'[cache] = got[cache] \cup {<<f, dir[f].text, dir[f].at>>} /\ dir[f].text \in Texts
      BY <1>r, <2>2, <2>3 DEF RulesTypeOK
    <2>7. LoadOK(cache)' /\ CacheOK'
      BY <2>2, <2>4 DEF LoadOK, CacheOK, There, Mark, HasNow
    <2> QED BY <1>a, <2>1, <2>2, <2>4, <2>5, <2>6, <2>7
  <1>3. CASE KeepRules
    <2>1. /\ phase[cache] = "hash" /\ phase' = [phase EXCEPT ![cache] = "idle"] /\ got' = [got EXCEPT ![cache] = {}]
          /\ UNCHANGED <<here, dir, clock, pend, names, since, tx, doomed, defs, running, hash, rules, failed>>
      BY <1>3 DEF KeepRules, files, db, hot
    <2>2. /\ RulesTypeOK' /\ phase'[cache] = "idle"
          /\ \A q \in Readers \ {cache} : phase'[q] = phase[q] /\ names'[q] = names[q] /\ got'[q] = got[q]
      BY <1>r, <2>1 DEF RulesTypeOK
    <2>3. LoadOK(cache)' /\ CacheOK'
      BY <2>1, <2>2 DEF LoadOK, CacheOK, There, Mark, HasNow
    <2> QED BY <1>a, <2>1, <2>2, <2>3
  <1>4. CASE ReloadRules
    <2>1. /\ phase[cache] = "hash" /\ phase' = [phase EXCEPT ![cache] = "read"] /\ got' = [got EXCEPT ![cache] = {}]
          /\ names' = [names EXCEPT ![cache] = There] /\ hash' = got[cache]
          /\ UNCHANGED <<here, dir, clock, pend, since, tx, doomed, defs, running, rules, failed>>
      BY <1>4 DEF ReloadRules, files, db
    <2>2. /\ phase'[cache] = "read" /\ names'[cache] = There /\ got'[cache] = {}
          /\ \A q \in Readers \ {cache} : phase'[q] = phase[q] /\ names'[q] = names[q] /\ got'[q] = got[q]
      BY <1>r, <2>1 DEF RulesTypeOK
    <2>3. RulesTypeOK'
      <3>1. got[cache] \subseteq Files \X Texts \X Nat
        BY <2>1 DEF ClockOK
      <3> QED BY <2>1, <3>1 DEF RulesTypeOK, There
    <2>4. LoadOK(cache)'
      BY <2>1, <2>2 DEF LoadOK, Unread, There, Settled
    <2>5. CacheOK'
      BY <2>1, <2>2 DEF CacheOK, There
    <2> QED BY <1>a, <2>1, <2>2, <2>3, <2>4, <2>5
  <1>5. CASE EndReload
    <2>1. /\ phase[cache] = "read" /\ names[cache] = {} /\ rules' = got[cache] /\ failed' = FALSE
          /\ phase' = [phase EXCEPT ![cache] = "idle"] /\ got' = [got EXCEPT ![cache] = {}]
          /\ UNCHANGED <<here, dir, clock, pend, names, since, tx, doomed, defs, running, hash>>
      BY <1>5 DEF EndReload, files, db
    <2>2. /\ phase'[cache] = "idle"
          /\ \A q \in Readers \ {cache} : phase'[q] = phase[q] /\ names'[q] = names[q] /\ got'[q] = got[q]
      BY <1>r, <2>1 DEF RulesTypeOK
    <2>3. RulesTypeOK'
      <3>1. got[cache] \subseteq Files \X Texts
        BY <1>r, <2>1 DEF ReadersOK, LoadOK, Texts
      <3> QED BY <2>1, <3>1 DEF RulesTypeOK
    <2>4. LoadOK(cache)'
      BY <2>2 DEF LoadOK
    <2>5. CacheOK'
      BY <2>1, <2>2 DEF CacheOK, There, Mark, HasNow
    <2> QED BY <1>a, <2>1, <2>2, <2>3, <2>4, <2>5
  <1> QED BY <1>r, <1>1, <1>2, <1>3, <1>4, <1>5, ReadStep DEF Check

LEMMA RulesInvNext ==
  ASSUME RulesInv, [RulesNext]_ruleVars
  PROVE  RulesInv'
  <1>1. ASSUME NEW p \in Syncers, ListFiles(p, "read") PROVE RulesInv'
    BY <1>1, Roles, ListStep
  <1>2. ASSUME NEW p \in Readers, ReadFails(p) PROVE RulesInv'
    BY <1>2, GivenUp DEF ReadFails
  <1>3. CASE UNCHANGED ruleVars
    BY <1>3 DEF ruleVars, files, load, db, hot, RulesInv, RulesTypeOK, RunOK, ClockOK, CacheOK, ReadersOK,
                LoadOK, SyncOK, Settled, Unread, HasNow, Mark, There, Held
  <1>4. StartRun \/ (\E q \in Requests : StartSync(q)) => \E p \in Syncers : ListFiles(p, "read")
    BY DEF StartRun, StartSync, Syncers
  <1> QED BY <1>1, <1>2, <1>3, <1>4, ChangeStep, SyncStep, CheckStep DEF RulesNext

\* What the readers of the rule files hold, in any number of them.
LEMMA RulesInvariance == RulesSpec => []RulesInv
  BY RulesInvInit, RulesInvNext, PTL DEF RulesSpec

\* The readers, the table and the cache have their types.
THEOREM RulesTypeCorrect == RulesSpec => []RulesTypeOK
  <1>1. RulesInv => RulesTypeOK
    BY DEF RulesInv
  <1> QED BY <1>1, RulesInvariance, PTL

\* "rule edits apply immediately" (loop.py, load_rules_from_dir).
THEOREM RunsAreCurrent == RulesSpec => []RunsOnCurrentFiles
  <1>1. RulesInv => RunsOnCurrentFiles
    <2> SUFFICES ASSUME RulesInv, NEW f \in Files, Settled(f, running.since)
                 PROVE  {e[2] : e \in {d \in running.rules : d[1] = f}} = {r \in Rules : r = dir[f].text /\ r.fits}
      BY DEF RunsOnCurrentFiles
    <2>1. /\ \A e \in running.rules : e[1] = f => e[2] = dir[f].text /\ e[2].fits
          /\ dir[f].text \in Rules /\ dir[f].text.fits => <<f, dir[f].text>> \in running.rules
          /\ running.rules \subseteq Files \X Rules
      BY DEF RulesInv, RunOK, RulesTypeOK
    <2> QED BY <2>1
  <1> QED BY <1>1, RulesInvariance, PTL

\* The cache never takes an old rule for a current one (HotReloadRules).
THEOREM CacheIsCurrent == RulesSpec => []CacheFollows
  <1>1. RulesInv => CacheFollows
    <2> SUFFICES ASSUME RulesInv, phase[cache] = "idle", ~ failed,
                        hash = {<<f, dir[f].text, dir[f].at>> : f \in There},
                        NEW f \in There
                 PROVE  {e[2] : e \in {d \in rules : d[1] = f}} = {dir[f].text}
      BY DEF CacheFollows
    <2>1. HasNow(rules, f)
      BY DEF RulesInv, CacheOK, Mark
    <2> QED BY <2>1 DEF HasNow
  <1> QED BY <1>1, RulesInvariance, PTL

\* A sync that commits leaves a definition for every rule that was there when it
\* began and stayed (_sync_fault_definitions_from_rules).
THEOREM SyncsDefine == RulesSpec => SettledRulesDefined
  <1> DEFINE Ends(p, f) == /\ phase[p] = "prune" /\ phase'[p] = "idle" /\ failures' = failures /\ defs' # defs
                           /\ Settled(f, since[p])
  <1>1. ASSUME RulesInv, RulesNext, NEW p \in Syncers, NEW f \in Files, Ends(p, f),
               NEW x \in Flags, Holds(f, x)
        PROVE  defs'[x] # NoDef
    <2>1. \E q \in Syncers : Commit(q)
      <3>1. ASSUME NEW c \in Clients, Change(c) PROVE defs' = defs
        BY <3>1 DEF Change, UploadRule, TestInjectRule, FinishWrite, WriteLost, DeleteRule,
                    TestInjectDelete, Open, db
      <3>2. ASSUME NEW q \in Readers, ReadFails(q) \/ ReadFile(q) PROVE defs' = defs
        BY <3>2 DEF ReadFails, ReadFile, GiveUp, db
      <3>3. StartRun \/ (\E q \in Requests : StartSync(q)) => defs' = defs
        BY DEF StartRun, StartSync, ListFiles, db
      <3>4. Check => defs' = defs
        BY <3>2, Roles DEF Check, StartCheck, ListFiles, HashFile, KeepRules, ReloadRules, EndReload, db
      <3>5. ASSUME NEW q \in Syncers, Sync(q) \/ SyncFails(q), ~ Commit(q) PROVE defs' = defs
        BY <3>2, <3>5, Roles DEF Sync, SyncFails, EndLoad, Upsert, UpsertRaises, ListDoomed, DeleteRow,
                                 Deadlocked, db
      <3> QED BY <1>1, <3>1, <3>2, <3>3, <3>4, <3>5 DEF RulesNext
    <2>2. PICK q \in Syncers : Commit(q)
      BY <2>1
    <2>3. phase' = [phase EXCEPT ![q] = "idle"] /\ p = q
      BY <1>1, <2>2, Roles DEF Commit, AfterSync, RulesInv, RulesTypeOK
    <2>4. LoadOK(p) /\ SyncOK(p)
      BY <1>1, Roles DEF RulesInv, ReadersOK
    <2>5. dir[f].text \in Rules /\ dir[f].text.flag = x /\ dir[f].text # Absent
      BY <1>1, RulesAssumption DEF Holds
    <2>6. <<f, dir[f].text>> \in got[p]
      BY <1>1, <2>4, <2>5 DEF LoadOK, Unread
    <2>7. Held(p, dir[f].text)
      BY <1>1, <2>4, <2>6 DEF SyncOK
    <2>8. defs' = [y \in Flags |-> IF y \in DOMAIN tx[p] THEN tx[p][y] ELSE defs[y]]
      BY <2>2, <2>3 DEF Commit
    <2>9. defs'[x] \in Rules
      BY <1>1, <2>5, <2>7, <2>8 DEF Held
    <2> QED BY <2>9, RulesAssumption
  <1>2. RulesInv /\ [RulesNext]_ruleVars =>
          [\A p \in Syncers, f \in Files :
             phase[p] = "prune" /\ phase'[p] = "idle" /\ failures' = failures /\ defs' # defs /\ Settled(f, since[p])
               => \A x \in Flags : Holds(f, x) => defs'[x] # NoDef]_ruleVars
    BY <1>1
  <1> QED BY <1>2, RulesInvariance, PTL DEF RulesSpec, SettledRulesDefined

==============================================================================
