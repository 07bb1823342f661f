---------------------------- MODULE TtlSyncProofs ----------------------------
(***************************************************************************)
(* Safety of TtlSync for any number of clients, timers, commits, faults    *)
(* and restarts.  Three layers: Shape (which thread can be where in which  *)
(* phase), Ages (how old each copy of the database may be) and Coverage    *)
(* (without races and errors, every missing change has a thread that will  *)
(* write it).                                                              *)
(***************************************************************************)
EXTENDS TtlSync, TLAPS

PhaseShape ==
  /\ phase = "down" => \A t \in Threads : pc[t] = "idle"
  /\ phase = "boot" => /\ \A t \in Threads \ {main} : pc[t] = "idle"
                       /\ pc[main] \in WritePcs \cup {"booted"}
  /\ phase \in {"serving", "draining", "exit"} => pc[main] = "idle"
  /\ phase = "exit" => \A t \in Clients \cup Savers \cup Timers : pc[t] = "idle"
  /\ phase \in {"down", "boot", "exit"} => timer = NoTimer

RoleShape ==
  /\ \A t \in Clients : pc[t] \in {"idle", "schedule"}
  /\ \A t \in Savers : pc[t] \in WritePcs \cup {"idle"}
  /\ \A t \in Timers : pc[t] \in WritePcs \cup {"idle", "armed", "flush", "clear"}
  /\ \A t \in Background : pc[t] \in WritePcs \cup {"idle", "wait", "dead"}
  /\ pc[main] \in WritePcs \cup {"idle", "booted"}

Shape == TypeOK /\ TimerRefIsLive /\ PhaseShape /\ RoleShape

Ages ==
  /\ bootDb <= db
  /\ graph \in Nat => graph <= db
  /\ file \in Nat => file <= db
  /\ \A t \in Threads :
       /\ Writing(t) => bootDb <= start[t] /\ start[t] <= db
       /\ pc[t] = "serialize" /\ graph \in Nat => start[t] <= graph
       /\ pc[t] \in {"truncate", "write"} /\ buf[t] \in Nat =>
            start[t] <= buf[t] /\ buf[t] <= db

------------------------------------------------------------------------------
LEMMA InitShape == Init => Shape
  BY Sentinels, Roles DEF Init, Shape, TypeOK, TimerRefIsLive, PhaseShape, RoleShape, Contents,
     Pcs, Phases, Races, Threads, WritePcs

\* The shape of the process is kept by every step.
LEMMA NextShape == Shape /\ [Next]_vars => Shape'
<1> SUFFICES ASSUME Shape, [Next]_vars PROVE Shape'
  OBVIOUS
<1> USE Sentinels, Roles
<1> USE DEF Shape, TypeOK, TimerRefIsLive, PhaseShape, RoleShape, Contents, Pcs, Phases, Races,
        Threads, WritePcs, history
<1>1. ASSUME NEW t \in Threads, SyncBrick(t) PROVE Shape'
  BY <1>1 DEF SyncBrick, BuildFromDb
<1>2. ASSUME NEW t \in Threads, Serialize(t) PROVE Shape'
  BY <1>2 DEF Serialize
<1>3. ASSUME NEW t \in Threads, Truncate(t) PROVE Shape'
  BY <1>3 DEF Truncate
<1>4. ASSUME NEW t \in Threads, Write(t) PROVE Shape'
  BY <1>4 DEF Write, AfterWrite
<1>5. ASSUME NEW t \in Threads, WriteFails(t) PROVE Shape'
  BY <1>5 DEF WriteFails, AfterWrite, Fault, FaultKinds, MaxFaults
<1>6. ASSUME NEW t \in Threads, SyncFails(t) PROVE Shape'
  <2>1. faults' \in [FaultKinds -> Nat]
    BY <1>6 DEF SyncFails, Fault, FaultKinds, MaxFaults
  <2>2. CASE t = main /\ phase = "boot"
    BY <1>6, <2>1, <2>2 DEF SyncFails, Down
  <2>3. CASE ~(t = main /\ phase = "boot")
    BY <1>6, <2>1, <2>3 DEF SyncFails, AfterWrite
  <2> QED
    BY <2>2, <2>3
<1>7. ASSUME NEW t \in Clients, Commit(t) PROVE Shape'
  BY <1>7 DEF Commit
<1>8. ASSUME NEW t \in Clients, Schedule(t) PROVE Shape'
  <2> PICK u \in Timers :
        /\ pc[u] = "idle"
        /\ pc' = [Cancel(pc, timer) EXCEPT ![t] = "idle", ![u] = "armed"]
        /\ timer' = u
    BY <1>8 DEF Schedule
  <2> t # u /\ t \in Threads /\ u \in Threads
    OBVIOUS
  <2>1. \A x \in Threads :
          pc'[x] = IF x = t THEN "idle"
                   ELSE IF x = u THEN "armed"
                   ELSE IF x = timer /\ x \in Timers /\ pc[x] = "armed" THEN "idle"
                   ELSE pc[x]
    BY DEF Cancel
  <2>2. pc' \in [Threads -> Pcs]
    <3>1. Cancel(pc, timer) \in [Threads -> Pcs]
      BY DEF Cancel
    <3> QED
      BY <3>1
  <2>3. phase = "serving" \/ phase = "draining"
    BY <1>8 DEF Schedule
  <2> QED
    BY <1>8, <2>1, <2>2, <2>3 DEF Schedule
<1>9. ASSUME NEW t \in Timers, Fire(t) PROVE Shape'
  BY <1>9 DEF Fire
<1>10. ASSUME NEW t \in Timers, FlushSync(t) PROVE Shape'
  <2>1. CASE timer = NoTimer
    BY <1>10, <2>1 DEF FlushSync, TakeTimer
  <2>2. CASE timer # NoTimer
    <3>1. Cancel(pc, timer) \in [Threads -> Pcs]
      BY DEF Cancel
    <3>2. pc' = [Cancel(pc, timer) EXCEPT ![t] = "sync"] /\ NoteBegin(t)
      BY <1>10, <2>2 DEF FlushSync, TakeTimer
    <3>3. pc' \in [Threads -> Pcs]
      BY <3>1, <3>2
    <3>4. \A x \in Threads :
            pc'[x] = IF x = t THEN "sync"
                     ELSE IF x = timer /\ x \in Timers /\ pc[x] = "armed" THEN "idle"
                     ELSE pc[x]
      BY <3>2 DEF Cancel
    <3>5. start' \in [Threads -> Nat] /\ races' \subseteq Races
      BY <3>2 DEF NoteBegin
    <3> QED
      BY <1>10, <2>2, <3>3, <3>4, <3>5 DEF FlushSync, TakeTimer
  <2> QED
    BY <2>1, <2>2
<1>11. ASSUME NEW t \in Threads, ClearTimer(t) PROVE Shape'
  BY <1>11 DEF ClearTimer
<1>12. ASSUME NEW t \in Savers, Save(t) PROVE Shape'
  BY <1>12 DEF Save, BeginWrite, NoteBegin
<1>13. ASSUME NEW t \in Background, Tick(t) PROVE Shape'
  BY <1>13 DEF Tick, BeginWrite, NoteBegin
<1>14. CASE Boot
  BY <1>14 DEF Boot, LoadFromFile
<1>15. CASE Serve
  BY <1>15 DEF Serve
<1>16. CASE Shutdown
  BY <1>16 DEF Shutdown
<1>17. CASE AtExit
  BY <1>17 DEF AtExit, TakeTimer, NoteBegin
<1>18. CASE Exit
  BY <1>18 DEF Exit, Down
<1>19. CASE Crash
  BY <1>19 DEF Crash, Down, Fault, FaultKinds, MaxFaults
<1>20. CASE UNCHANGED vars
  BY <1>20 DEF vars
<1> QED
  BY <1>1, <1>2, <1>3, <1>4, <1>5, <1>6, <1>7, <1>8, <1>9, <1>10, <1>11, <1>12, <1>13, <1>14,
     <1>15, <1>16, <1>17, <1>18, <1>19, <1>20 DEF Next, WriterStep

\* Every variable keeps its type, for any number of threads and any bounds.
THEOREM TypeCorrect == Spec => []TypeOK
<1>1. Init => Shape
  BY InitShape
<1>2. Shape /\ [Next]_vars => Shape'
  BY NextShape
<1>3. Shape => TypeOK
  BY DEF Shape
<1> QED
  BY <1>1, <1>2, <1>3, PTL DEF Spec

\* Whoever takes _sync_timer takes work that has not been done.
THEOREM TimerRefLive == Spec => []TimerRefIsLive
<1>1. Init => Shape
  BY InitShape
<1>2. Shape /\ [Next]_vars => Shape'
  BY NextShape
<1>3. Shape => TimerRefIsLive
  BY DEF Shape
<1> QED
  BY <1>1, <1>2, <1>3, PTL DEF Spec

\* The atexit hook never finds a pending sync.
THEOREM ExitHookIdle == Spec => []NothingLeftAtExit
<1>1. Init => Shape
  BY InitShape
<1>2. Shape /\ [Next]_vars => Shape'
  BY NextShape
<1>3. Shape => NothingLeftAtExit
  BY DEF Shape, PhaseShape, NothingLeftAtExit
<1> QED
  BY <1>1, <1>2, <1>3, PTL DEF Spec

------------------------------------------------------------------------------
LEMMA InitAges == Init => Ages
  BY Sentinels DEF Init, Ages, Threads, Writing, WritePcs

\* No copy of the database becomes newer than it, and none that a live writer
\* uses is older than the writer's start.
LEMMA NextAges == Shape /\ Shape' /\ Ages /\ [Next]_vars => Ages'
<1> SUFFICES ASSUME Shape, Shape', Ages, [Next]_vars PROVE Ages'
  OBVIOUS
<1> USE Sentinels, Roles
<1> USE DEF Ages, Shape, TypeOK, Contents, Writing, WritePcs, history
<1>1. ASSUME NEW t \in Threads, SyncBrick(t) PROVE Ages'
  BY <1>1 DEF SyncBrick, BuildFromDb
<1>2. ASSUME NEW t \in Threads, Serialize(t) PROVE Ages'
  BY <1>2 DEF Serialize
<1>3. ASSUME NEW t \in Threads, Truncate(t) PROVE Ages'
  BY <1>3 DEF Truncate
<1>4. ASSUME NEW t \in Threads, Write(t) PROVE Ages'
  BY <1>4 DEF Write, AfterWrite
<1>5. ASSUME NEW t \in Threads, WriteFails(t) PROVE Ages'
  BY <1>5 DEF WriteFails, AfterWrite
<1>6. ASSUME NEW t \in Threads, SyncFails(t) PROVE Ages'
  BY <1>6 DEF SyncFails, AfterWrite, Down
<1>7. ASSUME NEW t \in Clients, Commit(t) PROVE Ages'
  BY <1>7 DEF Commit, Threads
<1>8. ASSUME NEW t \in Clients, Schedule(t) PROVE Ages'
  BY <1>8 DEF Schedule, Cancel, Threads
<1>9. ASSUME NEW t \in Timers, Fire(t) PROVE Ages'
  BY <1>9 DEF Fire, Threads
<1>10. ASSUME NEW t \in Timers, FlushSync(t) PROVE Ages'
  BY <1>10 DEF FlushSync, TakeTimer, Cancel, NoteBegin, Threads
<1>11. ASSUME NEW t \in Threads, ClearTimer(t) PROVE Ages'
  BY <1>11 DEF ClearTimer
<1>12. ASSUME NEW t \in Savers, Save(t) PROVE Ages'
  BY <1>12 DEF Save, BeginWrite, NoteBegin, Threads
<1>13. ASSUME NEW t \in Background, Tick(t) PROVE Ages'
  BY <1>13 DEF Tick, BeginWrite, NoteBegin, Threads
<1>14. CASE Boot
  BY <1>14 DEF Boot, LoadFromFile, PhaseShape, Threads
<1>15. CASE Serve
  BY <1>15 DEF Serve
<1>16. CASE Shutdown
  BY <1>16 DEF Shutdown
<1>17. CASE AtExit
  BY <1>17 DEF AtExit, TakeTimer, NoteBegin, Threads
<1>18. CASE Exit
  BY <1>18 DEF Exit, Down
<1>19. CASE Crash
  BY <1>19 DEF Crash, Down
<1>20. CASE UNCHANGED vars
  BY <1>20 DEF vars
<1> QED
  BY <1>1, <1>2, <1>3, <1>4, <1>5, <1>6, <1>7, <1>8, <1>9, <1>10, <1>11, <1>12, <1>13, <1>14,
     <1>15, <1>16, <1>17, <1>18, <1>19, <1>20 DEF Next, WriterStep

LEMMA SafetyInvariant == Spec => [](Shape /\ Ages)
<1>1. Init => Shape /\ Ages
  BY InitShape, InitAges
<1>2. Shape /\ Ages /\ [Next]_vars => (Shape /\ Ages)'
  BY NextShape, NextAges
<1> QED
  BY <1>1, <1>2, PTL DEF Spec

\* A write carries every change committed before it began.
THEOREM WritesCover == Spec => []WriteCoversStart
<1>1. Shape /\ Ages => WriteCoversStart
  BY DEF Shape, TypeOK, Ages, WriteCoversStart, Contents
<1> QED
  BY <1>1, SafetyInvariant, PTL

\* The file refines the abstract one.
THEOREM Refinement == Spec => FileIsSnapshot
<1>1. Init => Snap!Init
  BY DEF Init, Snap!Init
<1>2. Shape /\ Ages /\ [Next]_vars => [Snap!Next]_(Snap!vars)
  <2> SUFFICES ASSUME Shape, Ages, [Next]_vars PROVE [Snap!Next]_(Snap!vars)
    OBVIOUS
  <2> USE DEF Shape, TypeOK, Contents, Ages, history
  <2>1. ASSUME NEW t \in Threads, Write(t) PROVE [Snap!Next]_(Snap!vars)
    <3>1. file' \in {buf[t], Torn} /\ UNCHANGED <<db, bootDb>>
      BY <2>1 DEF Write
    <3>2. buf[t] \in Nat => buf[t] \in bootDb .. db
      BY <2>1 DEF Write, Writing, WritePcs
    <3>3. buf[t] \in Nat \cup {Empty, Torn}
      OBVIOUS
    <3> QED
      BY <3>1, <3>2, <3>3 DEF Snap!Next, Snap!Snapshot, Snap!Damage
  <2>2. ASSUME NEW t \in Threads, WriteFails(t) PROVE [Snap!Next]_(Snap!vars)
    BY <2>2 DEF WriteFails, Snap!Next, Snap!Damage, Snap!vars
  <2>3. ASSUME NEW t \in Threads, Truncate(t) PROVE [Snap!Next]_(Snap!vars)
    BY <2>3 DEF Truncate, Snap!Next, Snap!Damage
  <2>4. ASSUME NEW c \in Clients, Commit(c) PROVE [Snap!Next]_(Snap!vars)
    BY <2>4 DEF Commit, Snap!Next, Snap!Commit
  <2>5. CASE Boot
    BY <2>5 DEF Boot, Snap!Next, Snap!Restart
  <2>6. ASSUME NEW t \in Threads, SyncBrick(t) \/ Serialize(t) \/ SyncFails(t) \/ ClearTimer(t)
        PROVE UNCHANGED <<db, file, bootDb>>
    BY <2>6 DEF SyncBrick, BuildFromDb, Serialize, SyncFails, ClearTimer
  <2>7. ASSUME NEW t \in Threads, Schedule(t) \/ Fire(t) \/ FlushSync(t) \/ Save(t) \/ Tick(t)
        PROVE UNCHANGED <<db, file, bootDb>>
    BY <2>7 DEF Schedule, Fire, FlushSync, Save, Tick, NoteBegin
  <2>8. CASE Serve \/ Shutdown \/ AtExit \/ Exit \/ Crash \/ UNCHANGED vars
    BY <2>8 DEF Serve, Shutdown, AtExit, Exit, Crash, vars, Snap!vars
  <2> QED
    BY <2>1, <2>2, <2>3, <2>4, <2>5, <2>6, <2>7, <2>8
    DEF Next, WriterStep, Threads, Snap!vars
<1> QED
  BY <1>1, <1>2, SafetyInvariant, PTL DEF Spec, FileIsSnapshot, Snap!Spec

------------------------------------------------------------------------------
\* The thread t will still put the current database content on disk.
WillWrite(t) ==
  \/ pc[t] \in {"schedule", "armed", "flush", "sync"}
  \/ pc[t] = "serialize" /\ graph = db
  \/ pc[t] \in {"truncate", "write"} /\ buf[t] = db

Clean == NoErrors /\ races = {}

\* Without races and errors: writers are alone, what they hold is a snapshot
\* at least as new as the file, and a stale file has somebody at work on it.
Coverage ==
  Clean =>
    /\ \A t, u \in Threads : Writing(t) /\ Writing(u) => t = u
    /\ \A t \in Threads :
         /\ Writing(t) /\ file \in Nat => file <= start[t]
         /\ pc[t] = "serialize" => graph \in Nat
         /\ pc[t] \in {"truncate", "write"} => buf[t] \in Nat
         /\ pc[t] = "write" => file = Empty
    /\ phase = "boot" /\ Writing(main) => start[main] = db
    /\ pc[main] = "booted" => file = db
    /\ phase = "serving" => file = db \/ \E t \in Threads : WillWrite(t)

LEMMA InitCoverage == Init => Coverage
  BY DEF Init, Coverage, Writing, WritePcs, Threads

\* Faults and races are remembered, except that a boot forgets the races.
LEMMA CleanBefore == Shape /\ [Next]_vars /\ ~Boot /\ Clean' => Clean
<1> SUFFICES ASSUME Shape, [Next]_vars, ~Boot, Clean' PROVE Clean
  OBVIOUS
<1> USE DEF Shape, TypeOK, Clean, NoErrors, history, FaultKinds
<1>1. ASSUME NEW t \in Threads, WriterStep(t) \/ WriteFails(t) \/ SyncFails(t) PROVE Clean
  BY <1>1 DEF WriterStep, SyncBrick, Serialize, Truncate, Write, WriteFails, SyncFails, Fault
<1>2. ASSUME NEW t \in Threads,
             Commit(t) \/ Schedule(t) \/ Fire(t) \/ FlushSync(t) \/ ClearTimer(t)
             \/ Save(t) \/ Tick(t)
      PROVE Clean
  BY <1>2 DEF Commit, Schedule, Fire, FlushSync, ClearTimer, Save, Tick, BeginWrite, NoteBegin
<1>3. CASE Serve \/ Shutdown \/ AtExit \/ Exit \/ Crash \/ UNCHANGED vars
  BY <1>3 DEF Serve, Shutdown, AtExit, Exit, Crash, vars, NoteBegin, Fault
<1> QED
  BY <1>1, <1>2, <1>3 DEF Next, Threads

\* Coverage is kept by every step: the cases are the ways a change can move
\* from the database towards the file.
LEMMA NextCoverage == Shape /\ Shape' /\ Ages /\ Coverage /\ [Next]_vars => Coverage'
<1> SUFFICES ASSUME Shape, Shape', Ages, Coverage, [Next]_vars, Clean' PROVE Coverage'
  BY DEF Coverage
<1> USE Sentinels, Roles
<1> USE DEF Shape, TypeOK, Ages, Contents, history, Coverage, Writing, WritePcs, WillWrite
<1>0. Clean \/ Boot
  BY CleanBefore
<1>1. ASSUME NEW t \in Threads, SyncBrick(t), Clean PROVE Coverage'
  BY <1>1 DEF SyncBrick, BuildFromDb, PhaseShape
<1>2. ASSUME NEW t \in Threads, Serialize(t), Clean PROVE Coverage'
  BY <1>2 DEF Serialize
<1>3. ASSUME NEW t \in Threads, Truncate(t), Clean PROVE Coverage'
  <2>1. file = db => buf[t] = db
    BY <1>3 DEF Truncate
  <2>2. \A x \in Threads : pc'[x] = IF x = t THEN "write" ELSE pc[x]
    BY <1>3 DEF Truncate
  <2>3. \A x \in Threads : Writing(x)' <=> Writing(x)
    BY <1>3, <2>2 DEF Truncate
  <2>4. \A x \in Threads : WillWrite(x) => WillWrite(x)'
    BY <1>3, <2>2 DEF Truncate
  <2>5. phase' = "serving" => \E x \in Threads : WillWrite(x)'
    BY <1>3, <2>1, <2>2, <2>4 DEF Truncate
  <2>6. \A x, y \in Threads : Writing(x)' /\ Writing(y)' => x = y
    BY <1>3, <2>3
  <2>7. \A x \in Threads \ {t} : ~Writing(x)'
    BY <1>3, <2>6, <2>2
  <2>8. \A x \in Threads :
          /\ Writing(x)' /\ file' \in Nat => file' <= start'[x]
          /\ pc'[x] = "serialize" => graph' \in Nat
          /\ pc'[x] \in {"truncate", "write"} => buf'[x] \in Nat
          /\ pc'[x] = "write" => file' = Empty
    BY <1>3, <2>2, <2>7 DEF Truncate
  <2>9. phase' = "boot" /\ Writing(main)' => start'[main] = db'
    BY <1>3, <2>3 DEF Truncate, Threads
  <2>10. pc'[main] # "booted"
    <3>1. main \in Threads
      BY DEF Threads
    <3>2. CASE t = main
      BY <2>2, <3>1, <3>2
    <3>3. CASE t # main
      <4>1. phase # "boot" /\ phase # "down"
        BY <1>3, <3>3 DEF Truncate, PhaseShape
      <4> QED
        BY <2>2, <3>1, <3>3, <4>1 DEF PhaseShape, Phases
    <3> QED
      BY <3>2, <3>3
  <2> QED
    BY <2>5, <2>6, <2>8, <2>9, <2>10
<1>4. ASSUME NEW t \in Threads, Write(t), Clean PROVE Coverage'
  BY <1>4 DEF Write, AfterWrite, PhaseShape
<1>5. ASSUME NEW t \in Threads, WriteFails(t) \/ SyncFails(t) PROVE Coverage'
  BY <1>5 DEF WriteFails, SyncFails, Fault, Clean, NoErrors, FaultKinds
<1>7. ASSUME NEW t \in Clients, Commit(t), Clean PROVE Coverage'
  BY <1>7 DEF Commit, Threads, PhaseShape
<1>8. ASSUME NEW t \in Clients, Schedule(t), Clean PROVE Coverage'
  BY <1>8 DEF Schedule, Cancel, Threads
<1>9. ASSUME NEW t \in Timers, Fire(t), Clean PROVE Coverage'
  BY <1>9 DEF Fire, Threads
<1>10. ASSUME NEW t \in Timers, FlushSync(t), Clean PROVE Coverage'
  BY <1>10 DEF FlushSync, TakeTimer, Cancel, NoteBegin, Threads, Clean
<1>11. ASSUME NEW t \in Threads, ClearTimer(t), Clean PROVE Coverage'
  BY <1>11 DEF ClearTimer
<1>12. ASSUME NEW t \in Savers, Save(t), Clean PROVE Coverage'
  BY <1>12 DEF Save, BeginWrite, NoteBegin, Threads, Clean
<1>13. ASSUME NEW t \in Background, Tick(t), Clean PROVE Coverage'
  BY <1>13 DEF Tick, BeginWrite, NoteBegin, Threads, Clean
<1>14. CASE Boot
  BY <1>14 DEF Boot, LoadFromFile, PhaseShape, Threads
<1>15. CASE Serve /\ Clean
  BY <1>15 DEF Serve, PhaseShape, Threads
<1>16. CASE Shutdown /\ Clean
  BY <1>16 DEF Shutdown
<1>17. CASE AtExit /\ Clean
  BY <1>17 DEF AtExit, TakeTimer, NoteBegin, Threads, Clean, PhaseShape
<1>18. CASE Exit /\ Clean
  BY <1>18 DEF Exit, Down, Threads
<1>19. CASE Crash /\ Clean
  BY <1>19 DEF Crash, Down, Threads
<1>20. CASE UNCHANGED vars
  BY <1>20 DEF vars, Clean, NoErrors
<1> QED
  BY <1>0, <1>1, <1>2, <1>3, <1>4, <1>5, <1>7, <1>8, <1>9, <1>10, <1>11, <1>12, <1>13, <1>14,
     <1>15, <1>16, <1>17, <1>18, <1>19, <1>20 DEF Next, WriterStep

\* A change that an idle, fault-free process has not written was lost to an
\* empty flush or to two overlapping writes: cancelling, replacing and firing
\* timers lose nothing by themselves.
THEOREM OnlyRacesLoseChanges == Spec => []FreshUnlessRaced
<1>1. Init => Shape /\ Ages /\ Coverage
  BY InitShape, InitAges, InitCoverage
<1>2. Shape /\ Ages /\ Coverage /\ [Next]_vars => (Shape /\ Ages /\ Coverage)'
  BY NextShape, NextAges, NextCoverage
<1>3. Shape /\ Coverage => FreshUnlessRaced
  BY DEF Coverage, Clean, FreshUnlessRaced, AtRest, WillWrite
<1> QED
  BY <1>1, <1>2, <1>3, PTL DEF Spec
==============================================================================
