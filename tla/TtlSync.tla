------------------------------- MODULE TtlSync -------------------------------
(***************************************************************************)
(* How the Brick part of config/data_model.ttl follows the database in the *)
(* API process: openfdd_stack/platform/data_model_ttl.py (debounced sync), *)
(* graph_model.py (in-memory graph, serialize, write, background thread)   *)
(* and api/main.py (lifespan).                                             *)
(*                                                                         *)
(* The database content is a version number, raised by each committed      *)
(* CRUD.  A graph or a file holds a version, or Empty (no Brick triples: a *)
(* truncated file, or a graph whose site# triples were removed and not     *)
(* read back), or Torn (text that two overlapping writes, or a write cut   *)
(* short, left on disk).                                                   *)
(*                                                                         *)
(* Each threading.Timer is a thread of its own: it is created armed,       *)
(* fires at any time, and Timer.cancel() only stops it before it fires.    *)
(***************************************************************************)
EXTENDS Integers

CONSTANTS
  Clients,      \* worker threads that serve CRUD requests
  Savers,       \* worker threads that serve direct writes (POST /data-model/serialize)
  Timers,       \* threading.Timer objects
  Background,   \* the periodic sync thread: {bg}, or {} when it never ticks
  main,         \* the process's main thread: boot, then atexit
  NoTimer,      \* None in _sync_timer
  Empty, Torn,  \* contents that are not a snapshot of the database
  MaxDb,        \* bound: CRUD commits
  MaxDbFaults,  \* bound: database errors met while a writer reads it
  MaxIoFaults,  \* bound: failed opens or writes of the file
  MaxCrashes    \* bound: process kills

Threads == Clients \cup Savers \cup Timers \cup Background \cup {main}
Contents == Nat \cup {Empty, Torn}

ASSUME Sentinels ==
  /\ Empty \notin Nat /\ Torn \notin Nat /\ Empty # Torn
  /\ NoTimer \notin Timers
ASSUME Roles ==
  /\ Clients \cap Savers = {} /\ Clients \cap Timers = {} /\ Clients \cap Background = {}
  /\ Savers \cap Timers = {} /\ Savers \cap Background = {} /\ Timers \cap Background = {}
  /\ main \notin Clients \cup Savers \cup Timers \cup Background
ASSUME Bounds ==
  /\ MaxDb \in Nat /\ MaxDbFaults \in Nat /\ MaxIoFaults \in Nat /\ MaxCrashes \in Nat

VARIABLES
  db,        \* version of the sites/equipment/points tables
  graph,     \* Brick triples in _graph
  file,      \* config/data_model.ttl
  timer,     \* _sync_timer
  phase,     \* "down", "boot", "serving", "draining" or "exit"
  pc,        \* where each thread is
  buf,       \* the text a writer has serialized and not yet written
  faults,    \* faults met so far, by kind
  start,     \* history: database version when the thread began its write
  bootDb,    \* history: database version at the last boot
  races      \* history: what may cost a change, met since the last boot

vars == <<db, graph, file, timer, phase, pc, buf, faults, start, bootDb, races>>
history == <<start, bootDb, races>>

WritePcs == {"sync", "serialize", "truncate", "write"}
Pcs == WritePcs \cup {"idle", "schedule", "armed", "flush", "clear", "wait", "dead", "booted"}
Phases == {"down", "boot", "serving", "draining", "exit"}
FaultKinds == {"db", "io", "crash"}
\* A timer callback that found no timer; two threads in write_ttl_to_file.
Races == {"emptyFlush", "overlap"}
MaxFaults == [db |-> MaxDbFaults, io |-> MaxIoFaults, crash |-> MaxCrashes]

Fault(kind) ==
  /\ faults[kind] < MaxFaults[kind]
  /\ faults' = [faults EXCEPT ![kind] = @ + 1]

Init ==
  /\ db = 0
  /\ graph = Empty
  /\ file \in {0, Empty}
  /\ timer = NoTimer
  /\ phase = "down"
  /\ pc = [t \in Threads |-> "idle"]
  /\ buf = [t \in Threads |-> Empty]
  /\ faults = [k \in FaultKinds |-> 0]
  /\ start = [t \in Threads |-> 0]
  /\ bootDb = 0
  /\ races = {}

------------------------------------------------------------------------------
\* write_ttl_to_file, called by every kind of writer.

Writing(t) == pc[t] \in WritePcs

\* The history of a thread that enters write_ttl_to_file.
NoteBegin(t) ==
  /\ start' = [start EXCEPT ![t] = db]
  /\ races' = races \cup
       {r \in {"overlap"} : \E u \in Threads \ {t} : Writing(u)}

\* A caller at pc "from" enters write_ttl_to_file.
BeginWrite(t, from) ==
  /\ pc[t] = from
  /\ pc' = [pc EXCEPT ![t] = "sync"]
  /\ NoteBegin(t)

\* Mutant: the periodic loop runs once.
AfterWriteOnce(t) ==
  CASE t \in Background -> "idle"
    [] t \in Savers -> "idle"
    [] t = main /\ phase = "boot" -> "booted"
    [] OTHER -> "clear"

\* Where a writer goes when write_ttl_to_file returns: the callers that go
\* through _do_sync still have to clear _sync_timer.
AfterWrite(t) ==
  CASE t \in Background -> "wait"
    [] t \in Savers -> "idle"
    [] t = main /\ phase = "boot" -> "booted"
    [] OTHER -> "clear"

\* build_ttl_from_db: what the tables hold now.
BuildNothing == Empty                                    \* mutant: triples dropped, not read back
BuildOnce == IF graph \in Nat THEN graph ELSE db         \* mutant: read only when the graph has none
BuildFromDb == db

\* sync_brick_from_db: drop the site# triples, read the tables, parse them
\* back, all under _graph_lock.
SyncBrick(t) ==
  /\ pc[t] = "sync"
  /\ graph' = BuildFromDb
  /\ pc' = [pc EXCEPT ![t] = "serialize"]
  /\ UNCHANGED <<db, file, timer, phase, buf, faults, history>>

\* serialize_to_ttl takes _graph_lock again: another writer, or another
\* writer's failed sync, may have changed the graph in between.
Serialize(t) ==
  /\ pc[t] = "serialize"
  /\ buf' = [buf EXCEPT ![t] = graph]
  /\ pc' = [pc EXCEPT ![t] = "truncate"]
  /\ UNCHANGED <<db, graph, file, timer, phase, faults, history>>

\* Path.write_text, part one: open(..., "w") truncates.
Truncate(t) ==
  /\ pc[t] = "truncate"
  /\ file' = Empty
  /\ pc' = [pc EXCEPT ![t] = "write"]
  /\ UNCHANGED <<db, graph, timer, phase, buf, faults, history>>

\* Path.write_text, part two: the text goes in from offset 0.  Over a
\* non-empty file (another writer got in between) the tail of a longer text
\* stays behind.
Write(t) ==
  /\ pc[t] = "write"
  /\ file' \in IF file \in {Empty, buf[t]} THEN {buf[t]} ELSE {buf[t], Torn}
  /\ buf' = [buf EXCEPT ![t] = Empty]
  /\ pc' = [pc EXCEPT ![t] = AfterWrite(t)]
  /\ UNCHANGED <<db, graph, timer, phase, faults, history>>

\* The open or the write raises OSError: write_ttl_to_file records the error
\* and returns False; no caller retries.
WriteFails(t) ==
  /\ \/ pc[t] = "truncate" /\ file' = file
     \/ pc[t] = "write" /\ file' \in {file, Torn}
  /\ Fault("io")
  /\ buf' = [buf EXCEPT ![t] = Empty]
  /\ pc' = [pc EXCEPT ![t] = AfterWrite(t)]
  /\ UNCHANGED <<db, graph, timer, phase, history>>

\* Volatile state of a dead process.
Down ==
  /\ phase' = "down"
  /\ graph' = Empty
  /\ timer' = NoTimer
  /\ pc' = [t \in Threads |-> "idle"]
  /\ buf' = [t \in Threads |-> Empty]

\* The database raises while a writer rebuilds the Brick triples: the old ones
\* are already gone.  The exception passes through write_ttl_to_file:
\* _do_sync swallows it, _sync_loop has no handler and its thread ends, a
\* request answers 500, and a boot fails.
SyncFails(t) ==
  /\ pc[t] = "sync"
  /\ Fault("db")
  /\ \/ /\ t = main /\ phase = "boot"
        /\ Down
     \/ /\ ~(t = main /\ phase = "boot")
        /\ graph' = Empty
        /\ pc' = [pc EXCEPT ![t] = IF t \in Background THEN "dead" ELSE AfterWrite(t)]
        /\ UNCHANGED <<timer, phase, buf>>
  /\ UNCHANGED <<db, file, history>>

------------------------------------------------------------------------------
\* CRUD requests and the debounce timer (data_model_ttl.py).

\* Mutant: a handler that forgets sync_ttl_to_file.
CommitOnly(c) ==
  /\ phase = "serving"
  /\ pc[c] = "idle"
  /\ db < MaxDb
  /\ db' = db + 1
  /\ UNCHANGED <<graph, file, timer, phase, pc, buf, faults, history>>

\* A CRUD handler commits; it calls sync_ttl_to_file afterwards.
Commit(c) ==
  /\ phase = "serving"
  /\ pc[c] = "idle"
  /\ db < MaxDb
  /\ db' = db + 1
  /\ pc' = [pc EXCEPT ![c] = "schedule"]
  /\ UNCHANGED <<graph, file, timer, phase, buf, faults, history>>

\* Mutant: a cancelled timer that never gets back to a known state.
CancelHangs(p, t) ==
  IF t \in Timers /\ p[t] = "armed" THEN [p EXCEPT ![t] = "cancelled"] ELSE p

\* Timer.cancel() of thread t in state p: it stops a timer that has not fired.
Cancel(p, t) == IF t \in Timers /\ p[t] = "armed" THEN [p EXCEPT ![t] = "idle"] ELSE p

\* sync_ttl_to_file: under _sync_timer_lock, cancel the previous timer and
\* start a new one.
Schedule(c) ==
  /\ pc[c] = "schedule"
  /\ \E t \in Timers :
       /\ pc[t] = "idle"
       /\ pc' = [Cancel(pc, timer) EXCEPT ![c] = "idle", ![t] = "armed"]
       /\ timer' = t
  /\ UNCHANGED <<db, graph, file, phase, buf, faults, history>>

\* The 0.25 s wait of a timer that was not cancelled ends.
Fire(t) ==
  /\ pc[t] = "armed"
  /\ pc' = [pc EXCEPT ![t] = "flush"]
  /\ UNCHANGED <<db, graph, file, timer, phase, buf, faults, history>>

\* t = _sync_timer; _sync_timer = None, under the lock.
PeekTimer == UNCHANGED timer                             \* mutant: the reference is kept
TakeTimer == timer' = NoTimer

\* _flush_sync as a timer callback: take whatever timer is current; write only
\* if there is one.
FlushSync(t) ==
  /\ pc[t] = "flush"
  /\ TakeTimer
  /\ \/ /\ timer = NoTimer
        /\ pc' = [pc EXCEPT ![t] = "idle"]
        /\ races' = races \cup {"emptyFlush"}
        /\ UNCHANGED start
     \/ /\ timer # NoTimer
        /\ pc' = [Cancel(pc, timer) EXCEPT ![t] = "sync"]
        /\ NoteBegin(t)
  /\ UNCHANGED <<db, graph, file, phase, buf, faults, bootDb>>

\* The last lines of _do_sync: _sync_timer = None, whatever it refers to.
ClearTimer(t) ==
  /\ pc[t] = "clear"
  /\ timer' = NoTimer
  /\ pc' = [pc EXCEPT ![t] = "idle"]
  /\ UNCHANGED <<db, graph, file, phase, buf, faults, history>>

\* A request that writes the file itself, without _do_sync.
Save(s) ==
  /\ phase = "serving"
  /\ BeginWrite(s, "idle")
  /\ UNCHANGED <<db, graph, file, timer, phase, buf, faults, bootDb>>

\* One period of _sync_loop.
Tick(b) ==
  /\ phase = "serving"
  /\ BeginWrite(b, "wait")
  /\ UNCHANGED <<db, graph, file, timer, phase, buf, faults, bootDb>>

------------------------------------------------------------------------------
\* The life of the process (api/main.py).

\* load_from_file: parse what the file holds (a torn file yields a partial
\* graph or none); with an empty graph, read the database.
LoadFromFile ==
  CASE file = Torn -> {Torn, db}
    [] file = Empty -> {db}
    [] OTHER -> {file}

\* lifespan start-up: load_from_file, then write_ttl_to_file.
Boot ==
  /\ phase = "down"
  /\ phase' = "boot"
  /\ graph' \in LoadFromFile
  /\ pc' = [pc EXCEPT ![main] = "sync"]
  /\ start' = [start EXCEPT ![main] = db]
  /\ bootDb' = db
  /\ races' = {}
  /\ UNCHANGED <<db, file, timer, buf, faults>>

\* start_sync_thread, and requests are let in.
Serve ==
  /\ pc[main] = "booted"
  /\ phase' = "serving"
  /\ pc' = [t \in Threads |-> CASE t = main -> "idle"
                                [] t \in Background -> "wait"
                                [] OTHER -> pc[t]]
  /\ UNCHANGED <<db, graph, file, timer, buf, faults, history>>

\* A graceful stop: no new requests, stop_sync_thread sets the event (nothing
\* joins the daemon thread).
Shutdown ==
  /\ phase = "serving"
  /\ phase' = "draining"
  /\ UNCHANGED <<db, graph, file, timer, pc, buf, faults, history>>

\* Mutant: timers are daemon threads, nobody waits for them.
AtExitUnjoined ==
  /\ phase = "draining"
  /\ \A t \in Clients \cup Savers : pc[t] = "idle"
  /\ phase' = "exit"
  /\ TakeTimer
  /\ pc' = [pc EXCEPT ![main] = IF timer = NoTimer THEN "idle" ELSE "sync"]
  /\ NoteBegin(main)
  /\ UNCHANGED <<db, graph, file, buf, faults, bootDb>>

\* The interpreter joins the timers, which are not daemon threads, and then
\* runs _flush_sync from atexit.
AtExit ==
  /\ phase = "draining"
  /\ \A t \in Clients \cup Savers \cup Timers : pc[t] = "idle"
  /\ phase' = "exit"
  /\ TakeTimer
  /\ pc' = [pc EXCEPT ![main] = IF timer = NoTimer THEN "idle" ELSE "sync"]
  /\ NoteBegin(main)
  /\ UNCHANGED <<db, graph, file, buf, faults, bootDb>>

\* The end of the interpreter kills the daemon thread wherever it is.
Exit ==
  /\ phase = "exit"
  /\ pc[main] = "idle"
  /\ Down
  /\ UNCHANGED <<db, file, faults, history>>

\* SIGKILL, a container kill or a power loss.
Crash ==
  /\ phase # "down"
  /\ Fault("crash")
  /\ Down
  /\ UNCHANGED <<db, file, history>>

------------------------------------------------------------------------------
WriterStep(t) == SyncBrick(t) \/ Serialize(t) \/ Truncate(t) \/ Write(t)
ThreadStep(t) == WriterStep(t) \/ Fire(t) \/ FlushSync(t) \/ ClearTimer(t) \/ Schedule(t)

Next ==
  \/ \E t \in Threads : WriterStep(t) \/ WriteFails(t) \/ SyncFails(t)
  \/ \E c \in Clients : Commit(c) \/ Schedule(c)
  \/ \E t \in Timers : Fire(t) \/ FlushSync(t)
  \/ \E t \in Threads : ClearTimer(t)
  \/ \E s \in Savers : Save(s)
  \/ \E b \in Background : Tick(b)
  \/ Boot \/ Serve \/ Shutdown \/ AtExit \/ Exit \/ Crash

Spec == Init /\ [][Next]_vars

\* Fairness: threads are scheduled, a timer's wait ends, the periodic thread's
\* wait ends, a process that is down is started again (restart: unless-stopped
\* in the compose file) and a start-up or a stop goes on.  Nothing makes a
\* client call, a fault happen or an operator stop the process.
Fairness ==
  /\ \A t \in Threads : WF_vars(ThreadStep(t))
  /\ \A b \in Background : WF_vars(Tick(b))
  /\ WF_vars(Boot) /\ WF_vars(Serve) /\ WF_vars(AtExit) /\ WF_vars(Exit)

FairSpec == Spec /\ Fairness

------------------------------------------------------------------------------
\* Properties.

\* Type invariant: every variable of the API process keeps its range.
TypeOK ==
  /\ db \in Nat
  /\ graph \in Contents
  /\ file \in Contents
  /\ timer \in Timers \cup {NoTimer}
  /\ phase \in Phases
  /\ pc \in [Threads -> Pcs]
  /\ buf \in [Threads -> Contents]
  /\ faults \in [FaultKinds -> Nat]
  /\ start \in [Threads -> Nat]
  /\ bootDb \in Nat
  /\ races \subseteq Races

\* _sync_timer never refers to a timer that has finished or was cancelled:
\* whoever finds one there finds work nobody has done yet.
TimerRefIsLive == timer # NoTimer => pc[timer] \in {"armed", "flush"}

\* A write carries every change committed before it began: the text a writer
\* is about to put on disk is no older than the database was when the writer
\* entered write_ttl_to_file, although the graph is shared and the lock is
\* released between the sync and the serialization.  (After a failed database
\* read by another thread the text may have no Brick triples at all.)
WriteCoversStart ==
  \A t \in Threads :
    pc[t] \in {"truncate", "write"} /\ buf[t] \in Nat => buf[t] >= start[t]

\* When the timers have been joined there is no pending sync left for the
\* atexit hook: if a change is still missing from the file then, no one will
\* write it.
NothingLeftAtExit == phase = "exit" => timer = NoTimer /\ pc[main] = "idle"

\* A change that is missing from the file of an idle, fault-free process was
\* lost to one of two races: a timer callback found _sync_timer cleared by
\* somebody else, or two threads were in write_ttl_to_file together.  Without
\* them, cancelling and replacing timers never loses a change: once every
\* thread is at rest the file is the database.
AtRest == \A t \in Threads : pc[t] \in {"idle", "wait", "dead"}
NoErrors == faults["db"] = 0 /\ faults["io"] = 0
FreshUnlessRaced ==
  phase = "serving" /\ NoErrors /\ races = {} /\ AtRest => file = db

\* The file refines the abstract one: what a writer puts there is a snapshot
\* taken since the last boot, so no thread or timer carries the state of a
\* previous process over a restart.
Snap == INSTANCE SnapshotFile WITH base <- bootDb
FileIsSnapshot == Snap!Spec

\* Whatever races lose, the periodic thread repairs while it lives: a process
\* that keeps serving, its periodic thread not ended by a database error, makes
\* the file equal to the database again and again.  (Not for good: each write
\* first truncates.)
KeepsCatchingUp ==
  <>[](phase = "serving" /\ \A b \in Background : pc[b] # "dead") => []<>(file = db)
==============================================================================
