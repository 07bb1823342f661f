------------------------------ MODULE ConfigStore ------------------------------
(***************************************************************************)
(* Where the platform configuration of the API process lives: the overlay  *)
(* that every reader of the settings merges (platform/config.py), the      *)
(* ofdd:platform_config triples of the in-memory graph                     *)
(* (graph_model.py) and config/data_model.ttl.  PUT /config                *)
(* (api/config.py), POST /data-model/reset and every writer of the file    *)
(* run in threads of their own; a lock guards single uses of the graph.    *)
(*                                                                         *)
(* A configuration maps the keys that are set to values.  The path through *)
(* the file turns decimals and timestamps into text that every reader of   *)
(* the settings converts back: a value here is what its readers make of it.*)
(***************************************************************************)
EXTENDS Integers

CONSTANTS
  Puts,        \* threads that serve PUT /config
  Resets,      \* threads that serve POST /data-model/reset
  Writers,     \* the other callers of write_ttl_to_file: timers, periodic thread, serialize
  main,        \* the main thread, at boot
  Keys, Values,
  Default,     \* DEFAULT_PLATFORM_CONFIG
  Stored,      \* configurations an earlier process left in the file
  Bodies,      \* bodies of PUT /config, the keys left out already dropped
  Empty, Torn, \* texts that are no serialization of a graph
  MaxPuts,     \* bound: PUT requests
  MaxFaults    \* bound: database errors, failed writes and kills

Configs == UNION {[S -> Values] : S \in SUBSET Keys}
NoConfig == [k \in {} |-> k]
Changers == Puts \cup Resets
Threads == Changers \cup Writers \cup {main}

ASSUME ConfigRoles ==
  /\ Puts \cap Resets = {} /\ Changers \cap Writers = {} /\ main \notin Changers \cup Writers
ASSUME ConfigValues ==
  /\ Default \in Configs \ {NoConfig} /\ Stored \subseteq Configs \ {NoConfig}
  /\ Bodies \subseteq Configs
  /\ Empty \notin Configs /\ Torn \notin Configs /\ Empty # Torn
ASSUME ConfigBounds == MaxPuts \in Nat /\ MaxFaults \in Nat

VARIABLES
  overlay,   \* _config_overlay
  graph,     \* the configuration triples of _graph
  file,      \* config/data_model.ttl: the configuration in it, Empty (absent, truncated) or Torn
  phase,     \* "down", "boot" or "up"
  pc,        \* where each thread is
  body,      \* the PUT's updates
  want,      \* merged, or config_snapshot
  buf,       \* the configuration in the text a writer holds
  puts, faults,
  acked,     \* history: the configuration last acknowledged, or booted with
  told,      \* history: per key, the value last acknowledged
  inflight,  \* history: what PUTs cut short by the last kill would have stored
  excuses    \* history: what went wrong since the file was last good

stores == <<overlay, graph, file>>
locals == <<body, want, buf>>
history == <<acked, told, inflight, excuses>>
vars == <<stores, phase, pc, locals, puts, faults, history>>

Pcs == {"idle", "clear", "set", "serialize", "truncate", "write", "overlay"}

Init ==
  /\ overlay = NoConfig /\ graph = NoConfig
  /\ file \in Stored \cup {Empty}
  /\ phase = "down"
  /\ pc = [t \in Threads |-> "idle"]
  /\ body = [t \in Threads |-> NoConfig]
  /\ want = [t \in Threads |-> NoConfig]
  /\ buf = [t \in Threads |-> NoConfig]
  /\ puts = 0 /\ faults = 0
  /\ acked = IF file = Empty THEN Default ELSE file
  /\ told = NoConfig
  /\ inflight = {}
  /\ excuses = IF file = Empty THEN {"new"} ELSE {}

Goto(t, l) == pc' = [pc EXCEPT ![t] = l]
\* The thread goes on, keeping its variables, or its call returns.
Step(t, l) == Goto(t, l) /\ UNCHANGED locals
Return(t) ==
  /\ Goto(t, "idle")
  /\ body' = [body EXCEPT ![t] = NoConfig]
  /\ want' = [want EXCEPT ![t] = NoConfig]
  /\ buf' = [buf EXCEPT ![t] = NoConfig]
Fault == faults < MaxFaults /\ faults' = faults + 1
Excuse(e, b) == excuses' = IF b THEN excuses \cup {e} ELSE excuses

Over(updates, base) ==
  [k \in DOMAIN updates \cup DOMAIN base |-> IF k \in DOMAIN updates THEN updates[k] ELSE base[k]]
OrDefault(c) == IF c = NoConfig THEN Default ELSE c

\* Another thread is changing the configuration.
Clash(t) == \E u \in Changers \ {t} : pc[u] # "idle"
\* The graph holds a configuration that is not acknowledged (or none).
PastSet(t) == pc[t] \in {"serialize", "truncate", "write", "overlay"}

------------------------------------------------------------------------------
\* PUT /config.

MergedBodyOnly(b) == b                                       \* mutant: keys left out are dropped
Merged(b) == Over(b, IF overlay # NoConfig THEN overlay ELSE OrDefault(graph))

\* An empty body stores the overlay again, if there is one.
PutRead(t, b) ==
  /\ phase = "up" /\ pc[t] = "idle" /\ t \in Puts
  /\ puts < MaxPuts /\ puts' = puts + 1
  /\ b = NoConfig => overlay # NoConfig
  /\ body' = [body EXCEPT ![t] = b]
  /\ want' = [want EXCEPT ![t] = IF b = NoConfig THEN overlay ELSE Merged(b)]
  /\ Goto(t, "set")
  /\ Excuse("clash", Clash(t))
  /\ UNCHANGED <<stores, phase, buf, faults, acked, told, inflight>>

\* Mutant: acknowledged before it is on disk.
SetGraphOnly(t) ==
  /\ pc[t] = "set"
  /\ graph' = want[t]
  /\ Step(t, IF t \in Puts THEN "overlay" ELSE "serialize")
  /\ UNCHANGED <<overlay, file, phase, puts, faults, history>>

\* set_config_in_graph; then write_ttl_to_file.
SetGraph(t) ==
  /\ pc[t] = "set"
  /\ graph' = want[t]
  /\ Step(t, "serialize")
  /\ UNCHANGED <<overlay, file, phase, puts, faults, history>>

\* set_config_overlay, and the answer.
SetOverlay(t) ==
  /\ pc[t] = "overlay"
  /\ overlay' = want[t]
  /\ acked' = want[t]
  /\ told' = Over(body[t], told)
  /\ Return(t)
  /\ UNCHANGED <<graph, file, phase, puts, faults, inflight, excuses>>

------------------------------------------------------------------------------
\* reset_graph_to_db_only, from POST /data-model/reset.

SnapshotRaw == graph                                         \* mutant: no defaults for an empty graph
SnapshotNone == Default                                      \* mutant: back to the defaults
Snapshot == OrDefault(graph)

ResetRead(t) ==
  /\ phase = "up" /\ pc[t] = "idle" /\ t \in Resets
  /\ want' = [want EXCEPT ![t] = Snapshot]
  /\ Goto(t, "clear")
  /\ Excuse("clash", Clash(t))
  /\ UNCHANGED <<stores, phase, body, buf, puts, faults, acked, told, inflight>>

\* Until SetGraph the graph has no configuration.
ResetClear(t) ==
  /\ pc[t] = "clear"
  /\ graph' = NoConfig
  /\ Step(t, "set")
  /\ UNCHANGED <<overlay, file, phase, puts, faults, history>>

------------------------------------------------------------------------------
\* write_ttl_to_file.

BeginWrite(t) ==
  /\ phase = "up" /\ pc[t] = "idle" /\ t \in Writers
  /\ Step(t, "serialize")
  /\ UNCHANGED <<stores, phase, puts, faults, history>>

Serialize(t) ==
  /\ pc[t] = "serialize"
  /\ buf' = [buf EXCEPT ![t] = graph]
  /\ Goto(t, "truncate")
  /\ UNCHANGED <<stores, phase, body, want, puts, faults, history>>

\* The database is read by the serialization, and by a reset once it has
\* cleared the graph.  At boot the error ends the process.
DbFails(t) ==
  /\ pc[t] = "serialize" \/ (pc[t] = "set" /\ t \in Resets)
  /\ Fault
  /\ Return(t)
  /\ Excuse("failed", t \in Changers)
  /\ IF t = main THEN phase' = "down" /\ overlay' = NoConfig /\ graph' = NoConfig
                 ELSE UNCHANGED <<phase, overlay, graph>>
  /\ UNCHANGED <<file, puts, acked, told, inflight>>

\* Opening the file empties it.
Truncate(t) ==
  /\ pc[t] = "truncate"
  /\ file' = Empty
  /\ Step(t, "write")
  /\ excuses' = excuses
       \cup {e \in {"overlap"} : \E u \in Threads \ {t} : pc[u] = "write"}
       \cup {e \in {"stale"} : buf[t] # graph}
       \cup {e \in {"bare"} : buf[t] = NoConfig}
  /\ UNCHANGED <<overlay, graph, phase, puts, faults, acked, told, inflight>>

\* A PUT with updates goes on to the overlay.
AfterWriteSilent(t) == Return(t)                             \* mutant: the overlay is not set
AfterWrite(t) == IF t \in Puts /\ body[t] # NoConfig THEN Step(t, "overlay") ELSE Return(t)

\* Over a text that another thread wrote meanwhile, its tail may remain.
Write(t) ==
  /\ pc[t] = "write"
  /\ file' = buf[t] \/ (file # Empty /\ file' = Torn)
  /\ AfterWrite(t)
  /\ phase' = IF t = main THEN "up" ELSE phase
  /\ excuses' = IF t = main THEN {} ELSE excuses
  /\ UNCHANGED <<overlay, graph, puts, faults, acked, told, inflight>>

\* The open or the write raises: reported to the caller, which at boot ignores
\* it.  (The copy tried under /tmp is read by nobody.)
WriteFails(t) ==
  /\ pc[t] \in {"truncate", "write"}
  /\ Fault
  /\ file' \in {file} \cup {f \in {Torn} : pc[t] = "write"}
  /\ Return(t)
  /\ phase' = IF t = main THEN "up" ELSE phase
  /\ Excuse("failed", t \in Changers \/ pc[t] = "write")
  /\ UNCHANGED <<overlay, graph, puts, acked, told, inflight>>

------------------------------------------------------------------------------
\* lifespan.

\* load_from_file: a torn text gives the part that parses.
Loaded ==
  CASE file = Empty -> {Default}
    [] file = Torn -> {OrDefault(c) : c \in Configs}
    [] OTHER -> {OrDefault(file)}

Boot ==
  /\ phase = "down" /\ phase' = "boot"
  /\ graph' \in Loaded
  /\ overlay' = graph'
  /\ acked' = graph' /\ told' = NoConfig /\ inflight' = {}
  /\ Step(main, "serialize")
  /\ UNCHANGED <<file, puts, faults, excuses>>

Crash ==
  /\ phase # "down" /\ phase' = "down"
  /\ Fault
  /\ overlay' = NoConfig /\ graph' = NoConfig
  /\ LET cut == \E t \in Threads : pc[t] = "write" IN
       /\ file' \in {file} \cup {f \in {Torn} : cut}
       /\ Excuse("cut", cut)
  /\ inflight' = {want[t] : t \in {u \in Puts : PastSet(u)}}
  /\ pc' = [t \in Threads |-> "idle"]
  /\ body' = [t \in Threads |-> NoConfig] /\ want' = body' /\ buf' = body'
  /\ UNCHANGED <<puts, acked, told>>

ThreadStep(t) ==
  \/ \E b \in Bodies : PutRead(t, b)
  \/ SetGraph(t) \/ SetOverlay(t) \/ ResetRead(t) \/ ResetClear(t)
  \/ BeginWrite(t) \/ Serialize(t) \/ DbFails(t) \/ Truncate(t) \/ Write(t) \/ WriteFails(t)

Next == (\E t \in Threads : ThreadStep(t)) \/ Boot \/ Crash

Spec == Init /\ [][Next]_vars

------------------------------------------------------------------------------
\* A change under way never stores an empty configuration.
TypeOK ==
  /\ overlay \in Configs /\ graph \in Configs
  /\ file \in Configs \cup {Empty, Torn}
  /\ phase \in {"down", "boot", "up"}
  /\ pc \in [Threads -> Pcs]
  /\ body \in [Threads -> Configs] /\ want \in [Threads -> Configs] /\ buf \in [Threads -> Configs]
  /\ \A t \in Threads : pc[t] \in {"clear", "set", "overlay"} => want[t] # NoConfig
  /\ puts \in Nat /\ faults \in Nat
  /\ acked \in Configs /\ told \in Configs
  /\ inflight \subseteq Configs

AtRest == phase = "up" /\ \A t \in Threads : pc[t] = "idle"

\* GET /config, the graph and the file agree, on what was acknowledged last,
\* whenever no request is under way - unless requests that change the
\* configuration overlapped, one failed half way, or a text was cut or older
\* than the graph when it was written.
TogetherAtRest ==
  AtRest /\ excuses = {} => overlay = acked /\ graph = acked /\ file = acked

\* "RDF / data_model.ttl is the persisted source of truth": a restart brings
\* back what was acknowledged last, or what a PUT under way was storing, under
\* the same provisos.
BootKeepsAcked ==
  [][phase = "down" /\ phase' = "boot" /\ excuses = {} => graph' \in {acked} \cup inflight]_vars

\* "Omitted keys are unchanged": under the same provisos, a key has the value of
\* the last acknowledged PUT that named it, whatever other PUTs came since.
OmittedKeysKept ==
  phase = "up" /\ excuses = {} => \A k \in DOMAIN told : k \in DOMAIN overlay /\ overlay[k] = told[k]
==============================================================================
