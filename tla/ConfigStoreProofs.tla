-------------------------- MODULE ConfigStoreProofs --------------------------
(***************************************************************************)
(* The invariants of ConfigStore for any configurations and any number of  *)
(* threads.  The inductive invariant follows what is acknowledged, or      *)
(* being stored, through the overlay, the graph, the texts that writers    *)
(* hold and the file, as long as nothing that excuses a difference has     *)
(* happened.                                                               *)
(***************************************************************************)
EXTENDS ConfigStore, TLAPS

Roles ==
  /\ \A t \in Threads : /\ pc[t] = "clear" => t \in Resets
                        /\ pc[t] = "set" => t \in Changers
                        /\ pc[t] = "overlay" => t \in Puts
  /\ phase = "down" => \A t \in Threads : pc[t] = "idle"
  /\ phase = "boot" => /\ pc[main] \in {"serialize", "truncate", "write"}
                       /\ \A t \in Threads \ {main} : pc[t] = "idle"
  /\ phase = "up" => pc[main] = "idle"

\* No empty configuration is acknowledged or on its way.
NonEmpty ==
  /\ acked # NoConfig /\ NoConfig \notin inflight
  /\ \A c \in Changers : pc[c] # "idle" => want[c] # NoConfig
  /\ phase # "down" => overlay = acked

\* The write of the boot makes the file good, whatever it was before.
BootShape ==
  phase = "boot" =>
    /\ graph = acked /\ told = NoConfig
    /\ pc[main] \in {"truncate", "write"} => buf[main] = graph
    /\ pc[main] = "write" => file = Empty

Good == excuses = {}

\* At most one change is under way, and at most one write.
OneAtATime ==
  Good => /\ \A c, u \in Changers : pc[c] # "idle" /\ pc[u] # "idle" => c = u
          /\ \A t, u \in Threads : pc[t] = "write" /\ pc[u] = "write" => t = u

\* A reset stores what was acknowledged, a PUT its body over it.
WantShape ==
  Good /\ phase # "down" =>
    /\ \A r \in Resets : pc[r] # "idle" => want[r] = acked
    /\ \A p \in Puts : pc[p] # "idle" => want[p] = Over(body[p], acked)

GraphShape ==
  Good /\ phase # "down" =>
    /\ (\A c \in Changers : ~ PastSet(c) /\ ~ (c \in Resets /\ pc[c] = "set")) => graph = acked
    /\ \A c \in Changers : PastSet(c) => graph = want[c]
    /\ \A r \in Resets : pc[r] = "set" => graph = NoConfig

\* Acknowledged, or being stored by a PUT.
Current(v) == v = acked \/ \E p \in Puts : PastSet(p) /\ v = want[p]

FileShape ==
  Good /\ phase # "down" =>
    /\ (\A t \in Threads : pc[t] # "write") => Current(file)
    /\ \A p \in Puts : pc[p] = "overlay" /\ (\A t \in Threads : pc[t] # "write") => file = want[p]
    /\ \A t \in Threads : pc[t] = "write" =>
         /\ file = Empty /\ Current(buf[t])
         /\ \A p \in Puts : pc[p] = "overlay" => buf[t] = want[p]
         /\ t \in Changers => buf[t] = want[t]

DownShape == Good /\ phase = "down" => file \in {acked} \cup inflight

Agrees == Good /\ phase # "down" => \A k \in DOMAIN told : k \in DOMAIN overlay /\ overlay[k] = told[k]

Stores == OneAtATime /\ WantShape /\ GraphShape /\ FileShape /\ DownShape /\ Agrees

IInv == TypeOK /\ Roles /\ NonEmpty /\ BootShape /\ Stores

------------------------------------------------------------------------------
\* What Over and OrDefault return.

LEMMA ConfigMember ==
  ASSUME NEW c
  PROVE  c \in Configs <=> /\ c = [k \in DOMAIN c |-> c[k]]
                           /\ DOMAIN c \subseteq Keys
                           /\ \A k \in DOMAIN c : c[k] \in Values
  BY DEF Configs

LEMMA NoConfigIsConfig == NoConfig \in Configs /\ DOMAIN NoConfig = {}
  BY ConfigMember DEF NoConfig

LEMMA SomeKey ==
  ASSUME NEW c \in Configs, c # NoConfig
  PROVE  DOMAIN c # {}
  BY ConfigMember, NoConfigIsConfig DEF NoConfig

LEMMA OverType ==
  ASSUME NEW b \in Configs, NEW c \in Configs
  PROVE  Over(b, c) \in Configs /\ DOMAIN Over(b, c) = DOMAIN b \cup DOMAIN c
  <1>1. /\ DOMAIN b \subseteq Keys /\ \A k \in DOMAIN b : b[k] \in Values
        /\ DOMAIN c \subseteq Keys /\ \A k \in DOMAIN c : c[k] \in Values
    BY ConfigMember
  <1>2. Over(b, c) = [k \in DOMAIN Over(b, c) |-> Over(b, c)[k]]
    BY DEF Over
  <1>3. \A k \in DOMAIN Over(b, c) : Over(b, c)[k] \in Values
    BY <1>1 DEF Over
  <1>4. DOMAIN Over(b, c) = DOMAIN b \cup DOMAIN c
    BY DEF Over
  <1> QED BY <1>1, <1>2, <1>3, <1>4, ConfigMember

LEMMA OverNothing ==
  ASSUME NEW c \in Configs
  PROVE  Over(NoConfig, c) = c
  BY ConfigMember, NoConfigIsConfig DEF Over

LEMMA OverNonEmpty ==
  ASSUME NEW b \in Configs, NEW c \in Configs, c # NoConfig
  PROVE  Over(b, c) # NoConfig
  BY SomeKey, OverType, NoConfigIsConfig

LEMMA DefaultType ==
  ASSUME NEW c \in Configs
  PROVE  OrDefault(c) \in Configs \ {NoConfig}
  BY ConfigValues DEF OrDefault

LEMMA MergedType ==
  ASSUME TypeOK, NEW b \in Configs
  PROVE  Merged(b) \in Configs \ {NoConfig}
  <1> DEFINE base == IF overlay # NoConfig THEN overlay ELSE OrDefault(graph)
  <1>1. base \in Configs \ {NoConfig}
    BY DefaultType DEF TypeOK
  <1>2. Merged(b) = Over(b, base)
    BY DEF Merged
  <1> HIDE DEF base
  <1> QED BY <1>1, <1>2, OverType, OverNonEmpty

------------------------------------------------------------------------------
\* Every step keeps the types, and what is on its way is not empty.

LEMMA Members ==
  /\ Puts \subseteq Changers /\ Resets \subseteq Changers /\ Changers \subseteq Threads
  /\ Puts \cap Resets = {} /\ main \in Threads \ Changers /\ main \notin Writers
  /\ Writers \cap Changers = {} /\ Writers \subseteq Threads
  BY ConfigRoles DEF Changers, Threads

\* What Goto, Step and Return do to the threads.
LEMMA Moves ==
  ASSUME TypeOK, NEW t \in Threads
  PROVE  /\ \A l \in Pcs : Goto(t, l) => /\ pc' \in [Threads -> Pcs] /\ pc'[t] = l
                                         /\ \A u \in Threads \ {t} : pc'[u] = pc[u]
         /\ \A l \in Pcs : Step(t, l) => /\ pc' \in [Threads -> Pcs] /\ pc'[t] = l
                                         /\ \A u \in Threads \ {t} : pc'[u] = pc[u]
                                         /\ UNCHANGED <<body, want, buf>>
         /\ Return(t) => /\ pc' \in [Threads -> Pcs] /\ pc'[t] = "idle"
                         /\ \A u \in Threads \ {t} : /\ pc'[u] = pc[u] /\ body'[u] = body[u]
                                                     /\ want'[u] = want[u] /\ buf'[u] = buf[u]
                         /\ body' \in [Threads -> Configs]
                         /\ want' \in [Threads -> Configs]
                         /\ buf' \in [Threads -> Configs]
  BY NoConfigIsConfig DEF TypeOK, Goto, Return, Step, Pcs, locals

LEMMA TypeStep ==
  ASSUME TypeOK, NonEmpty, [Next]_vars
  PROVE  TypeOK'
  <1> USE Members DEF TypeOK
  <1>0. /\ Fault => faults' \in Nat
        /\ body \in [Threads -> Configs] /\ NoConfig \in Configs
    BY NoConfigIsConfig DEF Fault
  <1>1. ASSUME NEW t \in Threads, ThreadStep(t) PROVE TypeOK'
    <2>1. CASE \E b \in Bodies : PutRead(t, b)
      <3>1. PICK b \in Bodies : PutRead(t, b)
        BY <2>1
      <3>2. b \in Configs /\ Merged(b) \in Configs \ {NoConfig}
        BY ConfigValues, MergedType
      <3>3. want'[t] \in Configs \ {NoConfig} /\ want' \in [Threads -> Configs]
            /\ \A u \in Threads \ {t} : want'[u] = want[u]
        BY <3>1, <3>2 DEF PutRead
      <3> QED BY <3>1, <3>2, <3>3, Moves DEF PutRead, Pcs, stores
    <2>2. CASE SetGraph(t)
      BY <2>2, Moves DEF SetGraph, Pcs, locals, history
    <2>3. CASE SetOverlay(t)
      <3>1. Over(body[t], told) \in Configs
        BY OverType
      <3> QED BY <2>3, Moves, <3>1 DEF SetOverlay, Pcs
    <2>4. CASE ResetRead(t)
      <3>1. Snapshot \in Configs \ {NoConfig}
        BY DefaultType DEF Snapshot
      <3> QED BY <2>4, Moves, <3>1 DEF ResetRead, Pcs, stores
    <2>5. CASE ResetClear(t)
      BY <2>5, Moves, <1>0 DEF ResetClear, Pcs, locals, history
    <2>6. CASE BeginWrite(t)
      BY <2>6, Moves DEF BeginWrite, Pcs, stores, locals, history
    <2>7. CASE Serialize(t)
      BY <2>7, Moves DEF Serialize, Pcs, stores, history
    <2>8. CASE DbFails(t)
      BY <2>8, Moves, <1>0 DEF DbFails, Pcs
    <2>9. CASE Truncate(t)
      BY <2>9, Moves DEF Truncate, Pcs, locals
    <2>10. CASE Write(t)
      <3>1. file' \in Configs \cup {Torn} /\ phase' \in {"down", "boot", "up"}
        BY <2>10 DEF Write
      <3>2. CASE t \in Puts /\ body[t] # NoConfig
        <4>1. Step(t, "overlay")
          BY <2>10, <3>2 DEF Write, AfterWrite
        <4>2. want[t] # NoConfig
          BY <2>10, <3>2 DEF Write, NonEmpty
        <4> QED BY <2>10, Moves, <3>1, <4>1, <4>2 DEF Write, Pcs, locals
      <3>3. CASE ~ (t \in Puts /\ body[t] # NoConfig)
        <4>1. Return(t)
          BY <2>10, <3>3 DEF Write, AfterWrite
        <4> QED BY <2>10, Moves, <3>1, <4>1 DEF Write, Pcs
      <3> QED BY <3>2, <3>3
    <2>11. CASE WriteFails(t)
      BY <2>11, Moves, <1>0 DEF WriteFails, Pcs
    <2> QED BY <1>1, <2>1, <2>2, <2>3, <2>4, <2>5, <2>6, <2>7, <2>8, <2>9, <2>10, <2>11
        DEF ThreadStep
  <1>2. CASE Boot
    <2>1. graph' \in Configs
      BY <1>2, DefaultType, ConfigValues DEF Boot, Loaded
    <2> QED BY <1>2, <2>1, <1>0 DEF Boot, Step, Goto, Pcs, locals
  <1>3. CASE Crash
    BY <1>3, <1>0 DEF Crash, Pcs, PastSet
  <1>4. CASE UNCHANGED vars
    BY <1>4 DEF vars, stores, locals, history
  <1> QED BY <1>1, <1>2, <1>3, <1>4 DEF Next

------------------------------------------------------------------------------
\* Who is where, and what the boot writes.

LEMMA ShapeStep ==
  ASSUME TypeOK, TypeOK', Roles, NonEmpty, BootShape, [Next]_vars
  PROVE  Roles' /\ NonEmpty' /\ BootShape'
  <1> USE Members DEF Pcs
  <1>1. ASSUME NEW t \in Threads, ThreadStep(t) PROVE Roles' /\ NonEmpty' /\ BootShape'
    <2>0. /\ pc[t] # "idle" => phase # "down" /\ (phase = "boot" <=> t = main)
          /\ phase = "boot" => pc[main] \in {"serialize", "truncate", "write"}
      BY DEF Roles, TypeOK
    <2>1. CASE \E b \in Bodies : PutRead(t, b)
      <3>1. PICK b \in Bodies : PutRead(t, b)
        BY <2>1
      <3>2. Merged(b) # NoConfig /\ pc'[t] = "set" /\ want'[t] # NoConfig
            /\ \A u \in Threads \ {t} : pc'[u] = pc[u] /\ want'[u] = want[u]
        BY <3>1, MergedType, ConfigValues, Moves DEF PutRead, TypeOK
      <3> QED BY <3>1, <3>2 DEF PutRead, Roles, NonEmpty, BootShape, stores
    <2>2. CASE SetGraph(t)
      BY <2>2, <2>0, Moves DEF SetGraph, Roles, NonEmpty, BootShape, history
    <2>3. CASE SetOverlay(t)
      BY <2>3, <2>0, Moves DEF SetOverlay, Roles, NonEmpty, BootShape
    <2>4. CASE ResetRead(t)
      <3>1. Snapshot # NoConfig
        BY DefaultType DEF Snapshot, TypeOK
      <3>2. pc'[t] = "clear" /\ want'[t] # NoConfig
            /\ \A u \in Threads \ {t} : pc'[u] = pc[u] /\ want'[u] = want[u]
        BY <2>4, <3>1, Moves DEF ResetRead, TypeOK
      <3> QED BY <2>4, <3>2 DEF ResetRead, Roles, NonEmpty, BootShape, stores
    <2>5. CASE ResetClear(t)
      BY <2>5, <2>0, Moves DEF ResetClear, Roles, NonEmpty, BootShape, history
    <2>6. CASE BeginWrite(t)
      BY <2>6, Moves DEF BeginWrite, Roles, NonEmpty, BootShape, stores, history
    <2>7. CASE Serialize(t)
      <3>1. buf'[t] = graph
        BY <2>7 DEF Serialize, TypeOK
      <3> QED BY <2>7, <3>1, <2>0, Moves DEF Serialize, Roles, NonEmpty, BootShape, stores, history
    <2>8. CASE DbFails(t)
      <3>1. phase' = IF t = main THEN "down" ELSE phase
        BY <2>8 DEF DbFails
      <3>2. Roles'
        BY <2>8, <3>1, <2>0, Moves DEF DbFails, Roles
      <3>3. NonEmpty'
        BY <2>8, <3>1, <2>0, Moves DEF DbFails, NonEmpty
      <3>4. BootShape'
        BY <2>8, <3>1, <2>0, Moves DEF DbFails, BootShape
      <3> QED BY <3>2, <3>3, <3>4
    <2>9. CASE Truncate(t)
      BY <2>9, <2>0, Moves DEF Truncate, Roles, NonEmpty, BootShape
    <2>10. CASE Write(t)
      <3>1. /\ pc'[t] = IF t \in Puts /\ body[t] # NoConfig THEN "overlay" ELSE "idle"
            /\ \A u \in Threads \ {t} : pc'[u] = pc[u] /\ want'[u] = want[u]
            /\ pc'[t] = "overlay" => want'[t] = want[t]
        BY <2>10, Moves DEF Write, AfterWrite
      <3> QED BY <2>10, <2>0, <3>1 DEF Write, Roles, NonEmpty, BootShape
    <2>11. CASE WriteFails(t)
      BY <2>11, <2>0, Moves DEF WriteFails, Roles, NonEmpty, BootShape
    <2> QED BY <1>1, <2>1, <2>2, <2>3, <2>4, <2>5, <2>6, <2>7, <2>8, <2>9, <2>10, <2>11
        DEF ThreadStep
  <1>2. CASE Boot
    <2>1. graph' # NoConfig
      BY <1>2, DefaultType, ConfigValues DEF Boot, Loaded, TypeOK
    <2> QED BY <1>2, <2>1, Moves DEF Boot, Roles, NonEmpty, BootShape
  <1>3. CASE Crash
    <2>1. NoConfig \notin inflight'
      BY <1>3 DEF Crash, NonEmpty, PastSet
    <2> QED BY <1>3, <2>1 DEF Crash, Roles, NonEmpty, BootShape
  <1>4. CASE UNCHANGED vars
    BY <1>4 DEF vars, stores, locals, history, Roles, NonEmpty, BootShape
  <1> QED BY <1>1, <1>2, <1>3, <1>4 DEF Next

------------------------------------------------------------------------------
\* What each step does to the stores, as long as nothing excuses a difference.

LEMMA PutReadStep ==
  ASSUME IInv, NEW t \in Threads, NEW b \in Bodies, PutRead(t, b)
  PROVE  Stores'
  <1> USE Members DEF IInv
  <1> SUFFICES ASSUME Good' PROVE Stores'
    BY DEF Stores, OneAtATime, WantShape, GraphShape, FileShape, DownShape, Agrees
  <1>1. Good /\ \A u \in Changers : pc[u] = "idle"
    BY DEF PutRead, Excuse, Clash, Good
  <1>2. /\ pc'[t] = "set" /\ body'[t] = b /\ phase' = "up" /\ phase = "up"
        /\ \A u \in Threads \ {t} : pc'[u] = pc[u] /\ body'[u] = body[u] /\ want'[u] = want[u]
        /\ want'[t] = IF b = NoConfig THEN overlay ELSE Merged(b)
        /\ UNCHANGED <<overlay, graph, file, buf, acked, told, inflight>>
    BY Moves DEF PutRead, TypeOK, Pcs, stores
  <1>3. overlay = acked /\ acked # NoConfig /\ acked \in Configs
    BY <1>2 DEF NonEmpty, TypeOK
  <1>4. want'[t] = Over(b, acked)
    BY <1>2, <1>3, OverNothing DEF Merged
  <1>5. OneAtATime' /\ WantShape'
    BY <1>1, <1>2, <1>4 DEF Stores, OneAtATime, WantShape, PutRead
  <1>6. GraphShape' /\ FileShape' /\ DownShape' /\ Agrees'
    BY <1>1, <1>2 DEF Stores, GraphShape, FileShape, DownShape, Agrees, PastSet, Current, PutRead
  <1> QED BY <1>5, <1>6 DEF Stores

LEMMA SetGraphStep ==
  ASSUME IInv, NEW t \in Threads, SetGraph(t)
  PROVE  Stores'
  <1> USE Members DEF IInv
  <1> SUFFICES ASSUME Good' PROVE Stores'
    BY DEF Stores, OneAtATime, WantShape, GraphShape, FileShape, DownShape, Agrees
  <1>1. Good /\ t \in Changers /\ \A u \in Changers \ {t} : pc[u] = "idle"
    BY DEF SetGraph, Good, Roles, Stores, OneAtATime, history
  <1>2. /\ pc[t] = "set" /\ pc'[t] = "serialize" /\ graph' = want[t]
        /\ \A u \in Threads \ {t} : pc'[u] = pc[u]
        /\ UNCHANGED <<overlay, file, phase, body, want, buf, acked, told, inflight>>
    BY Moves DEF SetGraph, Pcs, history
  <1>3. OneAtATime' /\ WantShape' /\ GraphShape'
    BY <1>1, <1>2 DEF Stores, OneAtATime, WantShape, GraphShape, PastSet
  <1>4. FileShape' /\ DownShape' /\ Agrees'
    BY <1>1, <1>2 DEF Stores, FileShape, DownShape, Agrees, PastSet, Current, Roles
  <1> QED BY <1>3, <1>4 DEF Stores

LEMMA SetOverlayStep ==
  ASSUME IInv, NEW t \in Threads, SetOverlay(t)
  PROVE  Stores'
  <1> USE Members DEF IInv
  <1> SUFFICES ASSUME Good' PROVE Stores'
    BY DEF Stores, OneAtATime, WantShape, GraphShape, FileShape, DownShape, Agrees
  <1>1. Good /\ t \in Puts /\ \A u \in Changers \ {t} : pc[u] = "idle"
    BY DEF SetOverlay, Good, Roles, Stores, OneAtATime
  <1>2. /\ pc[t] = "overlay" /\ pc'[t] = "idle" /\ overlay' = want[t] /\ acked' = want[t]
        /\ told' = Over(body[t], told)
        /\ \A u \in Threads \ {t} : /\ pc'[u] = pc[u] /\ body'[u] = body[u]
                                    /\ want'[u] = want[u] /\ buf'[u] = buf[u]
        /\ UNCHANGED <<graph, file, phase, inflight>>
    BY Moves DEF SetOverlay
  <1>3. phase # "down" /\ PastSet(t)
    BY <1>2 DEF Roles, PastSet
  <1>4. OneAtATime' /\ WantShape' /\ GraphShape' /\ DownShape'
    BY <1>1, <1>2, <1>3 DEF Stores, OneAtATime, WantShape, GraphShape, DownShape, PastSet
  <1>5. FileShape'
    BY <1>1, <1>2, <1>3 DEF Stores, FileShape, PastSet, Current
  <1>6. Agrees'
    <2>1. want[t] = Over(body[t], acked) /\ overlay = acked
      BY <1>1, <1>2, <1>3 DEF Stores, WantShape, NonEmpty
    <2>2. \A k \in DOMAIN told : k \in DOMAIN overlay /\ overlay[k] = told[k]
      BY <1>1, <1>3 DEF Stores, Agrees
    <2>3. \A k \in DOMAIN told' : k \in DOMAIN overlay' /\ overlay'[k] = told'[k]
      BY <1>2, <2>1, <2>2 DEF Over
    <2> QED BY <2>3 DEF Agrees
  <1> QED BY <1>4, <1>5, <1>6 DEF Stores

LEMMA ResetReadStep ==
  ASSUME IInv, NEW t \in Threads, ResetRead(t)
  PROVE  Stores'
  <1> USE Members DEF IInv
  <1> SUFFICES ASSUME Good' PROVE Stores'
    BY DEF Stores, OneAtATime, WantShape, GraphShape, FileShape, DownShape, Agrees
  <1>1. Good /\ \A u \in Changers : pc[u] = "idle"
    BY DEF ResetRead, Excuse, Clash, Good
  <1>2. /\ t \in Resets /\ pc'[t] = "clear" /\ phase' = "up" /\ phase = "up"
        /\ \A u \in Threads \ {t} : pc'[u] = pc[u] /\ want'[u] = want[u]
        /\ want'[t] = Snapshot
        /\ UNCHANGED <<overlay, graph, file, body, buf, acked, told, inflight>>
    BY Moves DEF ResetRead, TypeOK, Pcs, stores
  <1>3. graph = acked /\ acked # NoConfig
    BY <1>1, <1>2 DEF Stores, GraphShape, PastSet, NonEmpty
  <1>4. want'[t] = acked
    BY <1>2, <1>3 DEF Snapshot, OrDefault
  <1>5. OneAtATime' /\ WantShape'
    BY <1>1, <1>2, <1>4 DEF Stores, OneAtATime, WantShape
  <1>6. GraphShape' /\ FileShape' /\ DownShape' /\ Agrees'
    BY <1>1, <1>2, <1>3 DEF Stores, GraphShape, FileShape, DownShape, Agrees, PastSet, Current
  <1> QED BY <1>5, <1>6 DEF Stores

LEMMA ResetClearStep ==
  ASSUME IInv, NEW t \in Threads, ResetClear(t)
  PROVE  Stores'
  <1> USE Members DEF IInv
  <1> SUFFICES ASSUME Good' PROVE Stores'
    BY DEF Stores, OneAtATime, WantShape, GraphShape, FileShape, DownShape, Agrees
  <1>1. Good /\ t \in Resets /\ \A u \in Changers \ {t} : pc[u] = "idle"
    BY DEF ResetClear, Good, Roles, Stores, OneAtATime, history
  <1>2. /\ pc[t] = "clear" /\ pc'[t] = "set" /\ graph' = NoConfig
        /\ \A u \in Threads \ {t} : pc'[u] = pc[u]
        /\ UNCHANGED <<overlay, file, phase, body, want, buf, acked, told, inflight>>
    BY Moves DEF ResetClear, Pcs, history
  <1>3. OneAtATime' /\ WantShape' /\ GraphShape'
    BY <1>1, <1>2 DEF Stores, OneAtATime, WantShape, GraphShape, PastSet
  <1>4. FileShape' /\ DownShape' /\ Agrees'
    BY <1>1, <1>2 DEF Stores, FileShape, DownShape, Agrees, PastSet, Current
  <1> QED BY <1>3, <1>4 DEF Stores

LEMMA BeginWriteStep ==
  ASSUME IInv, NEW t \in Threads, BeginWrite(t)
  PROVE  Stores'
  <1> USE Members DEF IInv
  <1>1. /\ t \notin Changers /\ pc'[t] = "serialize" /\ pc[t] = "idle"
        /\ \A u \in Threads \ {t} : pc'[u] = pc[u]
        /\ UNCHANGED <<overlay, graph, file, phase, body, want, buf, acked, told, inflight, excuses>>
    BY Moves DEF BeginWrite, Pcs, stores, history
  <1> QED BY <1>1 DEF Stores, OneAtATime, WantShape, GraphShape, FileShape, DownShape, Agrees,
                      Good, PastSet, Current

LEMMA SerializeStep ==
  ASSUME IInv, NEW t \in Threads, Serialize(t)
  PROVE  Stores'
  <1> USE Members DEF IInv
  <1>1. /\ pc'[t] = "truncate" /\ pc[t] = "serialize"
        /\ \A u \in Threads \ {t} : pc'[u] = pc[u] /\ buf'[u] = buf[u]
        /\ UNCHANGED <<overlay, graph, file, phase, body, want, acked, told, inflight, excuses>>
    BY Moves DEF Serialize, TypeOK, Pcs, stores, history
  <1>2. OneAtATime' /\ WantShape' /\ GraphShape'
    BY <1>1 DEF Stores, OneAtATime, WantShape, GraphShape, Good, PastSet
  <1>3. FileShape' /\ DownShape' /\ Agrees'
    BY <1>1 DEF Stores, FileShape, DownShape, Agrees, Good, PastSet, Current
  <1> QED BY <1>2, <1>3 DEF Stores

LEMMA DbFailsStep ==
  ASSUME IInv, NEW t \in Threads, DbFails(t)
  PROVE  Stores'
  <1> USE Members DEF IInv
  <1> SUFFICES ASSUME Good' PROVE Stores'
    BY DEF Stores, OneAtATime, WantShape, GraphShape, FileShape, DownShape, Agrees
  <1>1. Good /\ t \notin Changers /\ pc[t] = "serialize"
    BY DEF DbFails, Excuse, Good
  <1>2. /\ pc'[t] = "idle"
        /\ \A u \in Threads \ {t} : /\ pc'[u] = pc[u] /\ body'[u] = body[u]
                                    /\ want'[u] = want[u] /\ buf'[u] = buf[u]
        /\ UNCHANGED <<file, acked, told, inflight>>
    BY Moves DEF DbFails
  <1>3. CASE t = main
    <2>1. phase = "boot" /\ phase' = "down"
      BY <1>1, <1>3 DEF DbFails, Roles, TypeOK
    <2>2. \A u \in Threads \ {t} : pc[u] = "idle"
      BY <1>3, <2>1 DEF Roles
    <2>3. file = acked
      BY <1>1, <2>1, <2>2 DEF Stores, FileShape, Current, PastSet
    <2> QED BY <1>2, <2>1, <2>2, <2>3
        DEF Stores, OneAtATime, WantShape, GraphShape, FileShape, DownShape, Agrees
  <1>4. CASE t # main
    <2>1. UNCHANGED <<phase, overlay, graph>>
      BY <1>4 DEF DbFails
    <2> QED BY <1>1, <1>2, <2>1
        DEF Stores, OneAtATime, WantShape, GraphShape, FileShape, DownShape, Agrees, PastSet, Current
  <1> QED BY <1>3, <1>4

LEMMA TruncateStep ==
  ASSUME IInv, NEW t \in Threads, Truncate(t)
  PROVE  Stores'
  <1> USE Members DEF IInv
  <1> SUFFICES ASSUME Good' PROVE Stores'
    BY DEF Stores, OneAtATime, WantShape, GraphShape, FileShape, DownShape, Agrees
  <1>1. /\ Good /\ \A u \in Threads \ {t} : pc[u] # "write"
        /\ buf[t] = graph /\ graph # NoConfig
    BY DEF Truncate, Good
  <1>2. /\ pc[t] = "truncate" /\ pc'[t] = "write" /\ file' = Empty
        /\ \A u \in Threads \ {t} : pc'[u] = pc[u]
        /\ UNCHANGED <<overlay, graph, phase, body, want, buf, acked, told, inflight>>
    BY Moves DEF Truncate, Pcs
  <1>3. phase # "down"
    BY <1>2 DEF Roles
  <1>4. OneAtATime' /\ WantShape' /\ GraphShape' /\ DownShape' /\ Agrees'
    BY <1>1, <1>2, <1>3
       DEF Stores, OneAtATime, WantShape, GraphShape, DownShape, Agrees, PastSet
  <1>5. Current(graph)
    <2>1. CASE \E c \in Changers : PastSet(c)
      BY <1>1, <1>3, <2>1 DEF Stores, GraphShape, WantShape, Current, PastSet, Changers
    <2>2. CASE ~ \E c \in Changers : PastSet(c)
      BY <1>1, <1>3, <2>2 DEF Stores, GraphShape, Current
    <2> QED BY <2>1, <2>2
  <1>6. Current(graph)'
    BY <1>2, <1>5 DEF Current, PastSet
  <1>7. \A c \in Changers : PastSet(c) => graph = want[c]
    BY <1>1, <1>3 DEF Stores, GraphShape
  <1>8. FileShape'
    BY <1>1, <1>2, <1>6, <1>7 DEF FileShape, Current, PastSet
  <1> QED BY <1>4, <1>8 DEF Stores

LEMMA WriteStep ==
  ASSUME IInv, NEW t \in Threads, Write(t)
  PROVE  Stores'
  <1> USE Members DEF IInv
  <1>1. /\ pc[t] = "write" /\ file' \in {buf[t]} \cup {f \in {Torn} : file # Empty}
        /\ UNCHANGED <<overlay, graph, acked, told, inflight>>
    BY DEF Write
  <1>2. /\ \A u \in Threads \ {t} : /\ pc'[u] = pc[u] /\ body'[u] = body[u]
                                    /\ want'[u] = want[u] /\ buf'[u] = buf[u]
        /\ IF t \in Puts /\ body[t] # NoConfig
             THEN pc'[t] = "overlay" /\ UNCHANGED <<body, want, buf>>
             ELSE pc'[t] = "idle"
    BY Moves DEF Write, AfterWrite, Pcs
  <1>3. CASE t = main
    <2>1. phase = "boot" /\ phase' = "up" /\ \A u \in Threads : pc'[u] = "idle"
      BY <1>1, <1>2, <1>3 DEF Write, Roles, TypeOK
    <2>2. file' = acked /\ graph = acked /\ told = NoConfig
      BY <1>1, <1>3, <2>1 DEF BootShape
    <2> QED BY <1>1, <2>1, <2>2, NoConfigIsConfig
        DEF Stores, OneAtATime, WantShape, GraphShape, FileShape, DownShape, Agrees, Current, PastSet
  <1>4. CASE t # main
    <2> SUFFICES ASSUME Good' PROVE Stores'
      BY DEF Stores, OneAtATime, WantShape, GraphShape, FileShape, DownShape, Agrees
    <2>1. Good /\ phase' = phase /\ phase # "down"
      BY <1>1, <1>4 DEF Write, Good, Roles
    <2>2. /\ file = Empty /\ Current(buf[t]) /\ file' = buf[t]
          /\ \A p \in Puts : pc[p] = "overlay" => buf[t] = want[p]
          /\ t \in Changers => buf[t] = want[t]
          /\ \A u \in Threads \ {t} : pc[u] # "write"
      BY <1>1, <2>1 DEF Stores, FileShape, OneAtATime
    <2>3. OneAtATime' /\ WantShape' /\ DownShape' /\ Agrees'
      BY <1>1, <1>2, <2>1 DEF Stores, OneAtATime, WantShape, DownShape, Agrees
    <2>4. t \in Changers => graph = want[t] /\ \A u \in Changers \ {t} : pc[u] = "idle"
      BY <1>1, <2>1 DEF Stores, GraphShape, OneAtATime, PastSet
    <2>5. t \in Changers /\ pc'[t] = "idle" => want[t] = acked
      <3>1. body[t] = NoConfig /\ t \in Puts => want[t] = acked
        BY <1>1, <2>1, OverNothing DEF Stores, WantShape, TypeOK
      <3>2. t \in Resets => want[t] = acked
        BY <1>1, <2>1 DEF Stores, WantShape
      <3> QED BY <1>2, <3>1, <3>2 DEF Changers
    <2>6. GraphShape'
      <3>1. CASE t \in Changers /\ pc'[t] = "idle"
        BY <1>1, <1>2, <2>1, <2>4, <2>5, <3>1 DEF GraphShape, PastSet
      <3>2. CASE t \in Changers /\ pc'[t] # "idle"
        BY <1>1, <1>2, <2>1, <2>4, <3>2 DEF GraphShape, PastSet
      <3>3. CASE t \notin Changers
        BY <1>1, <1>2, <2>1, <3>3 DEF Stores, GraphShape, PastSet
      <3> QED BY <3>1, <3>2, <3>3
    <2>7. Current(file)'
      <3>1. CASE buf[t] = acked
        BY <1>1, <2>2, <3>1 DEF Current
      <3>2. ASSUME NEW p \in Puts, PastSet(p), buf[t] = want[p] PROVE Current(file)'
        <4>1. CASE p = t /\ pc'[t] = "idle"
          BY <1>1, <2>2, <2>5, <3>2, <4>1 DEF Current
        <4>2. CASE p # t \/ pc'[t] # "idle"
          <5>1. PastSet(p)' /\ want'[p] = want[p]
            BY <1>1, <1>2, <3>2, <4>2 DEF PastSet
          <5> QED BY <2>2, <3>2, <5>1 DEF Current
        <4> QED BY <4>1, <4>2
      <3> QED BY <2>2, <3>1, <3>2 DEF Current
    <2>8. \A p \in Puts : pc'[p] = "overlay" => file' = want'[p]
      BY <1>1, <1>2, <2>2
    <2>9. \A u \in Threads : pc'[u] # "write"
      BY <1>2, <2>2
    <2>10. FileShape'
      BY <2>7, <2>8, <2>9 DEF FileShape
    <2> QED BY <2>3, <2>6, <2>10 DEF Stores
  <1> QED BY <1>3, <1>4

LEMMA WriteFailsStep ==
  ASSUME IInv, NEW t \in Threads, WriteFails(t)
  PROVE  Stores'
  <1> USE Members DEF IInv
  <1> SUFFICES ASSUME Good' PROVE Stores'
    BY DEF Stores, OneAtATime, WantShape, GraphShape, FileShape, DownShape, Agrees
  <1>1. Good /\ t \notin Changers /\ pc[t] = "truncate"
    BY DEF WriteFails, Excuse, Good
  <1>2. /\ pc'[t] = "idle"
        /\ \A u \in Threads \ {t} : /\ pc'[u] = pc[u] /\ body'[u] = body[u]
                                    /\ want'[u] = want[u] /\ buf'[u] = buf[u]
        /\ UNCHANGED <<overlay, graph, file, acked, told, inflight>>
        /\ phase # "down" /\ phase' # "down"
    BY <1>1, Moves DEF WriteFails, Roles
  <1> QED BY <1>1, <1>2
      DEF Stores, OneAtATime, WantShape, GraphShape, FileShape, DownShape, Agrees, PastSet, Current

LEMMA BootLoads ==
  ASSUME IInv, Good, Boot
  PROVE  graph' = file /\ file \in {acked} \cup inflight
  <1>1. file \in {acked} \cup inflight
    BY DEF IInv, Stores, DownShape, Boot
  <1>2. file \in Configs \ {NoConfig}
    BY <1>1 DEF IInv, NonEmpty, TypeOK
  <1> QED BY <1>1, <1>2, ConfigValues DEF Boot, Loaded, OrDefault

LEMMA BootStep ==
  ASSUME IInv, Boot
  PROVE  Stores'
  <1> USE Members DEF IInv
  <1> SUFFICES ASSUME Good' PROVE Stores'
    BY DEF Stores, OneAtATime, WantShape, GraphShape, FileShape, DownShape, Agrees
  <1>1. Good /\ \A t \in Threads : pc[t] = "idle"
    BY DEF Boot, Good, Roles
  <1>2. /\ pc'[main] = "serialize" /\ \A u \in Threads \ {main} : pc'[u] = "idle"
        /\ acked' = graph' /\ told' = NoConfig /\ file' = file /\ phase' = "boot"
    BY <1>1, Moves DEF Boot, Pcs
  <1>3. graph' = file
    BY <1>1, BootLoads
  <1> QED BY <1>2, <1>3, NoConfigIsConfig
      DEF Stores, OneAtATime, WantShape, GraphShape, FileShape, DownShape, Agrees, PastSet, Current

LEMMA CrashStep ==
  ASSUME IInv, Crash
  PROVE  Stores'
  <1> USE Members DEF IInv
  <1> SUFFICES ASSUME Good' PROVE Stores'
    BY DEF Stores, OneAtATime, WantShape, GraphShape, FileShape, DownShape, Agrees
  <1>1. Good /\ \A t \in Threads : pc[t] # "write"
    BY DEF Crash, Excuse, Good
  <1>2. file' = file /\ acked' = acked /\ phase # "down" /\ phase' = "down"
    BY <1>1 DEF Crash
  <1>3. Current(file)
    BY <1>1, <1>2 DEF Stores, FileShape
  <1>4. file \in {acked} \cup inflight'
    BY <1>3 DEF Current, Crash
  <1>5. \A t \in Threads : pc'[t] = "idle"
    BY DEF Crash
  <1> QED BY <1>2, <1>4, <1>5
      DEF Stores, OneAtATime, WantShape, GraphShape, FileShape, DownShape, Agrees

------------------------------------------------------------------------------
LEMMA InitIInv == Init => IInv
  <1> SUFFICES ASSUME Init PROVE IInv
    OBVIOUS
  <1> USE Members DEF Init
  <1>1. TypeOK
    BY NoConfigIsConfig, ConfigValues DEF TypeOK, Pcs
  <1>2. Roles /\ NonEmpty /\ BootShape
    BY ConfigValues DEF Roles, NonEmpty, BootShape
  <1>3. Stores
    BY DEF Stores, Good, OneAtATime, WantShape, GraphShape, FileShape, DownShape, Agrees
  <1> QED BY <1>1, <1>2, <1>3 DEF IInv

LEMMA NextIInv ==
  ASSUME IInv, [Next]_vars
  PROVE  IInv'
  <1>1. TypeOK'
    BY TypeStep DEF IInv
  <1>2. Roles' /\ NonEmpty' /\ BootShape'
    BY <1>1, ShapeStep DEF IInv
  <1>3. ASSUME NEW t \in Threads, ThreadStep(t) PROVE Stores'
    BY <1>3, PutReadStep, SetGraphStep, SetOverlayStep, ResetReadStep, ResetClearStep, BeginWriteStep,
       SerializeStep, DbFailsStep, TruncateStep, WriteStep, WriteFailsStep DEF ThreadStep
  <1>4. ASSUME UNCHANGED vars PROVE Stores'
    <2>1. UNCHANGED <<overlay, graph, file, phase, pc, body, want, buf, acked, told, inflight, excuses>>
      BY <1>4 DEF vars, stores, locals, history
    <2> QED BY <2>1 DEF IInv, Stores, OneAtATime, WantShape, GraphShape, FileShape, DownShape,
                        Agrees, Good, PastSet, Current
  <1>5. Stores'
    BY <1>3, <1>4, BootStep, CrashStep DEF Next
  <1> QED BY <1>1, <1>2, <1>5 DEF IInv

LEMMA Invariance == Spec => []IInv
  BY InitIInv, NextIInv, PTL DEF Spec

\* Every variable keeps its type, and no change under way stores an empty
\* configuration (PUT /config and the reset, api/config.py and graph_model.py).
THEOREM ConfigTypeCorrect == Spec => []TypeOK
  <1>1. IInv => TypeOK
    BY DEF IInv
  <1> QED BY Invariance, <1>1, PTL

\* Overlay, graph and file agree on the last acknowledged configuration
\* whenever no request is under way and nothing excuses a difference.
THEOREM Together == Spec => []TogetherAtRest
  <1>1. IInv => TogetherAtRest
    <2> SUFFICES ASSUME IInv, AtRest, Good PROVE overlay = acked /\ graph = acked /\ file = acked
      BY DEF TogetherAtRest, Good
    <2> USE Members DEF IInv, AtRest
    <2>1. overlay = acked /\ graph = acked
      BY DEF NonEmpty, Stores, GraphShape, PastSet
    <2>2. file = acked
      BY DEF Stores, FileShape, Current, PastSet
    <2> QED BY <2>1, <2>2
  <1> QED BY Invariance, <1>1, PTL

\* A key keeps the value of the last acknowledged PUT that named it.
THEOREM OmittedKept == Spec => []OmittedKeysKept
  <1>1. IInv => OmittedKeysKept
    BY DEF IInv, Stores, Agrees, OmittedKeysKept, Good
  <1> QED BY Invariance, <1>1, PTL

\* A restart brings back what was acknowledged last, or what a PUT cut short
\* was storing.
THEOREM RestartKeeps == Spec => BootKeepsAcked
  <1>1. IInv /\ [Next]_vars
        => [phase = "down" /\ phase' = "boot" /\ excuses = {} => graph' \in {acked} \cup inflight]_vars
    <2> SUFFICES ASSUME IInv, Next, phase = "down", phase' = "boot", Good
                 PROVE  graph' \in {acked} \cup inflight
      BY DEF Good
    <2>1. ASSUME NEW t \in Threads, ThreadStep(t) PROVE FALSE
      <3>1. pc[t] = "idle"
        BY DEF IInv, Roles
      <3> QED BY <2>1, <3>1
          DEF ThreadStep, PutRead, SetGraph, SetOverlay, ResetRead, ResetClear, BeginWrite,
              Serialize, DbFails, Truncate, Write, WriteFails
    <2>2. CASE Boot
      BY <2>2, BootLoads
    <2>3. ~ Crash
      BY DEF Crash
    <2> QED BY <2>1, <2>2, <2>3 DEF Next
  <1> QED BY Invariance, <1>1, PTL DEF Spec, BootKeepsAcked
==============================================================================
