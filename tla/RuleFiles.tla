------------------------------ MODULE RuleFiles ------------------------------
(* Rule YAML files, the fault_definitions table and the readers of both:       *)
(* uploads and deletes through /rules (api/rules.py), the load and the sync of *)
(* every FDD run and of POST /rules/sync-definitions (loop.py), and the cache  *)
(* HotReloadRules (rules_loader.py).  Requests run on threads of the API, the  *)
(* FDD loop in a process of its own; they share only the directory and the     *)
(* table.  Files are read one by one; a sync is one transaction whose          *)
(* statements wait for the rows that another transaction has changed.          *)
EXTENDS Integers, FiniteSets

CONSTANTS
  Files,        \* the file names, numbers in the order of sorted(glob("*.yaml"))
  Rules,        \* rule mappings: records with a flag and fits, see RulesAssumption
  Empty,        \* a file that parses to no mapping, as after truncation
  Broken,       \* a file that does not parse
  Absent,       \* no such file
  NoDef,        \* no row of fault_definitions
  Starts,       \* contents of the directory at the beginning
  Seeded,       \* rows the schema seeds: flag -> rule or NoDef
  Clients,      \* requests that write or delete files
  Requests,     \* POST /rules/sync-definitions requests
  loop, cache,  \* the FDD loop, a user of HotReloadRules
  Deployments,  \* the sets of readers there may be
  MaxEdits,     \* bound on changes of files
  MaxFailures   \* bound on database, read and process failures

Syncers == Requests \cup {loop}
Readers == Syncers \cup {cache}
Flags == DOMAIN Seeded

\* "flag" identifies the definition; "fits" is whether the rule applies to the
\* equipment types of the data model (_rule_allows_equipment_types).
ASSUME RulesAssumption ==
  /\ Files \subseteq Nat /\ IsFiniteSet(Files)
  /\ Starts \subseteq [Files -> Rules \cup {Absent}]
  /\ \A r \in Rules : r.flag \in Flags /\ r.fits \in BOOLEAN
  /\ Seeded \in [Flags -> Rules \cup {NoDef}]
  /\ \A x \in Flags : Seeded[x] # NoDef => Seeded[x].flag = x
  /\ NoDef \notin Rules /\ Rules \cap {Empty, Broken, Absent} = {}
  /\ Deployments \subseteq SUBSET Readers
  /\ loop \notin Requests /\ cache \notin Syncers
ASSUME RulesBounds == MaxEdits \in Nat /\ MaxFailures \in Nat

Texts == Rules \cup {Empty, Broken}
Seen == (Files \X Texts) \cup (Files \X Texts \X Nat)
NoFile == 0 - 1

VARIABLES
  here,     \* the readers of this deployment; one that is not there never starts
  dir,      \* file -> its text and the time of its last change
  clock,    \* changes so far: gives modification times
  pend,     \* client -> the file it has opened and truncated, not yet written
  phase,    \* reader -> "idle", "hash", "read", "upsert", "prune"
  names,    \* reader -> files it has yet to read, or to sync
  got,      \* reader -> what it read: pairs of a file and a text
  since,    \* reader -> clock when its load began
  tx,       \* syncer -> rows its open transaction has changed: flag -> row
  doomed,   \* syncer -> rows its DELETE has yet to remove
  defs,     \* committed fault_definitions: flag -> rule or NoDef
  running,  \* rules the FDD loop's run goes on with, and when it began
  hash,     \* HotReloadRules._hash: the set of (file, time, text) it stands for
  rules,    \* HotReloadRules._rules
  failed,   \* whether the last reload of the cache raised
  failures

files == <<here, dir, clock, pend>>
load == <<names, got, since>>
db == <<tx, doomed, defs>>
hot == <<hash, rules, failed>>
ruleVars == <<files, phase, load, db, running, hot, failures>>

There == {f \in Files : dir[f].text # Absent}
NoRun == [rules |-> {}, since |-> 0 - 1]
Nothing == [x \in {} |-> NoDef]
Opened == {c \in Clients : pend[c].file # NoFile}
Room(n) == clock + Cardinality(Opened) + n <= MaxEdits
First(S) == CHOOSE f \in S : \A g \in S : f <= g

RulesTypeOK ==
  /\ here \in Deployments
  /\ dir \in [Files -> [text : Texts \cup {Absent}, at : Nat]]
  /\ clock \in Nat
  /\ pend \in [Clients -> [file : Files \cup {NoFile}, text : Texts]]
  /\ phase \in [Readers -> {"idle", "hash", "read", "upsert", "prune"}]
  /\ names \in [Readers -> SUBSET Files] /\ got \in [Readers -> SUBSET Seen]
  /\ since \in [Readers -> Nat]
  /\ tx = [p \in Syncers |-> tx[p]] /\ doomed \in [Syncers -> SUBSET Flags]
  /\ \A p \in Syncers : tx[p] \in [DOMAIN tx[p] -> Rules \cup {NoDef}] /\ DOMAIN tx[p] \subseteq Flags
  /\ defs \in [Flags -> Rules \cup {NoDef}]
  /\ running.rules \subseteq Files \X Rules /\ running.since \in Nat \cup {0 - 1}
  /\ DOMAIN running = {"rules", "since"}
  /\ hash \subseteq Files \X Texts \X Nat /\ rules \subseteq Files \X Texts
  /\ failed \in BOOLEAN

RulesInit ==
  /\ here \in Deployments
  /\ \E s \in Starts : dir = [f \in Files |-> [text |-> s[f], at |-> 0]]
  /\ clock = 0
  /\ pend = [c \in Clients |-> [file |-> NoFile, text |-> Empty]]
  /\ phase = [p \in Readers |-> "idle"]
  /\ names = [p \in Readers |-> {}]
  /\ got = [p \in Readers |-> {}]
  /\ since = [p \in Readers |-> 0]
  /\ tx = [p \in Syncers |-> Nothing]
  /\ doomed = [p \in Syncers |-> {}]
  /\ defs = Seeded
  /\ running = NoRun
  /\ hash = {} /\ rules = {} /\ failed = FALSE
  /\ failures = 0

(* Changes of files.  write_text opens the file, which truncates it, and then  *)
(* writes.  A file is opened or deleted by one request at a time.              *)

Free(c, f) == pend[c].file = NoFile /\ \A d \in Clients : pend[d].file # f

Open(c, f, t) ==
  /\ Free(c, f) /\ Room(2)
  /\ clock' = clock + 1
  /\ dir' = [dir EXCEPT ![f] = [text |-> Empty, at |-> clock + 1]]
  /\ pend' = [pend EXCEPT ![c] = [file |-> f, text |-> t]]
  /\ UNCHANGED <<here, phase, load, db, running, hot, failures>>

\* POST /rules takes mappings with a name or flag only, test-inject any text.
UploadRule(c) == \E f \in Files, r \in Rules : Open(c, f, r)
TestInjectRule(c) == \E f \in Files, t \in {Empty, Broken} : Open(c, f, t)

FinishWrite(c) ==
  /\ pend[c].file # NoFile
  /\ clock' = clock + 1
  /\ dir' = [dir EXCEPT ![pend[c].file] = [text |-> pend[c].text, at |-> clock + 1]]
  /\ pend' = [pend EXCEPT ![c].file = NoFile]
  /\ UNCHANGED <<here, phase, load, db, running, hot, failures>>

\* The write fails or the API is killed: the file stays truncated.
WriteLost(c) ==
  /\ pend[c].file # NoFile /\ failures < MaxFailures
  /\ pend' = [pend EXCEPT ![c].file = NoFile]
  /\ failures' = failures + 1
  /\ UNCHANGED <<here, dir, clock, phase, load, db, running, hot>>

DeleteRule(c) ==
  \E f \in There :
    /\ Free(c, f) /\ Room(1)
    /\ clock' = clock + 1
    /\ dir' = [dir EXCEPT ![f] = [text |-> Absent, at |-> clock + 1]]
    /\ UNCHANGED <<here, pend, phase, load, db, running, hot, failures>>

\* The second endpoint that deletes, for tests.
TestInjectDelete(c) == DeleteRule(c)

(* load_rules_from_dir: list the directory, then read file after file.         *)

ListFiles(p, to) ==
  /\ p \in here /\ phase[p] = "idle"
  /\ phase' = [phase EXCEPT ![p] = to]
  /\ names' = [names EXCEPT ![p] = There]
  /\ got' = [got EXCEPT ![p] = {}]
  /\ since' = [since EXCEPT ![p] = clock]
  /\ running' = IF p = loop THEN NoRun ELSE running
  /\ UNCHANGED <<files, db, hot, failures>>

StartRun == ListFiles(loop, "read")
StartSync(q) == ListFiles(q, "read")

\* A file deleted since the listing, or one that does not parse, ends the load:
\* the request answers 500, the run is given up, the cache's caller gets the
\* exception.
GiveUp(p) ==
  /\ phase' = [phase EXCEPT ![p] = "idle"]
  /\ names' = [names EXCEPT ![p] = {}]
  /\ got' = [got EXCEPT ![p] = {}]
  /\ since' = [since EXCEPT ![p] = 0]
  /\ failed' = (failed \/ p = cache)
  /\ UNCHANGED <<files, db, running, hash, rules>>

ReadFile(p) ==
  LET f == First(names[p])
      t == dir[f].text
  IN /\ phase[p] = "read" /\ names[p] # {}
     /\ \/ t \in {Absent, Broken} /\ GiveUp(p)
        \/ /\ t \notin {Absent, Broken}
           /\ names' = [names EXCEPT ![p] = @ \ {f}]
           /\ got' = [got EXCEPT ![p] = @ \cup {<<f, t>>}]
           /\ UNCHANGED <<files, phase, since, db, running, hot>>
     /\ UNCHANGED failures

ReadFails(p) ==
  /\ phase[p] = "read" /\ names[p] # {} /\ failures < MaxFailures
  /\ failures' = failures + 1
  /\ GiveUp(p)

(* _sync_fault_definitions_from_rules: one transaction, every exception         *)
(* swallowed.  The run goes on with the rules that fit either way.             *)

SyncedFits(p) == IF p = loop THEN {e \in got[p] : e[2] \in Rules /\ e[2].fits} ELSE got[p]
Synced(p) == got[p]
RunRulesAll == {e \in got[loop] : e[2] \in Rules}
RunRules == {e \in got[loop] : e[2] \in Rules /\ e[2].fits}
Locked(p, x) == \E q \in Syncers \ {p} : x \in DOMAIN tx[q]
Flagged(S) == {e[2].flag : e \in {d \in S : d[2] \in Rules}}
Put(t, x, row) == [y \in DOMAIN t \cup {x} |-> IF y = x THEN row ELSE t[y]]

AfterSync(p) ==
  /\ phase' = [phase EXCEPT ![p] = "idle"]
  /\ names' = [names EXCEPT ![p] = {}]
  /\ got' = [got EXCEPT ![p] = {}]
  /\ tx' = [tx EXCEPT ![p] = Nothing]
  /\ doomed' = [doomed EXCEPT ![p] = {}]
  /\ running' = IF p = loop THEN [rules |-> RunRules, since |-> since[p]] ELSE running
  /\ since' = [since EXCEPT ![p] = 0]
  /\ UNCHANGED <<files, hot>>

\* No rules at all: the sync returns at once and prunes nothing.
EndLoad(p) ==
  /\ p \in Syncers /\ phase[p] = "read" /\ names[p] = {}
  /\ IF got[p] = {} THEN AfterSync(p) /\ UNCHANGED defs
     ELSE /\ phase' = [phase EXCEPT ![p] = "upsert"]
          /\ names' = [names EXCEPT ![p] = {e[1] : e \in Synced(p)}]
          /\ UNCHANGED <<files, got, since, db, running, hot>>
  /\ UNCHANGED failures

ToUpsert(p) == (CHOOSE e \in Synced(p) : e[1] = First(names[p]))[2]

\* INSERT ... ON CONFLICT (fault_id) DO UPDATE waits for the row.
Upsert(p) ==
  LET r == ToUpsert(p)
  IN /\ p \in Syncers /\ phase[p] = "upsert" /\ names[p] # {}
     /\ r # Empty /\ ~ Locked(p, r.flag)
     /\ names' = [names EXCEPT ![p] = @ \ {First(@)}]
     /\ tx' = [tx EXCEPT ![p] = Put(@, r.flag, r)]
     /\ UNCHANGED <<files, phase, got, since, doomed, defs, running, hot, failures>>

\* An entry that is no mapping has no get: the transaction is rolled back.
UpsertRaises(p) ==
  /\ p \in Syncers /\ phase[p] = "upsert" /\ names[p] # {}
  /\ ToUpsert(p) = Empty
  /\ AfterSync(p)
  /\ UNCHANGED <<defs, failures>>

\* DELETE ... WHERE fault_id != ALL(ids) sees the rows committed when it starts
\* and waits for those that another transaction has changed.
DoomedNone(p) == {}
Doomed(p) == {x \in Flags : defs[x] # NoDef} \ Flagged(Synced(p))

ListDoomed(p) ==
  /\ p \in Syncers /\ phase[p] = "upsert" /\ names[p] = {}
  /\ phase' = [phase EXCEPT ![p] = "prune"]
  /\ doomed' = [doomed EXCEPT ![p] = Doomed(p)]
  /\ UNCHANGED <<files, load, tx, defs, running, hot, failures>>

DeleteRow(p) ==
  /\ p \in Syncers /\ phase[p] = "prune"
  /\ \E x \in doomed[p] :
       /\ ~ Locked(p, x)
       /\ doomed' = [doomed EXCEPT ![p] = @ \ {x}]
       /\ tx' = [tx EXCEPT ![p] = Put(@, x, NoDef)]
  /\ UNCHANGED <<files, phase, load, defs, running, hot, failures>>

Commit(p) ==
  /\ p \in Syncers /\ phase[p] = "prune" /\ doomed[p] = {}
  /\ defs' = [x \in Flags |-> IF x \in DOMAIN tx[p] THEN tx[p][x] ELSE defs[x]]
  /\ AfterSync(p)
  /\ UNCHANGED failures

Waits(p, q) ==
  \/ /\ phase[p] = "upsert" /\ names[p] # {} /\ ToUpsert(p) # Empty
     /\ ToUpsert(p).flag \in DOMAIN tx[q]
  \/ phase[p] = "prune" /\ doomed[p] \cap DOMAIN tx[q] # {}

\* The database ends one of two transactions that wait for each other.
Deadlocked(p) ==
  /\ \E q \in Syncers \ {p} : Waits(p, q) /\ Waits(q, p)
  /\ AfterSync(p)
  /\ UNCHANGED <<defs, failures>>

SyncFails(p) ==
  /\ phase[p] \in {"upsert", "prune"} /\ failures < MaxFailures
  /\ failures' = failures + 1
  /\ AfterSync(p)
  /\ UNCHANGED defs

(* HotReloadRules._check_reload: hash the directory file by file, and load it  *)
(* when the hash has changed.  The new hash is kept before the load.           *)

StartCheck == ListFiles(cache, "hash")

HashFile ==
  LET f == First(names[cache])
  IN /\ phase[cache] = "hash" /\ names[cache] # {}
     /\ IF dir[f].text = Absent
        THEN /\ phase' = [phase EXCEPT ![cache] = "idle"]
             /\ names' = [names EXCEPT ![cache] = {}]
             /\ got' = [got EXCEPT ![cache] = {}]
        ELSE /\ names' = [names EXCEPT ![cache] = @ \ {f}]
             /\ got' = [got EXCEPT ![cache] = @ \cup {<<f, dir[f].text, dir[f].at>>}]
             /\ UNCHANGED phase
     /\ UNCHANGED <<files, since, db, running, hot, failures>>

KeepRules ==
  /\ phase[cache] = "hash" /\ names[cache] = {} /\ got[cache] = hash
  /\ phase' = [phase EXCEPT ![cache] = "idle"]
  /\ got' = [got EXCEPT ![cache] = {}]
  /\ UNCHANGED <<files, names, since, db, running, hot, failures>>

ReloadRules ==
  /\ phase[cache] = "hash" /\ names[cache] = {} /\ got[cache] # hash
  /\ hash' = got[cache]
  /\ phase' = [phase EXCEPT ![cache] = "read"]
  /\ names' = [names EXCEPT ![cache] = There]
  /\ got' = [got EXCEPT ![cache] = {}]
  /\ UNCHANGED <<files, since, db, running, rules, failed, failures>>

EndReloadHashes ==
  /\ phase[cache] = "read" /\ names[cache] = {}
  /\ hash' = {<<f, dir[f].text, dir[f].at>> : f \in There}
  /\ rules' = got[cache]
  /\ failed' = FALSE
  /\ phase' = [phase EXCEPT ![cache] = "idle"]
  /\ got' = [got EXCEPT ![cache] = {}]
  /\ UNCHANGED <<files, names, since, db, running, failures>>

EndReload ==
  /\ phase[cache] = "read" /\ names[cache] = {}
  /\ rules' = got[cache]
  /\ failed' = FALSE
  /\ phase' = [phase EXCEPT ![cache] = "idle"]
  /\ got' = [got EXCEPT ![cache] = {}]
  /\ UNCHANGED <<files, names, since, db, running, hash, failures>>

Change(c) ==
  UploadRule(c) \/ TestInjectRule(c) \/ FinishWrite(c) \/ WriteLost(c)
  \/ DeleteRule(c) \/ TestInjectDelete(c)

Sync(p) ==
  \/ ReadFile(p) \/ EndLoad(p)
  \/ Upsert(p) \/ UpsertRaises(p) \/ ListDoomed(p) \/ DeleteRow(p) \/ Commit(p)
  \/ Deadlocked(p)

Check == StartCheck \/ HashFile \/ KeepRules \/ ReloadRules \/ ReadFile(cache) \/ EndReload

RulesNext ==
  \/ \E c \in Clients : Change(c)
  \/ StartRun \/ \E q \in Requests : StartSync(q)
  \/ \E p \in Syncers : Sync(p) \/ SyncFails(p)
  \/ \E p \in Readers : ReadFails(p)
  \/ Check

RulesSpec == RulesInit /\ [][RulesNext]_ruleVars

\* The FDD loop runs for ever, and a run or request that began goes on; the
\* database grants a row to a statement that has waited long enough for it.
RulesFairSpec ==
  /\ RulesSpec
  /\ WF_ruleVars(StartRun)
  /\ \A p \in Syncers : SF_ruleVars(Sync(p))

-----------------------------------------------------------------------------

Settled(f, t) == dir[f].at <= t
Holds(f, x) == dir[f].text \in Rules /\ dir[f].text.flag = x

\* "rule edits apply immediately": the rules of a run are those of the files as
\* they were when the run began, for each file unchanged since; no rule of an
\* earlier run stays and none that fits is left out.
RunsOnCurrentFiles ==
  \A f \in Files :
    Settled(f, running.since) =>
      {e[2] : e \in {d \in running.rules : d[1] = f}}
        = {r \in Rules : r = dir[f].text /\ r.fits}

\* When a sync commits, every rule whose file did not change since the sync
\* began its load has a definition, whatever other syncs inserted or pruned and
\* whether or not the rule fits the present equipment.
SettledRulesDefined ==
  [][\A p \in Syncers, f \in Files :
       phase[p] = "prune" /\ phase'[p] = "idle" /\ failures' = failures /\ defs' # defs
       /\ Settled(f, since[p])
         => \A x \in Flags : Holds(f, x) => defs'[x] # NoDef]_ruleVars

\* The table catches up with the directory: once the files stay as they are,
\* all of them rules and at least one, every flag ends with the definition of
\* the last file that holds it, and flags no file holds with none, whatever
\* overlapping syncs, failures or older loads left in the table before.
DefinitionsCatchUp ==
  (<>[](loop \in here /\ There # {} /\ \A f \in There : dir[f].text \in Rules))
    => <>[](\A x \in Flags :
             IF \E f \in Files : Holds(f, x)
             THEN \E f \in Files : /\ Holds(f, x) /\ defs[x] = dir[f].text
                                   /\ \A g \in Files : g > f => ~ Holds(g, x)
             ELSE defs[x] = NoDef)

\* The cache never takes an old rule for a current one: while its hash is that
\* of the directory, its rules hold the present text of every file, whichever
\* files changed between the hash and the load.  A reload that raised may leave
\* it behind, because the new hash is kept before the load; and a file that came
\* and went between the two may leave a rule too many.
CacheFollows ==
  phase[cache] = "idle" /\ ~ failed
  /\ hash = {<<f, dir[f].text, dir[f].at>> : f \in There}
    => \A f \in There : {e[2] : e \in {d \in rules : d[1] = f}} = {dir[f].text}
==============================================================================
