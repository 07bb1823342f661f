------------------------------- MODULE FaultRun -------------------------------
(***************************************************************************)
(* One run of the rules and the fault tables it feeds: run_fdd_loop in     *)
(* platform/loop.py and sync_fault_state_from_results in                   *)
(* platform/fault_state_sync.py, run by the fdd-loop process and by the    *)
(* threads of POST /jobs/fdd/run in the API process, beside the deletes    *)
(* and resets of the API.                                                  *)
(*                                                                         *)
(* A key is a fault of a site (the equipment is folded into the fault).    *)
(* Which keys a site's data of the lookback shows is the environment's.    *)
(***************************************************************************)
EXTENDS Integers

CONSTANTS
  LoopRunner,  \* runs in the fdd-loop process: {l}, or {} without it
  Jobs,        \* threads of POST /jobs/fdd/run
  Sites, FaultIds,
  MaxIncidents \* bound: changes of the data, deletes, resets, database errors, kills

Runners == LoopRunner \cup Jobs
Keys == [site : Sites, fault : FaultIds]
OfSites(S) == {k \in Keys : k.site \in S}

ASSUME RunnersApart == LoopRunner \cap Jobs = {}
ASSUME RunBounds == MaxIncidents \in Nat

VARIABLES
  sites,      \* sites table
  present,    \* keys the readings of the lookback show
  rows,       \* keys with rows in fault_results
  active,     \* keys with active = true in fault_state
  pc,         \* where each runner is
  kind,       \* "routine" (the lookback) or "window" (a backfill window)
  todo,       \* site_rows not yet evaluated
  processed,  \* sites counted in sites_processed
  found,      \* all_results
  prev,       \* previously_active
  incidents,
  stale,      \* history: fault_state changed since the runner read it
  low, high,  \* history: what all, and any, of the overlapping last runs found
  wiped,      \* history: the runner's rows were cleared since it wrote them
  excused     \* history: keys committed by wiped runs

tables == <<sites, present, rows, active>>
locals == <<kind, todo, processed, found, prev>>
history == <<stale, low, high, wiped, excused>>
vars == <<tables, pc, locals, incidents, history>>

Pcs == {"idle", "eval", "write", "read", "sync", "commit", "logOk", "logError"}
Kinds == {"routine", "window"}

Init ==
  /\ sites = Sites
  /\ present \in SUBSET Keys
  /\ rows = {} /\ active = {}
  /\ pc = [r \in Runners |-> "idle"]
  /\ kind = [r \in Runners |-> "routine"]
  /\ todo = [r \in Runners |-> {}]
  /\ processed = [r \in Runners |-> {}]
  /\ found = [r \in Runners |-> {}]
  /\ prev = [r \in Runners |-> {}]
  /\ incidents = 0
  /\ stale = [r \in Runners |-> FALSE]
  /\ low = {} /\ high = {}
  /\ wiped = [r \in Runners |-> FALSE]
  /\ excused = {}

Goto(r, l) == pc' = [pc EXCEPT ![r] = l]
\* The run is over: what it held is gone.
End(r) ==
  /\ Goto(r, "idle")
  /\ kind' = [kind EXCEPT ![r] = "routine"]
  /\ todo' = [todo EXCEPT ![r] = {}] /\ processed' = [processed EXCEPT ![r] = {}]
  /\ found' = [found EXCEPT ![r] = {}] /\ prev' = [prev EXCEPT ![r] = {}]
  /\ stale' = [stale EXCEPT ![r] = FALSE] /\ wiped' = [wiped EXCEPT ![r] = FALSE]
Incident == incidents < MaxIncidents /\ incidents' = incidents + 1

------------------------------------------------------------------------------
\* run_fdd_loop.

\* The list of sites is read once.  Jobs run the lookback only.
Start(r) ==
  /\ pc[r] = "idle"
  /\ \E k \in Kinds : (r \in Jobs => k = "routine") /\ kind' = [kind EXCEPT ![r] = k]
  /\ todo' = [todo EXCEPT ![r] = sites]
  /\ processed' = [processed EXCEPT ![r] = {}]
  /\ found' = [found EXCEPT ![r] = {}]
  /\ Goto(r, "eval")
  /\ UNCHANGED <<tables, prev, incidents, history>>

\* load_timeseries_for_equipment and _for_site: what the readings of the window
\* show. In a backfill window, whatever was true then.
Readings(r, s) == IF kind[r] = "routine" THEN {present} ELSE SUBSET OfSites({s})
\* What the rules flag carries the site the run is at.
Flagged(r, s) == {shown \cap OfSites({s}) : shown \in Readings(r, s)}

\* Mutant: the site stays on the list.
EvalSiteAgain(r, s) ==
  /\ pc[r] = "eval" /\ s \in todo[r] /\ s \in sites
  /\ \E F \in Flagged(r, s) : found' = [found EXCEPT ![r] = @ \cup F]
  /\ processed' = [processed EXCEPT ![r] = @ \cup {s}]
  /\ UNCHANGED <<tables, pc, kind, todo, prev, incidents, history>>

\* One site, by equipment or as a whole; with fewer than six rows (none are
\* left of a deleted site) it is passed over.
EvalSite(r, s) ==
  /\ pc[r] = "eval" /\ s \in todo[r]
  /\ todo' = [todo EXCEPT ![r] = @ \ {s}]
  /\ \/ /\ s \in sites
        /\ \E F \in Flagged(r, s) : found' = [found EXCEPT ![r] = @ \cup F]
        /\ processed' = [processed EXCEPT ![r] = @ \cup {s}]
     \/ UNCHANGED <<found, processed>>
  /\ UNCHANGED <<tables, pc, kind, prev, incidents, history>>

\* "if all_results:" - with nothing found, the fault tables are left alone.
AfterEvalUnwritten(r) == IF found[r] = {} THEN "logOk" ELSE "read"   \* mutant: the state before the rows
AfterEval(r) == IF found[r] = {} THEN "logOk" ELSE "write"

EndEval(r) ==
  /\ pc[r] = "eval" /\ todo[r] = {}
  /\ Goto(r, AfterEval(r))
  /\ wiped' = [wiped EXCEPT ![r] = FALSE]
  /\ UNCHANGED <<tables, locals, incidents, stale, low, high, excused>>

\* _write_fault_results: one transaction.
WriteRows(r) ==
  /\ pc[r] = "write"
  /\ rows' = rows \cup found[r]
  /\ Goto(r, "read")
  /\ UNCHANGED <<sites, present, active, locals, incidents, history>>

\* An exception up to here is logged as an error and raised.
RunFails(r) ==
  /\ pc[r] \in {"eval", "write", "logOk"}
  /\ Incident
  /\ Goto(r, "logError")
  /\ UNCHANGED <<tables, locals, history>>

\* _write_fdd_run_log, after which the run returns or raises.
WriteLog(r) ==
  /\ pc[r] \in {"logOk", "logError"}
  /\ End(r)
  /\ UNCHANGED <<tables, incidents, low, high, excused>>

------------------------------------------------------------------------------
\* sync_fault_state_from_results.

\* The active rows are read in one connection ...
ReadActive(r) ==
  /\ pc[r] = "read"
  /\ prev' = [prev EXCEPT ![r] = active]
  /\ stale' = [stale EXCEPT ![r] = FALSE]
  /\ Goto(r, "sync")
  /\ UNCHANGED <<tables, kind, todo, processed, found, incidents,
                 low, high, wiped, excused>>

Raised(r) == found[r] \ prev[r]
ClearedNone(r) == {}                                         \* mutant: nothing is cleared
Cleared(r) == prev[r] \ found[r]

\* The rows the transaction locks until it commits.
Locked(r) == found[r] \cup prev[r]
Uncommitted(r) == pc[r] = "commit"

\* ... and written in another, each statement followed by its event.  A
\* transaction that needs a row of another one waits for it.
Upsert(r) ==
  /\ pc[r] = "sync"
  /\ \A u \in Runners \ {r} : Uncommitted(u) => Locked(u) \cap Locked(r) = {}
  /\ Goto(r, "commit")
  /\ UNCHANGED <<tables, locals, incidents, history>>

\* A history of what the state may hold after a change to it.
Restale(r) == stale' = [u \in Runners |-> stale[u] \/ (u # r /\ pc[u] \in {"sync", "commit"})]

Commit(r) ==
  /\ pc[r] = "commit"
  /\ active' = (active \cup Raised(r)) \ Cleared(r)
  /\ low'  = IF stale[r] THEN low \cap found[r] ELSE found[r]
  /\ high' = IF stale[r] THEN high \cup found[r] ELSE found[r]
  /\ Restale(r)
  /\ excused' = IF wiped[r] THEN excused \cup found[r] ELSE excused
  /\ Goto(r, "logOk")
  /\ UNCHANGED <<sites, present, rows, locals, incidents, wiped>>

\* Best effort: an error while reading, writing or committing (a deadlock of
\* two transactions that lock rows in different orders among them) rolls back.
SyncFails(r) ==
  /\ pc[r] \in {"read", "sync", "commit"}
  /\ Incident
  /\ Goto(r, "logOk")
  /\ UNCHANGED <<tables, locals, history>>

\* The process is killed; an open transaction rolls back.
Crash(r) ==
  /\ pc[r] # "idle"
  /\ Incident
  /\ End(r)
  /\ UNCHANGED <<tables, low, high, excused>>

------------------------------------------------------------------------------
\* The API and the data.

NoneUncommitted == \A r \in Runners : ~ Uncommitted(r)

\* DELETE /sites/{id}: the site's readings and fault_results go, its
\* fault_state stays.
DeleteSite(s) ==
  /\ s \in sites /\ Incident
  /\ sites' = sites \ {s}
  /\ present' = present \ OfSites({s})
  /\ rows' = rows \ OfSites({s})
  /\ UNCHANGED <<active, pc, locals, history>>

\* POST /data-model/reset.
DeactivateOrphans ==
  /\ NoneUncommitted /\ Incident
  /\ active' = active \cap OfSites(sites)
  /\ low' = low \cap OfSites(sites) /\ high' = high \cap OfSites(sites)
  /\ stale' = [u \in Runners |-> stale[u] \/ pc[u] = "sync"]
  /\ UNCHANGED <<sites, present, rows, pc, locals, wiped, excused>>

\* POST /data-model/reset?clear_fault_history=true.
ClearHistory ==
  /\ NoneUncommitted /\ Incident
  /\ rows' = {} /\ active' = {}
  /\ low' = {} /\ high' = {}
  /\ stale' = [u \in Runners |-> stale[u] \/ pc[u] = "sync"]
  /\ wiped' = [u \in Runners |-> wiped[u] \/ pc[u] \in {"read", "sync"}]
  /\ UNCHANGED <<sites, present, pc, locals, excused>>

\* Readings arrive or leave the lookback.
DataChanges ==
  /\ Incident
  /\ present' \in SUBSET OfSites(sites)
  /\ UNCHANGED <<sites, rows, active, pc, locals, stale, low, high, wiped, excused>>

Next ==
  \/ \E r \in Runners :
       \/ Start(r) \/ EndEval(r) \/ WriteRows(r) \/ RunFails(r) \/ WriteLog(r)
       \/ ReadActive(r) \/ Upsert(r) \/ Commit(r) \/ SyncFails(r) \/ Crash(r)
       \/ \E s \in Sites : EvalSite(r, s)
  \/ \E s \in Sites : DeleteSite(s)
  \/ DeactivateOrphans \/ ClearHistory \/ DataChanges

Spec == Init /\ [][Next]_vars

------------------------------------------------------------------------------
\* A site is evaluated once per run.
TypeOK ==
  /\ sites \subseteq Sites
  /\ present \subseteq Keys /\ rows \subseteq Keys /\ active \subseteq Keys
  /\ pc \in [Runners -> Pcs]
  /\ kind \in [Runners -> Kinds]
  /\ todo \in [Runners -> SUBSET Sites]
  /\ processed \in [Runners -> SUBSET Sites]
  /\ \A r \in Runners : todo[r] \cap processed[r] = {}
  /\ found \in [Runners -> SUBSET Keys]
  /\ prev \in [Runners -> SUBSET Keys]
  /\ incidents \in Nat
  /\ stale \in [Runners -> BOOLEAN]
  /\ low \subseteq Keys /\ high \subseteq Keys
  /\ wiped \in [Runners -> BOOLEAN]
  /\ excused \subseteq Keys

\* The difference a run writes is computed from a state read in another
\* transaction.  After a run that nothing overlapped, fault_state holds exactly
\* what that run found; when runs overlap, a fault all of them found is active,
\* and one that none of them found is not.
StateBracketed == low \subseteq active /\ active \subseteq high

\* A fault is shown active only over stored results (the rows are committed
\* first, and a failure or a kill may come at any time), unless the history was
\* cleared under a run or the site is gone.
ActiveHasRows == active \cap OfSites(sites) \subseteq rows \cup excused
==============================================================================
