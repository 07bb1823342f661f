---------------------------- MODULE FaultRunProofs ----------------------------
(***************************************************************************)
(* The invariants of FaultRun for any number of runners, sites and faults. *)
(* The inductive invariant adds what a run holds between its transactions: *)
(* the state it read, as long as nobody changed it, and its rows, as long  *)
(* as nobody cleared them.  The last part is about FaultFeed: its runs are *)
(* runs of FaultRun, and what the browser shows.                           *)
(***************************************************************************)
EXTENDS FaultFeed, TLAPS

\* What a run read is still there, unless the run is marked stale.
ReadIsCurrent ==
  \A r \in Runners : pc[r] \in {"sync", "commit"} /\ ~ stale[r] => prev[r] = active

\* What a run wrote is still there, unless its rows were cleared or the site is gone.
RowsAreThere ==
  \A r \in Runners :
    pc[r] \in {"read", "sync", "commit"} /\ ~ wiped[r] => found[r] \cap OfSites(sites) \subseteq rows

IInv == TypeOK /\ ReadIsCurrent /\ StateBracketed /\ RowsAreThere /\ ActiveHasRows

RunStep(r) ==
  \/ Start(r) \/ EndEval(r) \/ WriteRows(r) \/ RunFails(r) \/ WriteLog(r)
  \/ ReadActive(r) \/ Upsert(r) \/ Commit(r) \/ SyncFails(r) \/ Crash(r)
  \/ \E s \in Sites : EvalSite(r, s)

Outside == (\E s \in Sites : DeleteSite(s)) \/ DeactivateOrphans \/ ClearHistory \/ DataChanges

\* Next, by who moves.
LEMMA Movers == Next <=> (\E r \in Runners : RunStep(r)) \/ Outside
  BY DEF Next, RunStep, Outside

LEMMA InitIInv == Init => IInv
  <1> SUFFICES ASSUME Init PROVE IInv
    OBVIOUS
  <1>1. TypeOK
    BY DEF Init, TypeOK, Pcs, Kinds
  <1>2. ReadIsCurrent /\ StateBracketed /\ RowsAreThere /\ ActiveHasRows
    BY DEF Init, ReadIsCurrent, StateBracketed, RowsAreThere, ActiveHasRows
  <1> QED BY <1>1, <1>2 DEF IInv

------------------------------------------------------------------------------
\* Every step keeps the types.
LEMMA TypeStep ==
  ASSUME TypeOK, [Next]_vars
  PROVE  TypeOK'
  <1> USE DEF TypeOK
  <1>0. /\ Incident => incidents' \in Nat
        /\ \A S : OfSites(S) \subseteq Keys
    BY DEF Incident, OfSites
  <1>1. ASSUME NEW r \in Runners, RunStep(r) PROVE TypeOK'
    <2>0. \A k \in Pcs : Goto(r, k) => pc' \in [Runners -> Pcs]
      BY DEF Goto
    <2>1. CASE Start(r)
      <3>1. pc' \in [Runners -> Pcs]
        BY <2>0, <2>1 DEF Start, Pcs
      <3>2. kind' \in [Runners -> Kinds]
        BY <2>1 DEF Start
      <3>3. /\ todo' \in [Runners -> SUBSET Sites] /\ processed' \in [Runners -> SUBSET Sites]
            /\ \A u \in Runners : todo'[u] \cap processed'[u] = {}
        BY <2>1 DEF Start
      <3> QED BY <2>1, <3>1, <3>2, <3>3 DEF Start, tables, history
    <2>2. CASE EndEval(r)
      <3>1. pc' \in [Runners -> Pcs]
        BY <2>0, <2>2 DEF EndEval, AfterEval, Pcs
      <3> QED BY <2>2, <3>1 DEF EndEval, tables, locals
    <2>3. CASE WriteRows(r)
      <3>1. pc' \in [Runners -> Pcs]
        BY <2>0, <2>3 DEF WriteRows, Pcs
      <3> QED BY <2>3, <3>1 DEF WriteRows, locals, history
    <2>4. CASE RunFails(r)
      <3>1. pc' \in [Runners -> Pcs]
        BY <2>0, <2>4 DEF RunFails, Pcs
      <3> QED BY <1>0, <2>4, <3>1 DEF RunFails, tables, locals, history
    <2>5. CASE End(r) /\ UNCHANGED <<tables, low, high, excused>> /\ incidents' \in Nat
      <3>1. pc' \in [Runners -> Pcs] /\ kind' \in [Runners -> Kinds]
        BY <2>0, <2>5 DEF End, Pcs, Kinds
      <3>2. /\ todo' \in [Runners -> SUBSET Sites] /\ processed' \in [Runners -> SUBSET Sites]
            /\ \A u \in Runners : todo'[u] \cap processed'[u] = {}
        BY <2>5 DEF End
      <3>3. /\ found' \in [Runners -> SUBSET Keys] /\ prev' \in [Runners -> SUBSET Keys]
            /\ stale' \in [Runners -> BOOLEAN] /\ wiped' \in [Runners -> BOOLEAN]
        BY <2>5 DEF End
      <3> QED BY <2>5, <3>1, <3>2, <3>3 DEF tables
    <2>6. CASE WriteLog(r) \/ Crash(r)
      BY <1>0, <2>5, <2>6 DEF WriteLog, Crash
    <2>7. CASE ReadActive(r)
      <3>1. pc' \in [Runners -> Pcs]
        BY <2>0, <2>7 DEF ReadActive, Pcs
      <3> QED BY <2>7, <3>1 DEF ReadActive, tables
    <2>8. CASE Upsert(r)
      <3>1. pc' \in [Runners -> Pcs]
        BY <2>0, <2>8 DEF Upsert, Pcs
      <3> QED BY <2>8, <3>1 DEF Upsert, tables, locals, history
    <2>9. CASE Commit(r)
      <3>1. pc' \in [Runners -> Pcs]
        BY <2>0, <2>9 DEF Commit, Pcs
      <3>2. active' \subseteq Keys /\ low' \subseteq Keys /\ high' \subseteq Keys /\ excused' \subseteq Keys
        BY <2>9 DEF Commit, Raised
      <3>3. stale' \in [Runners -> BOOLEAN]
        BY <2>9 DEF Commit, Restale
      <3> QED BY <2>9, <3>1, <3>2, <3>3 DEF Commit, locals
    <2>10. CASE SyncFails(r)
      <3>1. pc' \in [Runners -> Pcs]
        BY <2>0, <2>10 DEF SyncFails, Pcs
      <3> QED BY <1>0, <2>10, <3>1 DEF SyncFails, tables, locals, history
    <2>11. ASSUME NEW s \in Sites, EvalSite(r, s) PROVE TypeOK'
      <3>1. \A F \in Flagged(r, s) : F \subseteq Keys
        BY <1>0 DEF Flagged, OfSites
      <3>2. found' \in [Runners -> SUBSET Keys]
        BY <2>11, <3>1 DEF EvalSite
      <3>3. /\ todo' \in [Runners -> SUBSET Sites] /\ processed' \in [Runners -> SUBSET Sites]
            /\ \A u \in Runners : todo'[u] \cap processed'[u] = {}
        BY <2>11 DEF EvalSite
      <3> QED BY <2>11, <3>2, <3>3 DEF EvalSite, tables, history
    <2> QED
      BY <1>1, <2>1, <2>2, <2>3, <2>4, <2>6, <2>7, <2>8, <2>9, <2>10, <2>11 DEF RunStep
  <1>2. ASSUME Outside PROVE TypeOK'
    <2>1. ASSUME NEW s \in Sites, DeleteSite(s) PROVE TypeOK'
      BY <1>0, <2>1 DEF DeleteSite, locals, history
    <2>2. CASE DeactivateOrphans
      BY <1>0, <2>2 DEF DeactivateOrphans, locals
    <2>3. CASE ClearHistory
      BY <1>0, <2>3 DEF ClearHistory, locals
    <2>4. CASE DataChanges
      BY <1>0, <2>4 DEF DataChanges, locals, history
    <2> QED BY <1>2, <2>1, <2>2, <2>3, <2>4 DEF Outside
  <1>3. CASE UNCHANGED vars
    BY <1>3 DEF vars, tables, locals, history
  <1> QED BY <1>1, <1>2, <1>3, Movers

------------------------------------------------------------------------------
\* A step of a runner that leaves fault_results and fault_state alone.
LEMMA QuietRunStep ==
  ASSUME IInv, NEW r \in Runners,
         Start(r) \/ EndEval(r) \/ RunFails(r) \/ WriteLog(r) \/ Upsert(r) \/ SyncFails(r)
           \/ Crash(r) \/ \E s \in Sites : EvalSite(r, s)
  PROVE  (ReadIsCurrent /\ StateBracketed /\ RowsAreThere /\ ActiveHasRows)'
  <1> USE DEF IInv, TypeOK
  <1>1. UNCHANGED <<tables, low, high, excused>>
    BY DEF Start, EndEval, RunFails, WriteLog, Upsert, SyncFails, Crash, EvalSite, tables, history
  <1>2. /\ StateBracketed' /\ ActiveHasRows'
    BY <1>1 DEF StateBracketed, ActiveHasRows, tables, OfSites
  <1>3. \A u \in Runners \ {r} :
          /\ pc'[u] = pc[u] /\ prev'[u] = prev[u] /\ found'[u] = found[u]
          /\ stale'[u] = stale[u] /\ wiped'[u] = wiped[u]
    <2>1. CASE Start(r) \/ EndEval(r)
      BY <2>1 DEF Start, EndEval, Goto, history, locals
    <2>2. CASE RunFails(r) \/ Upsert(r) \/ SyncFails(r)
      BY <2>2 DEF RunFails, Upsert, SyncFails, Goto, history, locals
    <2>3. CASE WriteLog(r) \/ Crash(r)
      BY <2>3 DEF WriteLog, Crash, End, Goto
    <2>4. CASE \E s \in Sites : EvalSite(r, s)
      BY <2>4 DEF EvalSite, history
    <2> QED BY <2>1, <2>2, <2>3, <2>4
  <1>4. \/ pc'[r] \notin {"read", "sync", "commit"}
        \/ /\ pc[r] = "sync" /\ pc'[r] = "commit"
           /\ prev'[r] = prev[r] /\ found'[r] = found[r] /\ stale'[r] = stale[r] /\ wiped'[r] = wiped[r]
    <2>1. CASE Start(r) \/ EndEval(r)
      BY <2>1 DEF Start, EndEval, AfterEval, Goto
    <2>2. CASE RunFails(r) \/ SyncFails(r)
      BY <2>2 DEF RunFails, SyncFails, Goto
    <2>3. CASE WriteLog(r) \/ Crash(r)
      BY <2>3 DEF WriteLog, Crash, End, Goto
    <2>4. CASE \E s \in Sites : EvalSite(r, s)
      BY <2>4 DEF EvalSite
    <2>5. CASE Upsert(r)
      BY <2>5 DEF Upsert, Goto, history, locals
    <2> QED BY <2>1, <2>2, <2>3, <2>4, <2>5
  <1>5. ReadIsCurrent'
    BY <1>1, <1>3, <1>4 DEF ReadIsCurrent, tables
  <1>6. RowsAreThere'
    BY <1>1, <1>3, <1>4 DEF RowsAreThere, tables, OfSites
  <1> QED BY <1>2, <1>5, <1>6

\* The rows are committed: there are more of them.
LEMMA WriteRowsStep ==
  ASSUME IInv, NEW r \in Runners, WriteRows(r)
  PROVE  (ReadIsCurrent /\ StateBracketed /\ RowsAreThere /\ ActiveHasRows)'
  <1> USE DEF IInv, TypeOK, WriteRows, Goto, locals, history
  <1>1. ReadIsCurrent'
    BY DEF ReadIsCurrent
  <1>2. StateBracketed'
    BY DEF StateBracketed
  <1>3. RowsAreThere'
    BY DEF RowsAreThere, OfSites
  <1>4. ActiveHasRows'
    BY DEF ActiveHasRows, OfSites
  <1> QED BY <1>1, <1>2, <1>3, <1>4

\* The state is read as it is.
LEMMA ReadActiveStep ==
  ASSUME IInv, NEW r \in Runners, ReadActive(r)
  PROVE  (ReadIsCurrent /\ StateBracketed /\ RowsAreThere /\ ActiveHasRows)'
  <1> USE DEF IInv, TypeOK, ReadActive, Goto, tables
  <1>1. ReadIsCurrent'
    BY DEF ReadIsCurrent
  <1>2. StateBracketed'
    BY DEF StateBracketed
  <1>3. RowsAreThere'
    BY DEF RowsAreThere, OfSites
  <1>4. ActiveHasRows'
    BY DEF ActiveHasRows, OfSites
  <1> QED BY <1>1, <1>2, <1>3, <1>4

\* The difference is committed: over the state it was computed from, the state
\* becomes what was found; over another one, it stays within the bracket.
LEMMA CommitStep ==
  ASSUME IInv, NEW r \in Runners, Commit(r)
  PROVE  (ReadIsCurrent /\ StateBracketed /\ RowsAreThere /\ ActiveHasRows)'
  <1> USE DEF IInv, TypeOK, Commit, locals
  <1>1. ReadIsCurrent'
    <2> SUFFICES ASSUME NEW u \in Runners, pc'[u] \in {"sync", "commit"}, ~ stale'[u]
                 PROVE  FALSE
      BY DEF ReadIsCurrent
    <2>1. u # r /\ pc'[u] = pc[u]
      BY DEF Goto
    <2> QED BY <2>1 DEF Restale
  <1>2. StateBracketed'
    <2>1. CASE stale[r]
      BY <2>1 DEF StateBracketed, Raised, Cleared
    <2>2. CASE ~ stale[r]
      <3>1. prev[r] = active
        BY <2>2 DEF ReadIsCurrent
      <3>2. active' = found[r]
        BY <3>1 DEF Raised, Cleared
      <3> QED BY <2>2, <3>2 DEF StateBracketed
    <2> QED BY <2>1, <2>2
  <1>3. RowsAreThere'
    BY DEF RowsAreThere, OfSites, Goto
  <1>4. ActiveHasRows'
    <2>1. active' \subseteq active \cup found[r]
      BY DEF Raised
    <2>2. wiped[r] \/ found[r] \cap OfSites(sites) \subseteq rows
      BY DEF RowsAreThere
    <2> QED BY <2>1, <2>2 DEF ActiveHasRows, OfSites
  <1> QED BY <1>1, <1>2, <1>3, <1>4

\* Deletes, resets and new data.
LEMMA OutsideStep ==
  ASSUME IInv, Outside
  PROVE  (ReadIsCurrent /\ StateBracketed /\ RowsAreThere /\ ActiveHasRows)'
  <1> USE DEF IInv, TypeOK
  <1>1. ASSUME NEW s \in Sites, DeleteSite(s)
        PROVE  (ReadIsCurrent /\ StateBracketed /\ RowsAreThere /\ ActiveHasRows)'
    <2>1. ReadIsCurrent' /\ StateBracketed'
      BY <1>1 DEF DeleteSite, ReadIsCurrent, StateBracketed, locals, history
    <2>2. RowsAreThere'
      BY <1>1 DEF DeleteSite, RowsAreThere, OfSites, locals, history
    <2>3. ActiveHasRows'
      BY <1>1 DEF DeleteSite, ActiveHasRows, OfSites, locals, history
    <2> QED BY <2>1, <2>2, <2>3
  <1>2. ASSUME DeactivateOrphans
        PROVE  (ReadIsCurrent /\ StateBracketed /\ RowsAreThere /\ ActiveHasRows)'
    <2>1. ReadIsCurrent'
      BY <1>2 DEF DeactivateOrphans, ReadIsCurrent, NoneUncommitted, Uncommitted, locals
    <2>2. StateBracketed'
      BY <1>2 DEF DeactivateOrphans, StateBracketed
    <2>3. RowsAreThere'
      BY <1>2 DEF DeactivateOrphans, RowsAreThere, OfSites, locals
    <2>4. ActiveHasRows'
      BY <1>2 DEF DeactivateOrphans, ActiveHasRows, OfSites
    <2> QED BY <2>1, <2>2, <2>3, <2>4
  <1>3. ASSUME ClearHistory
        PROVE  (ReadIsCurrent /\ StateBracketed /\ RowsAreThere /\ ActiveHasRows)'
    <2>1. ReadIsCurrent'
      BY <1>3 DEF ClearHistory, ReadIsCurrent, NoneUncommitted, Uncommitted, locals
    <2>2. StateBracketed' /\ ActiveHasRows'
      BY <1>3 DEF ClearHistory, StateBracketed, ActiveHasRows
    <2>3. RowsAreThere'
      BY <1>3 DEF ClearHistory, RowsAreThere, NoneUncommitted, Uncommitted, locals
    <2> QED BY <2>1, <2>2, <2>3
  <1>4. ASSUME DataChanges
        PROVE  (ReadIsCurrent /\ StateBracketed /\ RowsAreThere /\ ActiveHasRows)'
    BY <1>4 DEF DataChanges, ReadIsCurrent, StateBracketed, RowsAreThere, ActiveHasRows,
                OfSites, locals
  <1> QED BY <1>1, <1>2, <1>3, <1>4 DEF Outside

LEMMA NextIInv ==
  ASSUME IInv, [Next]_vars
  PROVE  IInv'
  <1>1. TypeOK'
    BY TypeStep DEF IInv
  <1>2. (ReadIsCurrent /\ StateBracketed /\ RowsAreThere /\ ActiveHasRows)'
    <2>1. ASSUME NEW r \in Runners, RunStep(r)
          PROVE  (ReadIsCurrent /\ StateBracketed /\ RowsAreThere /\ ActiveHasRows)'
      BY <2>1, QuietRunStep, WriteRowsStep, ReadActiveStep, CommitStep DEF RunStep
    <2>2. CASE UNCHANGED vars
      BY <2>2 DEF IInv, ReadIsCurrent, StateBracketed, RowsAreThere, ActiveHasRows,
                  OfSites, vars, tables, locals, history
    <2> QED BY <2>1, <2>2, OutsideStep, Movers
  <1> QED BY <1>1, <1>2 DEF IInv

------------------------------------------------------------------------------
\* The inductive invariant holds in every state.
THEOREM Invariance == Spec => []IInv
  BY InitIInv, NextIInv, PTL DEF Spec

\* A run evaluates a site of its list at most once, and holds and writes faults
\* of the configured rules and sites only (run_fdd_loop).
THEOREM RunTypeCorrect == Spec => []TypeOK
  BY Invariance, PTL DEF IInv

\* However many runs overlap between reading fault_state and committing their
\* difference (sync_fault_state_from_results), the state holds what all of them
\* found and nothing that none of them found; without an overlap it is exactly
\* what the run found.
THEOREM Bracketed == Spec => []StateBracketed
  BY Invariance, PTL DEF IInv

\* A failure, kill, delete or reset at any point leaves no fault active at an
\* existing site without fault_results rows, except after a clearing of the
\* history under a run (_write_fault_results before the state).
THEOREM RowsUnderFaults == Spec => []ActiveHasRows
  BY Invariance, PTL DEF IInv

------------------------------------------------------------------------------
(***************************************************************************)
(* The feed.                                                               *)
(***************************************************************************)

\* Every step of the feed is a step of the runs and the tables, or leaves them alone.
LEMMA FeedStep ==
  ASSUME [FeedNext]_feedVars
  PROVE  [Next]_vars
  <1>1. ASSUME NEW r \in Runners, FeedUpsert(r) \/ FeedSyncFails(r) \/ FeedWriteLog(r)
        PROVE  Next
    BY <1>1 DEF FeedUpsert, FeedSyncFails, FeedWriteLog, Next
  <1>2. CASE Silent
    BY <1>2 DEF Silent, Next, Runners
  <1>3. CASE Quiet
    BY <1>3 DEF Quiet, Next, Runners
  <1>4. CASE Refetch \/ UNCHANGED feedVars
    BY <1>4 DEF Refetch, feedVars
  <1> QED BY <1>1, <1>2, <1>3, <1>4 DEF FeedNext

\* The browser subscribes to what a job tells of its difference: the topics of
\* raised and cleared faults match "fault.*".
LEMMA DifferencesAreDelivered ==
  ASSUME NEW r \in Jobs, Raised(r) \cup Cleared(r) # {}
  PROVE  Delivered(r, Emitted(r))
  <1> DEFINE pattern == <<"fault", "*">>
  <1>1. /\ TopicMatches(pattern, <<"fault", "raised">>)
        /\ TopicMatches(pattern, <<"fault", "cleared">>)
    BY DEF TopicMatches, Last, Front, IsPrefix
  <1>2. \E t \in Emitted(r) : t = <<"fault", "raised">> \/ t = <<"fault", "cleared">>
    BY DEF Emitted
  <1>3. pattern \in Subscribed
    BY DEF Subscribed
  <1> QED BY <1>1, <1>2, <1>3 DEF Delivered

\* A job that is about to commit a difference has told of it, and no fetch
\* since then read the state before it.
DifferencesAreTold ==
  \A r \in Jobs : Uncommitted(r) /\ Raised(r) \cup Cleared(r) # {} => inbox \/ missed

\* The list is right also while a transaction is open.
ListCurrent == inbox \/ missed \/ shown = active

FeedInv ==
  /\ inbox \in BOOLEAN /\ missed \in BOOLEAN
  /\ DifferencesAreTold
  /\ ListCurrent

LEMMA InitFeedInv == FeedInit => FeedInv
  BY DEF FeedInit, FeedInv, Init, DifferencesAreTold, ListCurrent, Runners, Uncommitted

\* A runner before its commit: the state stays, and what is told is at most more.
LEMMA UpToCommitStep ==
  ASSUME TypeOK, FeedInv, NEW r \in Runners, UNCHANGED <<active, shown>>,
         inbox' \in BOOLEAN, inbox => inbox', missed' = missed,
         \A u \in Runners \ {r} : pc'[u] = pc[u] /\ found'[u] = found[u] /\ prev'[u] = prev[u],
         \/ pc'[r] # "commit"
         \/ /\ pc'[r] = "commit" /\ found'[r] = found[r] /\ prev'[r] = prev[r]
            /\ r \in Jobs /\ Raised(r) \cup Cleared(r) # {} => inbox' \/ pc[r] = "commit"
  PROVE  FeedInv'
  <1>1. DifferencesAreTold'
    BY DEF FeedInv, DifferencesAreTold, Uncommitted, Raised, Cleared, Runners
  <1> QED BY <1>1 DEF FeedInv, ListCurrent

\* The steps of a runner but its commit, as the feed sees them.
LEMMA FeedRunStep ==
  ASSUME TypeOK, FeedInv, NEW r \in Runners,
         \/ FeedUpsert(r) \/ FeedSyncFails(r) \/ FeedWriteLog(r)
         \/ /\ \/ Start(r) \/ EndEval(r) \/ WriteRows(r) \/ RunFails(r) \/ ReadActive(r) \/ Crash(r)
               \/ \E s \in Sites : EvalSite(r, s)
            /\ UNCHANGED client
  PROVE  FeedInv'
  <1> USE DEF TypeOK, FeedInv
  <1>1. /\ inbox' \in BOOLEAN /\ (inbox => inbox')
        /\ UNCHANGED <<shown, missed>>
    BY DEF FeedUpsert, FeedSyncFails, FeedWriteLog, Send, client, Delivered
  <1>2. CASE FeedUpsert(r)
    <2>1. r \in Jobs /\ Raised(r) \cup Cleared(r) # {} => inbox'
      BY <1>2, DifferencesAreDelivered DEF FeedUpsert, Send
    <2>2. /\ UNCHANGED <<active, found, prev>> /\ pc' = [pc EXCEPT ![r] = "commit"]
      BY <1>2 DEF FeedUpsert, Upsert, Goto, tables, locals
    <2> QED BY <1>1, <2>1, <2>2, UpToCommitStep
  <1>3. CASE Start(r) \/ EndEval(r) \/ WriteRows(r) \/ RunFails(r) \/ FeedSyncFails(r)
    <2>1. UNCHANGED <<active, prev>>
      BY <1>3 DEF Start, EndEval, WriteRows, RunFails, FeedSyncFails, SyncFails, tables, locals
    <2>2. /\ \A u \in Runners \ {r} : pc'[u] = pc[u] /\ found'[u] = found[u]
          /\ pc'[r] # "commit"
      BY <1>3 DEF Start, EndEval, AfterEval, WriteRows, RunFails, FeedSyncFails, SyncFails, Goto, locals
    <2> QED BY <1>1, <2>1, <2>2, UpToCommitStep
  <1>4. CASE ReadActive(r) \/ Crash(r) \/ FeedWriteLog(r) \/ \E s \in Sites : EvalSite(r, s)
    <2>1. UNCHANGED active
      BY <1>4 DEF ReadActive, Crash, FeedWriteLog, WriteLog, EvalSite, tables
    <2>2. /\ \A u \in Runners \ {r} : pc'[u] = pc[u] /\ found'[u] = found[u] /\ prev'[u] = prev[u]
          /\ pc'[r] # "commit"
      BY <1>4 DEF ReadActive, Crash, FeedWriteLog, WriteLog, End, EvalSite, Goto
    <2> QED BY <1>1, <2>1, <2>2, UpToCommitStep
  <1> QED BY <1>2, <1>3, <1>4

\* A job's commit: a difference that changes the state has been told.
LEMMA FeedCommitStep ==
  ASSUME TypeOK, FeedInv, NEW r \in Jobs, Commit(r), UNCHANGED client
  PROVE  FeedInv'
  <1> USE DEF TypeOK, FeedInv, Runners
  <1>1. DifferencesAreTold'
    BY DEF DifferencesAreTold, Commit, Goto, Uncommitted, Raised, Cleared, locals, client
  <1>2. active' = active \/ inbox \/ missed
    BY DEF DifferencesAreTold, Uncommitted, Commit
  <1> QED BY <1>1, <1>2 DEF ListCurrent, client

LEMMA FeedNextInv ==
  ASSUME TypeOK, FeedInv, [FeedNext]_feedVars
  PROVE  FeedInv'
  <1>1. CASE Silent /\ missed' = TRUE /\ UNCHANGED <<inbox, shown>>
    BY <1>1 DEF FeedInv, DifferencesAreTold, ListCurrent
  <1>2. CASE Quiet /\ UNCHANGED client
    <2>1. ASSUME DataChanges \/ \E s \in Sites : DeleteSite(s)
          PROVE  FeedInv'
      BY <1>2, <2>1 DEF DataChanges, DeleteSite, FeedInv, DifferencesAreTold, ListCurrent,
                        Uncommitted, Raised, Cleared, locals, client
    <2> QED BY <1>2, <2>1, FeedRunStep, FeedCommitStep DEF Quiet
  <1>3. CASE Refetch
    <2>1. NoneUncommitted \/ missed'
      BY <1>3 DEF Refetch
    <2>2. /\ inbox' \in BOOLEAN /\ missed' \in BOOLEAN /\ ListCurrent'
      BY <1>3 DEF Refetch, FeedInv, ListCurrent, vars, tables
    <2>3. DifferencesAreTold'
      BY <1>3, <2>1 DEF Refetch, DifferencesAreTold, NoneUncommitted, Uncommitted, Raised, Cleared,
                        vars, locals, Runners
    <2> QED BY <2>2, <2>3 DEF FeedInv
  <1>4. CASE UNCHANGED feedVars
    BY <1>4 DEF FeedInv, DifferencesAreTold, ListCurrent, Uncommitted, Raised, Cleared,
                feedVars, client, vars, tables, locals
  <1> QED BY <1>1, <1>2, <1>3, <1>4, FeedRunStep DEF FeedNext

\* The feed changes nothing of the runs it follows: each behaviour of FaultFeed
\* is one of FaultRun, so what holds of the fault tables holds under it.
THEOREM FeedFollowsRuns == FeedSpec => Spec
  BY FeedStep, PTL DEF FeedSpec, FeedInit, Spec

\* The list the browser fetches on events (use-websocket.ts) is the committed
\* fault_state, but for what the last fetch could not see and what sends no
\* event: whatever jobs, resets and failures come in between.
THEOREM FeedIsCurrent == FeedSpec => []ListCurrentUnlessMissed
  <1>1. FeedInit => FeedInv
    BY InitFeedInv
  <1>2. TypeOK /\ FeedInv /\ [FeedNext]_feedVars => FeedInv'
    BY FeedNextInv
  <1>3. FeedInv => ListCurrentUnlessMissed
    BY DEF FeedInv, ListCurrent, ListCurrentUnlessMissed, AtRest
  <1> QED BY <1>1, <1>2, <1>3, FeedFollowsRuns, RunTypeCorrect, PTL DEF FeedSpec

==============================================================================
