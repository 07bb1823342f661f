------------------------------ MODULE FaultFeed ------------------------------
(***************************************************************************)
(* FaultRun with the events it emits and the browser that follows them:    *)
(* realtime/events.py and realtime/hub.py deliver an event to the          *)
(* subscribers of the process that emits it; use-websocket.ts invalidates  *)
(* the list of active faults on it and fetches GET /faults/active again.   *)
(***************************************************************************)
EXTENDS FaultRun, SequencesExt

VARIABLES
  inbox,   \* an event the browser acts on is on its way to it
  shown,   \* the browser's list of active faults
  missed   \* history: the last fetch read under an open transaction, or a change
           \* since then sent no event

client == <<inbox, shown, missed>>
feedVars == <<vars, client>>

\* fnmatch: a pattern is a topic, or a prefix and "*".
TopicMatches(pattern, topic) ==
  \/ pattern = topic
  \/ Last(pattern) = "*" /\ IsPrefix(Front(pattern), topic)

\* The topics of use-websocket.ts that refresh the faults.
Subscribed == {<<"fault", "*">>, <<"fdd.run">>}

\* Events of the fdd-loop process meet a hub nobody is connected to.
Delivered(r, topics) ==
  r \in Jobs /\ \E p \in Subscribed, t \in topics : TopicMatches(p, t)

EmitRaised(r) == IF Raised(r) # {} THEN {<<"fault", "raised">>} ELSE {}   \* mutant: a clear is not told
Emitted(r) ==
  (IF Raised(r) # {} THEN {<<"fault", "raised">>} ELSE {}) \cup
  (IF Cleared(r) # {} THEN {<<"fault", "cleared">>} ELSE {})

FeedInit ==
  /\ Init
  /\ inbox = FALSE /\ shown = active /\ missed = FALSE

Send(r, topics) == inbox' = (inbox \/ Delivered(r, topics)) /\ UNCHANGED <<shown, missed>>

\* The events leave with the statements, before the commit.
FeedUpsert(r) == Upsert(r) /\ Send(r, Emitted(r))

\* The statements that ran before the error have sent theirs.
FeedSyncFails(r) ==
  /\ SyncFails(r)
  /\ \/ UNCHANGED client
     \/ pc[r] = "sync" /\ Send(r, Emitted(r))

\* run_fdd_job tells the end of the run.
FeedWriteLog(r) ==
  /\ WriteLog(r)
  /\ Send(r, {<<"fdd.run", IF pc[r] = "logOk" THEN "finished" ELSE "failed">>})

\* GET /faults/active sees committed rows only.  The list is fetched on an
\* event, and whenever the window gets the focus.
Refetch ==
  /\ inbox' \in {inbox, FALSE}
  /\ shown' = active
  /\ missed' = ~ NoneUncommitted
  /\ UNCHANGED vars

\* Changes of fault_state that tell nobody: resets, and the runs of the
\* fdd-loop process.
Silent ==
  \/ DeactivateOrphans \/ ClearHistory
  \/ \E r \in LoopRunner : Commit(r)

Quiet ==
  \/ \E r \in Runners :
       \/ Start(r) \/ EndEval(r) \/ WriteRows(r) \/ RunFails(r) \/ ReadActive(r) \/ Crash(r)
       \/ \E s \in Sites : EvalSite(r, s)
  \/ \E r \in Jobs : Commit(r)
  \/ \E s \in Sites : DeleteSite(s)
  \/ DataChanges

FeedNext ==
  \/ \E r \in Runners : FeedUpsert(r) \/ FeedSyncFails(r) \/ FeedWriteLog(r)
  \/ Silent /\ missed' = TRUE /\ UNCHANGED <<inbox, shown>>
  \/ Quiet /\ UNCHANGED client
  \/ Refetch

FeedSpec == FeedInit /\ [][FeedNext]_feedVars

------------------------------------------------------------------------------
AtRest == ~ inbox /\ NoneUncommitted

\* The browser's list differs from fault_state only if its last fetch read under
\* a transaction that had sent its events and not committed, or a reset or a run
\* of the fdd-loop process has changed the state since.
ListCurrentUnlessMissed == AtRest /\ ~ missed => shown = active
==============================================================================
