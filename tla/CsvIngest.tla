------------------------------ MODULE CsvIngest ------------------------------
(***************************************************************************)
(* CSV ingest: the scraper container (drivers/run_csv_scrape.py, started   *)
(* with --loop, or once by hand), the cursor it keeps per source           *)
(* (drivers/csv_driver.py, csv_ingest_state), and POST /csv/upload.        *)
(*                                                                         *)
(* A file is a sequence of lines that another program appends to.  Of a    *)
(* line the model keeps its time and the columns that hold a number.       *)
(***************************************************************************)
EXTENDS Integers, Sequences, FiniteSets

CONSTANTS
  Loop,       \* the process started with --loop
  OneShots,   \* processes started by hand
  Sources,    \* configured pairs of path and site: keys of csv_ingest_state
  Stems,      \* file names without directory and extension
  StemOf,     \* the stem of each source
  Cols,       \* metric columns
  LastTime,   \* bound: lines carry times 1..LastTime
  MaxLines,   \* bound: lines of each file
  Configs,    \* settings PUT /config may store: [on, sources, start, end, create]
  Default,    \* the settings of a scraper that cannot reach the API
  Uploads,    \* bodies of POST /csv/upload: sets of lines
  MaxRequests,\* bound: uploads, PUT /config, points deleted, runs by hand
  MaxFaults   \* bound: faults met

\* A timestamp that does not parse (or is not written to its end), no cursor, no
\* backfill_start: before every time.
NoTime == 0
Times == 1..LastTime
Torn == [t |-> NoTime, vals |-> {}]
Lines == [t : Times, vals : SUBSET Cols] \cup {Torn}
Procs == {Loop} \cup OneShots
\* A point of the site, by its external_id csv:<stem>:<column>.
Points == Stems \X Cols
PointOf(s, c) == <<StemOf[s], c>>
Settings == Configs \cup {Default}

ASSUME CsvShape ==
  /\ StemOf \in [Sources -> Stems]
  /\ LastTime \in Nat /\ MaxLines \in [Sources -> Nat]
  /\ \A c \in Settings :
       c \in [on : BOOLEAN, sources : Seq(Sources), start : Nat, end : Nat, create : BOOLEAN]
  /\ \A u \in Uploads : u \subseteq Lines /\ IsFiniteSet(u)
  /\ IsFiniteSet(Sources)
  /\ Loop \notin OneShots
ASSUME CsvBounds ==
  MaxRequests \in Nat /\ MaxFaults \in Nat

VARIABLES
  cfg,       \* the settings the API would answer
  file,      \* the lines of each file
  last,      \* csv_ingest_state.last_ts
  points,    \* the points that exist
  readings,  \* rows of timeseries_readings by point and time
  pc,        \* where each process is
  seen,      \* the settings a run works with
  todo,      \* the sources it still has to read
  df,        \* the lines it read of the source at hand
  had,       \* the cursor it loaded
  requests, faults,
  uploaded,  \* history: rows inserted by uploads, by point and time
  excused,   \* history: values the code does not promise to store
  overlapped \* history: two processes were inside a run at once

run == <<pc, seen, todo, df, had>>
counts == <<requests, faults>>
vars == <<cfg, file, last, points, readings, run, counts, uploaded, excused, overlapped>>

Init ==
  /\ cfg \in Settings
  /\ file = [s \in Sources |-> <<>>]
  /\ last = [s \in Sources |-> NoTime]
  /\ points = {}
  /\ readings = [k \in Points |-> [t \in Times |-> 0]]
  /\ pc = [p \in Procs |-> IF p = Loop THEN "poll" ELSE "idle"]
  /\ seen = [p \in Procs |-> Default]
  /\ todo = [p \in Procs |-> <<>>]
  /\ df = [p \in Procs |-> <<>>]
  /\ had = [p \in Procs |-> NoTime]
  /\ requests = 0 /\ faults = 0
  /\ uploaded = [k \in Points |-> [t \in Times |-> 0]]
  /\ excused = {}
  /\ overlapped = FALSE

Goto(p, l) == pc' = [pc EXCEPT ![p] = l]
Fault == faults < MaxFaults /\ faults' = faults + 1 /\ UNCHANGED requests
\* Someone uses the API or starts a run.
Request == requests < MaxRequests /\ requests' = requests + 1 /\ UNCHANGED faults
\* The loop sleeps until its next cycle; a process without --loop returns.
Rest(p) == IF p = Loop THEN "poll" ELSE "idle"
Busy(p) == pc[p] \in {"file", "load", "store"}

------------------------------------------------------------------------------
\* One cycle of main().  The cached settings live 30 s, a cycle takes at least
\* 60: every cycle asks the API, and works with the environment when it does
\* not answer.  Disabled, or without sources, it only sleeps.
BeginCycle(p) ==
  /\ pc[p] = "poll"
  /\ \E c \in {cfg, Default} :
       /\ IF c = cfg THEN UNCHANGED counts ELSE Fault
       /\ IF c.on /\ c.sources # <<>>
          THEN /\ seen' = [seen EXCEPT ![p] = c]
               /\ todo' = [todo EXCEPT ![p] = c.sources]
               /\ Goto(p, "file")
               /\ overlapped' = (overlapped \/ \E q \in Procs \ {p} : Busy(q))
          ELSE Goto(p, Rest(p)) /\ UNCHANGED <<seen, todo, overlapped>>
  /\ UNCHANGED <<cfg, file, last, points, readings, df, had, uploaded, excused>>

\* Leave the source at hand, for the sources in rest or the end of the run.
Proceed(p, rest) ==
  /\ todo' = [todo EXCEPT ![p] = rest]
  /\ df' = [df EXCEPT ![p] = <<>>] /\ had' = [had EXCEPT ![p] = NoTime]
  /\ IF rest = <<>> THEN Goto(p, Rest(p)) /\ seen' = [seen EXCEPT ![p] = Default]
     ELSE Goto(p, "file") /\ UNCHANGED seen
\* continue
NextSource(p) == Proceed(p, Tail(todo[p]))

\* pd.read_csv.  A source without a line whose timestamp parses is passed over;
\* beside others, such lines are dropped, as they are before any floor.
ReadFile(p) ==
  /\ pc[p] = "file"
  /\ LET rows == file[Head(todo[p])] IN
       IF \A i \in DOMAIN rows : rows[i].t = NoTime THEN NextSource(p)
       ELSE df' = [df EXCEPT ![p] = rows] /\ Goto(p, "load") /\ UNCHANGED <<seen, todo, had>>
  /\ UNCHANGED <<cfg, file, last, points, readings, counts, uploaded, excused, overlapped>>

\* The file is missing, cannot be read or has no timestamp column.
SkipSource(p) ==
  /\ pc[p] = "file"
  /\ Fault
  /\ NextSource(p)
  /\ UNCHANGED <<cfg, file, last, points, readings, uploaded, excused, overlapped>>

\* _load_state: the row of the source, if there is one.
Loaded(s) == last[s]

LoadState(p) ==
  /\ pc[p] = "load"
  /\ had' = [had EXCEPT ![p] = Loaded(Head(todo[p]))]
  /\ Goto(p, "store")
  /\ UNCHANGED <<cfg, file, last, points, readings, seen, todo, df, counts, uploaded, excused, overlapped>>

FloorStart(p) == seen[p].start                          \* mutant: the cursor is not used
Floor(p) == IF seen[p].start > had[p] THEN seen[p].start ELSE had[p]

BeforeEnd(p, l) == l.t < seen[p].end                    \* mutant: off by one
UpToEnd(p, l) == l.t <= seen[p].end

Taken(p) == {i \in DOMAIN df[p] : df[p][i].t > Floor(p) /\ UpToEnd(p, df[p][i])}

\* Mutant: the newest line that was read, taken or not.
NewestRead(p) ==
  LET i == CHOOSE i \in DOMAIN df[p] : \A j \in DOMAIN df[p] : df[p][j].t <= df[p][i].t
  IN df[p][i].t
Newest(p) ==
  LET i == CHOOSE i \in Taken(p) : \A j \in Taken(p) : df[p][j].t <= df[p][i].t
  IN df[p][i].t
\* Without new lines the cursor that was loaded is stored again.
Cursor(p) == IF Taken(p) = {} THEN had[p] ELSE Newest(p)

\* _resolve_or_create_points.
Resolved(s, create) == IF create THEN points \cup {PointOf(s, c) : c \in Cols} ELSE points

\* Rows of one transaction on top of what is stored: lines[i] for i in taken.
Inserted(s, lines, taken, known) ==
  [k \in Points |-> [t \in Times |->
     readings[k][t] + Cardinality({i \in taken : /\ lines[i].t = t /\ k \in known
                                                 /\ \E c \in lines[i].vals : k = PointOf(s, c)})]]

\* What a commit passes by: lines at or before backfill_start, and columns
\* without a point.
PassedBy(s, p, known) ==
  {v \in {s} \X (DOMAIN file[s]) \X Cols :
     LET t == file[s][v[2]].t IN
     t <= Cursor(p) /\ (t <= seen[p].start \/ (t > had[p] /\ PointOf(s, v[3]) \notin known))}

\* _save_state.
Saved(s, ts) == [last EXCEPT ![s] = ts]

\* One transaction: points, rows and cursor.
StoreRows(p) ==
  /\ pc[p] = "store"
  /\ LET s == Head(todo[p])
         known == IF Taken(p) = {} THEN points ELSE Resolved(s, seen[p].create)
     IN /\ points' = known
        /\ readings' = Inserted(s, df[p], Taken(p), known)
        /\ last' = Saved(s, Cursor(p))
        /\ excused' = excused \cup PassedBy(s, p, known)
  /\ NextSource(p)
  /\ UNCHANGED <<cfg, file, counts, uploaded, overlapped>>

\* rollback, and the next source.
StoreFails(p) ==
  /\ pc[p] \in {"load", "store"}
  /\ Fault
  /\ NextSource(p)
  /\ UNCHANGED <<cfg, file, last, points, readings, uploaded, excused, overlapped>>

\* No connection, or resolve_site_uuid raises: the run ends, main() sleeps.  A
\* kill ends it too, and the container is restarted.
AbandonRun(p) ==
  /\ Busy(p)
  /\ Fault
  /\ Proceed(p, <<>>)
  /\ UNCHANGED <<cfg, file, last, points, readings, uploaded, excused, overlapped>>

StartByHand(p) ==
  /\ p # Loop /\ pc[p] = "idle"
  /\ Request
  /\ Goto(p, "poll")
  /\ UNCHANGED <<cfg, file, last, points, readings, seen, todo, df, had, uploaded, excused, overlapped>>

------------------------------------------------------------------------------
\* Outside the scraper.

InOrder(s, lines, t) == t # NoTime /\ \A j \in DOMAIN lines : lines[j].t < t

\* The program that writes the file appends a line, which may be cut off.
AppendLine(s, l) ==
  /\ Len(file[s]) < MaxLines[s]
  /\ file' = [file EXCEPT ![s] = Append(@, l)]
  /\ excused' = IF InOrder(s, file[s], l.t) THEN excused
                ELSE excused \cup ({s} \X {Len(file[s]) + 1} \X Cols)
  /\ UNCHANGED <<cfg, last, points, readings, run, counts, uploaded, overlapped>>

\* It writes the rest of its last line: the time, or more columns.
FinishLine(s, l) ==
  LET n == Len(file[s]) IN
  /\ n > 0
  /\ file[s][n].t \in {NoTime, l.t} /\ l.t # NoTime
  /\ file[s][n].vals \subseteq l.vals /\ file[s][n] # l
  /\ file' = [file EXCEPT ![s][n] = l]
  /\ excused' = IF file[s][n].t = NoTime /\ InOrder(s, SubSeq(file[s], 1, n - 1), l.t)
                THEN excused \ ({s} \X {n} \X Cols)
                ELSE excused \cup ({s} \X {n} \X (l.vals \ file[s][n].vals))
  /\ UNCHANGED <<cfg, last, points, readings, run, counts, uploaded, overlapped>>

\* validate_csv_dataframe: rows, a time that parses, a column with numbers.
Valid(rows) == (\E l \in rows : l.t # NoTime) /\ (\E l \in rows : l.vals # {})

\* ingest_csv_dataframe: one transaction, under the label of s; the cursor is
\* not asked.
IngestDataframe(s, rows, create) ==
  LET known == Resolved(s, create)
      more == Inserted(s, [l \in rows |-> l], rows, known)
  IN /\ points' = known
     /\ readings' = more
     /\ uploaded' = [k \in Points |-> [t \in Times |->
                       uploaded[k][t] + (more[k][t] - readings[k][t])]]

\* POST /csv/upload.
Upload(s, rows, create) ==
  /\ Request
  /\ Valid(rows)
  /\ IngestDataframe(s, rows, create)
  /\ UNCHANGED <<cfg, file, last, run, excused, overlapped>>

\* DELETE /points/{id}: its readings go with it.
DeletePoint(k) ==
  /\ Request
  /\ k \in points
  /\ points' = points \ {k}
  /\ readings' = [readings EXCEPT ![k] = [t \in Times |-> 0]]
  /\ excused' = excused \cup
       UNION {{v \in {s} \X (DOMAIN file[s]) \X Cols :
                 /\ PointOf(s, v[3]) = k /\ file[s][v[2]].t # NoTime
                 /\ readings[k][file[s][v[2]].t] > 0} : s \in Sources}
  /\ UNCHANGED <<cfg, file, last, run, uploaded, overlapped>>

PutConfig(c) ==
  /\ Request
  /\ c # cfg /\ cfg' = c
  /\ UNCHANGED <<file, last, points, readings, run, uploaded, excused, overlapped>>

Step(p) ==
  \/ BeginCycle(p) \/ ReadFile(p) \/ SkipSource(p) \/ LoadState(p)
  \/ StoreRows(p) \/ StoreFails(p) \/ AbandonRun(p) \/ StartByHand(p)

Next ==
  \/ \E p \in Procs : Step(p)
  \/ \E s \in Sources, l \in Lines : AppendLine(s, l) \/ FinishLine(s, l)
  \/ \E s \in Sources, rows \in Uploads, create \in BOOLEAN : Upload(s, rows, create)
  \/ \E k \in Points : DeletePoint(k)
  \/ \E c \in Settings : PutConfig(c)

Spec == Init /\ [][Next]_vars

\* The container is scheduled and restarted; everything else is owed to nobody.
FairSpec ==
  /\ Spec
  /\ WF_vars(BeginCycle(Loop)) /\ WF_vars(ReadFile(Loop))
  /\ WF_vars(LoadState(Loop)) /\ WF_vars(StoreRows(Loop))

------------------------------------------------------------------------------
TypeOK ==
  /\ cfg \in Settings
  /\ file \in [Sources -> Seq(Lines)]
  /\ last \in [Sources -> Times \cup {NoTime}]
  /\ points \subseteq Points
  /\ readings \in [Points -> [Times -> Nat]]
  /\ pc \in [Procs -> {"poll", "file", "load", "store", "idle"}]
  /\ seen \in [Procs -> Settings]
  /\ todo \in [Procs -> Seq(Sources)]
  /\ df \in [Procs -> Seq(Lines)]
  /\ had \in [Procs -> Times \cup {NoTime}]
  /\ requests \in Nat /\ faults \in Nat
  /\ uploaded \in [Points -> [Times -> Nat]]
  /\ overlapped \in BOOLEAN

\* A value at or below the cursor of its source is stored.  The exceptions are
\* values that came out of order or into a line already dated, lines at or
\* before backfill_start, columns that had no point, and deleted points; no
\* failure, kill, change of settings, second process or upload adds another.
NothingMissed ==
  \A s \in Sources : \A i \in DOMAIN file[s] : \A c \in file[s][i].vals :
    /\ file[s][i].t # NoTime /\ file[s][i].t <= last[s]
    /\ <<s, i, c>> \notin excused
    => readings[PointOf(s, c)][file[s][i].t] >= 1

\* Although the table has no unique constraint, a point holds at a time no more
\* rows than files have lines for it and uploads brought, until two processes
\* run at once.
StoredOnce ==
  ~ overlapped =>
    \A k \in Points : \A t \in Times :
      readings[k][t] <= uploaded[k][t] +
        Cardinality(UNION {{<<s, i>> : i \in {j \in DOMAIN file[s] :
                              /\ file[s][j].t = t
                              /\ \E c \in file[s][j].vals : PointOf(s, c) = k}} : s \in Sources})

\* A source that stays configured is read up to its newest line in the range,
\* whatever failed on the way and however broken the other sources are.
FollowsFile ==
  \A s \in Sources :
    <>[](cfg.on /\ \E i \in DOMAIN cfg.sources : cfg.sources[i] = s) =>
      <>[](\A i \in DOMAIN file[s] :
             cfg.start < file[s][i].t /\ file[s][i].t <= cfg.end => file[s][i].t <= last[s])
==============================================================================
