---------------------------- MODULE CsvIngestProofs ----------------------------
(***************************************************************************)
(* The safety of CsvIngest for any number of files, scrapers and settings, *)
(* of any length.  What a process read of a file falls behind the file     *)
(* while others write to it; the inductive invariant says by how much: a   *)
(* value it did not see is excused, or later than every line it saw.  The  *)
(* cursor, which never passes the lines that were seen, therefore passes   *)
(* no value that was not.                                                  *)
(***************************************************************************)
EXTENDS CsvIngest, FiniteSetTheorems, TLAPS

\* A run has a source at hand.
AtSource == \A p \in Procs : Busy(p) => todo[p] # <<>>

\* Of a file with these lines, every value up to ts is stored, or excused.
StoredUpTo(lines, s, ts, stored, waived) ==
  \A i \in DOMAIN lines : \A c \in lines[i].vals :
    /\ lines[i].t # NoTime /\ lines[i].t <= ts
    /\ <<s, i, c>> \notin waived
    => stored[PointOf(s, c)][lines[i].t] >= 1

\* A cursor is not past the file.
WithinFile(lines, ts) == ts = NoTime \/ \E i \in DOMAIN lines : ts <= lines[i].t

CursorsHold ==
  \A s \in Sources : /\ StoredUpTo(file[s], s, last[s], readings, excused)
                     /\ WithinFile(file[s], last[s])

\* What was read is how the file began.
ReadOf(lines, rows) ==
  /\ Len(rows) <= Len(lines)
  /\ \A i \in DOMAIN rows : /\ rows[i].t \in {NoTime, lines[i].t}
                            /\ rows[i].vals \subseteq lines[i].vals

\* A value that is not in it is excused, or later than every line of it.
LaterThan(lines, s, rows, waived) ==
  \A i \in DOMAIN lines : \A c \in lines[i].vals :
    lines[i].t # NoTime /\ <<s, i, c>> \notin waived =>
      \/ i \in DOMAIN rows /\ rows[i].t = lines[i].t /\ c \in rows[i].vals
      \/ \A j \in DOMAIN rows : rows[j].t < lines[i].t

At(p) == Head(todo[p])
LoadedHolds ==
  \A p \in Procs : pc[p] = "store" =>
    /\ StoredUpTo(file[At(p)], At(p), had[p], readings, excused)
    /\ WithinFile(file[At(p)], had[p])
ReadHolds ==
  \A p \in Procs : pc[p] \in {"load", "store"} =>
    ReadOf(file[At(p)], df[p]) /\ LaterThan(file[At(p)], At(p), df[p], excused)

\* Until two runs overlap, one process is in a run, and it knows the cursor.
OneAtATime ==
  ~ overlapped =>
    /\ \A p, q \in Procs : Busy(p) /\ Busy(q) => p = q
    /\ \A p \in Procs : pc[p] = "store" => had[p] = last[At(p)]

\* In files f with the cursors l, the lines of time t up to the cursor that have
\* a value for point k.
StoredLines(f, l, k, t) ==
  UNION {{<<s, i>> : i \in {j \in DOMAIN f[s] :
            /\ f[s][j].t = t /\ t <= l[s]
            /\ \E c \in f[s][j].vals : PointOf(s, c) = k}} : s \in Sources}

\* Only lines up to the cursor were stored.
RowsAreLines ==
  ~ overlapped =>
    \A k \in Points : \A t \in Times :
      readings[k][t] <= uploaded[k][t] + Cardinality(StoredLines(file, last, k, t))

Types == TypeOK /\ AtSource
Held == CursorsHold /\ LoadedHolds /\ ReadHolds
IInv == Types /\ Held /\ OneAtATime /\ RowsAreLines

------------------------------------------------------------------------------
\* What the constants are.

LEMMA SettingShape ==
  ASSUME NEW c \in Settings
  PROVE  c.start \in Nat /\ c.end \in Nat /\ c.sources \in Seq(Sources)
  BY CsvShape

LEMMA LineShape ==
  ASSUME NEW l \in Lines
  PROVE  /\ l.t \in Nat /\ l.t \in Times \cup {NoTime}
         /\ l.t # NoTime => l.t \in Times
         /\ l.vals \subseteq Cols
         /\ l.t = NoTime => l.vals = {}
  BY CsvShape DEF Lines, Torn, Times, NoTime

LEMMA PointOfIsPoint ==
  ASSUME NEW s \in Sources, NEW c \in Cols
  PROVE  PointOf(s, c) \in Points
  BY CsvShape DEF PointOf, Points

\* Where a process goes from a source.
LEMMA RestIsIdle == \A p \in Procs : Rest(p) \in {"poll", "idle"}
  BY DEF Rest

\* A set of numbers below a bound that is not empty has a largest.
LEMMA LargestExists ==
  ASSUME NEW n \in Nat, NEW T \in SUBSET (0..n), T # {}
  PROVE  \E x \in T : \A y \in T : y <= x
  <1> DEFINE U == {n - x : x \in T}
  <1>0. \A x \in T : x \in Nat /\ n - x \in Nat
    OBVIOUS
  <1>1. U \subseteq Nat /\ U # {}
    <2>1. U \subseteq Nat
      BY <1>0
    <2>2. PICK x \in T : TRUE
      OBVIOUS
    <2>3. n - x \in U
      BY <2>2
    <2> QED BY <2>1, <2>3
  <1> HIDE DEF U
  <1>2. PICK m \in U : \A y \in U : ~ (<<y, m>> \in OpToRel(<, Nat))
    BY <1>1, WFMin, NatLessThanWellFounded, Zenon
  <1>3. PICK x \in T : m = n - x
    BY DEF U
  <1>4. ASSUME NEW y \in T PROVE y <= x
    <2>1. n - y \in U
      BY DEF U
    <2>2. ~ (n - y < m)
      BY <1>1, <1>2, <2>1 DEF OpToRel
    <2> QED BY <1>0, <1>3, <2>2
  <1> QED BY <1>4

\* The newest line taken is one of those taken.
LEMMA NewestIsTaken ==
  ASSUME TypeOK, NEW p \in Procs, Taken(p) # {}
  PROVE  \E i \in Taken(p) : /\ Newest(p) = df[p][i].t
                             /\ \A j \in Taken(p) : df[p][j].t <= df[p][i].t
  <1> DEFINE T == {df[p][i].t : i \in Taken(p)}
  <1>1. df[p] \in Seq(Lines)
    BY DEF TypeOK
  <1>2. \A i \in Taken(p) : df[p][i] \in Lines
    BY <1>1 DEF Taken
  <1>3. T \in SUBSET (0..LastTime) /\ T # {} /\ LastTime \in Nat
    BY <1>2, LineShape, CsvShape DEF Times, NoTime
  <1>4. PICK x \in T : \A y \in T : y <= x
    BY <1>3, LargestExists, Zenon
  <1>5. \E i \in Taken(p) : \A j \in Taken(p) : df[p][j].t <= df[p][i].t
    BY <1>4
  <1> QED BY <1>5 DEF Newest

\* The cursor a commit stores: the one that was loaded, or the time of a line
\* after it.
LEMMA CursorIs ==
  ASSUME TypeOK, NEW p \in Procs
  PROVE  \/ Taken(p) = {} /\ Cursor(p) = had[p]
         \/ \E i \in Taken(p) : Cursor(p) = df[p][i].t /\ df[p][i].t > Floor(p)
  BY NewestIsTaken DEF Cursor, Taken

LEMMA FloorShape ==
  ASSUME TypeOK, NEW p \in Procs
  PROVE  /\ Floor(p) \in Nat /\ seen[p].start \in Nat /\ seen[p].end \in Nat /\ had[p] \in Nat
         /\ Floor(p) >= had[p] /\ Floor(p) >= seen[p].start
         /\ Floor(p) \in {had[p], seen[p].start}
  <1>1. seen[p] \in Settings /\ had[p] \in Times \cup {NoTime}
    BY DEF TypeOK
  <1>2. seen[p].start \in Nat /\ seen[p].end \in Nat
    BY <1>1, SettingShape
  <1>3. had[p] \in Nat
    BY <1>1, CsvShape DEF Times, NoTime
  <1> QED BY <1>2, <1>3 DEF Floor

LEMMA CursorShape ==
  ASSUME TypeOK, NEW p \in Procs
  PROVE  Cursor(p) \in Times \cup {NoTime} /\ Cursor(p) \in Nat /\ Cursor(p) >= had[p]
  <1>1. df[p] \in Seq(Lines) /\ had[p] \in Times \cup {NoTime}
    BY DEF TypeOK
  <1>2. had[p] \in Nat /\ Floor(p) \in Nat /\ Floor(p) >= had[p]
    BY FloorShape
  <1>3. CASE Cursor(p) = had[p]
    BY <1>1, <1>2, <1>3
  <1>4. ASSUME NEW i \in Taken(p), Cursor(p) = df[p][i].t, df[p][i].t > Floor(p)
        PROVE  Cursor(p) \in Times \cup {NoTime} /\ Cursor(p) \in Nat /\ Cursor(p) >= had[p]
    <2>1. df[p][i] \in Lines
      BY <1>1 DEF Taken
    <2>2. df[p][i].t \in Nat /\ df[p][i].t \in Times \cup {NoTime}
      BY <2>1, LineShape
    <2> QED BY <1>2, <1>4, <2>2
  <1> QED BY <1>3, <1>4, CursorIs
------------------------------------------------------------------------------
\* Types.

RunTypes ==
  /\ pc \in [Procs -> {"poll", "file", "load", "store", "idle"}]
  /\ seen \in [Procs -> Settings]
  /\ todo \in [Procs -> Seq(Sources)]
  /\ df \in [Procs -> Seq(Lines)]
  /\ had \in [Procs -> Times \cup {NoTime}]
  /\ AtSource

\* What a step of p leaves alone of the other processes.
OthersStay(p) ==
  \A q \in Procs \ {p} :
    pc'[q] = pc[q] /\ seen'[q] = seen[q] /\ todo'[q] = todo[q] /\ df'[q] = df[q] /\ had'[q] = had[q]

\* The source at hand is a source, the rest of the list is a list of sources.
LEMMA SourceAtHand ==
  ASSUME Types, NEW p \in Procs, Busy(p)
  PROVE  At(p) \in Sources /\ Tail(todo[p]) \in Seq(Sources)
  <1>1. todo[p] \in Seq(Sources) /\ todo[p] # <<>>
    BY DEF Types, TypeOK, AtSource
  <1> QED BY <1>1 DEF At

LEMMA ProceedTypes ==
  ASSUME Types, NEW p \in Procs, NEW rest \in Seq(Sources), Proceed(p, rest)
  PROVE  RunTypes' /\ OthersStay(p) /\ pc'[p] \in {"file", "poll", "idle"}
  <1>1. RunTypes
    BY DEF Types, TypeOK, RunTypes
  <1>2. Rest(p) \in {"poll", "idle"} /\ Default \in Settings
    BY RestIsIdle DEF Settings
  <1>3. CASE rest = <<>>
    <2>1. /\ todo' = [todo EXCEPT ![p] = rest] /\ df' = [df EXCEPT ![p] = <<>>]
          /\ had' = [had EXCEPT ![p] = NoTime] /\ pc' = [pc EXCEPT ![p] = Rest(p)]
          /\ seen' = [seen EXCEPT ![p] = Default]
      BY <1>3 DEF Proceed, Goto
    <2> QED BY <1>1, <1>2, <2>1 DEF RunTypes, AtSource, Busy, OthersStay
  <1>4. CASE rest # <<>>
    <2>1. /\ todo' = [todo EXCEPT ![p] = rest] /\ df' = [df EXCEPT ![p] = <<>>]
          /\ had' = [had EXCEPT ![p] = NoTime] /\ pc' = [pc EXCEPT ![p] = "file"]
          /\ seen' = seen
      BY <1>4 DEF Proceed, Goto
    <2> QED BY <1>1, <1>4, <2>1 DEF RunTypes, AtSource, Busy, OthersStay
  <1> QED BY <1>3, <1>4

LEMMA NextSourceTypes ==
  ASSUME Types, NEW p \in Procs, Busy(p), NextSource(p)
  PROVE  RunTypes' /\ OthersStay(p) /\ pc'[p] \in {"file", "poll", "idle"}
  BY SourceAtHand, ProceedTypes DEF NextSource

\* Inserted rows are added to those that are there.
LEMMA InsertedShape ==
  ASSUME TypeOK, NEW s \in Sources, NEW lines, NEW taken, IsFiniteSet(taken), NEW known
  PROVE  /\ Inserted(s, lines, taken, known) \in [Points -> [Times -> Nat]]
         /\ \A k \in Points : \A t \in Times :
              readings[k][t] <= Inserted(s, lines, taken, known)[k][t]
  <1> DEFINE These(k, t) == {i \in taken : /\ lines[i].t = t /\ k \in known
                                           /\ \E c \in lines[i].vals : k = PointOf(s, c)}
  <1>1. \A k \in Points : \A t \in Times : Cardinality(These(k, t)) \in Nat
    <2>1. SUFFICES ASSUME NEW k \in Points, NEW t \in Times PROVE Cardinality(These(k, t)) \in Nat
      OBVIOUS
    <2>2. These(k, t) \in SUBSET taken
      OBVIOUS
    <2>3. IsFiniteSet(These(k, t))
      BY <2>2, FS_Subset
    <2> QED BY <2>3, FS_CardinalityType
  <1>2. Inserted(s, lines, taken, known)
          = [k \in Points |-> [t \in Times |-> readings[k][t] + Cardinality(These(k, t))]]
    BY DEF Inserted
  <1>3. \A k \in Points : \A t \in Times : readings[k][t] \in Nat
    BY DEF TypeOK
  <1> HIDE DEF These
  <1> QED BY <1>1, <1>2, <1>3

\* A run takes finitely many lines.
LEMMA TakenIsFinite ==
  ASSUME TypeOK, NEW p \in Procs
  PROVE  IsFiniteSet(Taken(p))
  <1>1. df[p] \in Seq(Lines)
    BY DEF TypeOK
  <1>2. Taken(p) \in SUBSET (1..Len(df[p])) /\ Len(df[p]) \in Nat
    BY <1>1 DEF Taken
  <1>3. IsFiniteSet(1..Len(df[p]))
    BY <1>2, FS_Interval
  <1> QED BY <1>2, <1>3, FS_Subset

LEMMA StepTypes ==
  ASSUME Types, NEW p \in Procs, Step(p)
  PROVE  Types'
  <1> USE DEF Types
  <1>0. RunTypes
    BY DEF TypeOK, RunTypes
  <1>c. counts' = counts \/ Fault \/ Request => requests' \in Nat /\ faults' \in Nat
    BY DEF TypeOK, counts, Fault, Request
  <1>1. CASE BeginCycle(p)
    <2>1. PICK c \in {cfg, Default} :
            /\ IF c = cfg THEN UNCHANGED counts ELSE Fault
            /\ IF c.on /\ c.sources # <<>>
               THEN /\ seen' = [seen EXCEPT ![p] = c]
                    /\ todo' = [todo EXCEPT ![p] = c.sources]
                    /\ Goto(p, "file")
                    /\ overlapped' = (overlapped \/ \E q \in Procs \ {p} : Busy(q))
               ELSE Goto(p, Rest(p)) /\ UNCHANGED <<seen, todo, overlapped>>
      BY <1>1 DEF BeginCycle
    <2>2. c \in Settings
      BY DEF TypeOK, Settings
    <2>3. requests' \in Nat /\ faults' \in Nat
      BY <1>c, <2>1
    <2>4. UNCHANGED <<cfg, file, last, points, readings, df, had, uploaded, excused>>
      BY <1>1 DEF BeginCycle
    <2>5. overlapped' \in BOOLEAN
      BY <2>1 DEF TypeOK
    <2>6. RunTypes'
      <3>1. CASE c.on /\ c.sources # <<>>
        <4>1. c.sources \in Seq(Sources)
          BY <2>2, SettingShape
        <4>2. /\ seen' = [seen EXCEPT ![p] = c] /\ todo' = [todo EXCEPT ![p] = c.sources]
              /\ pc' = [pc EXCEPT ![p] = "file"] /\ df' = df /\ had' = had
          BY <2>1, <2>4, <3>1 DEF Goto
        <4> QED BY <1>0, <2>2, <3>1, <4>1, <4>2 DEF RunTypes, AtSource, Busy
      <3>2. CASE ~ (c.on /\ c.sources # <<>>)
        <4>1. /\ seen' = seen /\ todo' = todo
              /\ pc' = [pc EXCEPT ![p] = Rest(p)] /\ df' = df /\ had' = had
          BY <2>1, <2>4, <3>2 DEF Goto
        <4> QED BY <1>0, <4>1, RestIsIdle DEF RunTypes, AtSource, Busy
      <3> QED BY <3>1, <3>2
    <2> QED BY <2>3, <2>4, <2>5, <2>6 DEF TypeOK, RunTypes
  <1>2. CASE ReadFile(p)
    <2>1. Busy(p) /\ UNCHANGED <<cfg, file, last, points, readings, counts, uploaded, excused, overlapped>>
      BY <1>2 DEF ReadFile, Busy
    <2>2. RunTypes'
      <3>1. CASE NextSource(p)
        BY <2>1, <3>1, NextSourceTypes
      <3>2. CASE df' = [df EXCEPT ![p] = file[At(p)]] /\ Goto(p, "load") /\ UNCHANGED <<seen, todo, had>>
        <4>1. file[At(p)] \in Seq(Lines)
          BY <2>1, SourceAtHand DEF TypeOK
        <4>2. todo[p] # <<>>
          BY <2>1 DEF AtSource
        <4> QED BY <1>0, <3>2, <4>1, <4>2 DEF RunTypes, AtSource, Busy, Goto
      <3> QED BY <1>2, <3>1, <3>2 DEF ReadFile, At
    <2> QED BY <2>1, <2>2 DEF TypeOK, RunTypes, counts
  <1>3. CASE SkipSource(p)
    <2>1. RunTypes'
      BY <1>3, NextSourceTypes DEF SkipSource, Busy
    <2>2. requests' \in Nat /\ faults' \in Nat
      BY <1>3, <1>c DEF SkipSource
    <2> QED BY <1>3, <2>1, <2>2 DEF TypeOK, RunTypes, SkipSource
  <1>4. CASE LoadState(p)
    <2>1. Busy(p)
      BY <1>4 DEF LoadState, Busy
    <2>2. At(p) \in Sources /\ todo[p] # <<>>
      BY <2>1, SourceAtHand DEF AtSource
    <2>3. had' = [had EXCEPT ![p] = last[At(p)]] /\ pc' = [pc EXCEPT ![p] = "store"]
          /\ UNCHANGED <<seen, todo, df>>
      BY <1>4 DEF LoadState, Loaded, At, Goto
    <2>4. last[At(p)] \in Times \cup {NoTime}
      BY <2>2 DEF TypeOK
    <2>5. RunTypes'
      BY <1>0, <2>2, <2>3, <2>4 DEF RunTypes, AtSource, Busy
    <2> QED BY <1>4, <2>5 DEF TypeOK, RunTypes, LoadState, counts
  <1>5. CASE StoreRows(p)
    <2>1. Busy(p)
      BY <1>5 DEF StoreRows, Busy
    <2>2. At(p) \in Sources
      BY <2>1, SourceAtHand
    <2>3. RunTypes'
      BY <1>5, <2>1, NextSourceTypes DEF StoreRows
    <2> DEFINE known == IF Taken(p) = {} THEN points ELSE Resolved(At(p), seen[p].create)
    <2>4. /\ points' = known /\ readings' = Inserted(At(p), df[p], Taken(p), known)
          /\ last' = [last EXCEPT ![At(p)] = Cursor(p)]
      BY <1>5 DEF StoreRows, Saved, At
    <2>5. known \subseteq Points
      BY <2>2, PointOfIsPoint DEF Resolved, TypeOK
    <2>6. readings' \in [Points -> [Times -> Nat]]
      BY <2>2, <2>4, TakenIsFinite, InsertedShape
    <2>7. last' \in [Sources -> Times \cup {NoTime}]
      BY <2>2, <2>4, CursorShape DEF TypeOK
    <2> HIDE DEF known
    <2> QED BY <1>5, <2>3, <2>4, <2>5, <2>6, <2>7 DEF TypeOK, RunTypes, StoreRows, counts
  <1>6. CASE StoreFails(p)
    <2>1. RunTypes'
      BY <1>6, NextSourceTypes DEF StoreFails, Busy
    <2>2. requests' \in Nat /\ faults' \in Nat
      BY <1>6, <1>c DEF StoreFails
    <2> QED BY <1>6, <2>1, <2>2 DEF TypeOK, RunTypes, StoreFails
  <1>7. CASE AbandonRun(p)
    <2>0. <<>> \in Seq(Sources)
      OBVIOUS
    <2>1. RunTypes'
      BY <1>7, <2>0, ProceedTypes DEF AbandonRun
    <2>2. requests' \in Nat /\ faults' \in Nat
      BY <1>7, <1>c DEF AbandonRun
    <2> QED BY <1>7, <2>1, <2>2 DEF TypeOK, RunTypes, AbandonRun
  <1>8. CASE StartByHand(p)
    <2>1. pc' = [pc EXCEPT ![p] = "poll"] /\ UNCHANGED <<seen, todo, df, had>>
      BY <1>8 DEF StartByHand, Goto
    <2>2. RunTypes'
      BY <1>0, <2>1 DEF RunTypes, AtSource, Busy
    <2>3. requests' \in Nat /\ faults' \in Nat
      BY <1>8, <1>c DEF StartByHand
    <2> QED BY <1>8, <2>2, <2>3 DEF TypeOK, RunTypes, StartByHand
  <1> QED BY <1>1, <1>2, <1>3, <1>4, <1>5, <1>6, <1>7, <1>8 DEF Step
\* A line appended to a file, or written over its last one.
LEMMA LineAdded ==
  ASSUME NEW lines \in Seq(Lines), NEW l \in Lines
  PROVE  /\ Append(lines, l) \in Seq(Lines)
         /\ Len(Append(lines, l)) = Len(lines) + 1
         /\ DOMAIN Append(lines, l) = DOMAIN lines \cup {Len(lines) + 1}
         /\ \A i \in DOMAIN lines : Append(lines, l)[i] = lines[i]
         /\ Append(lines, l)[Len(lines) + 1] = l
  OBVIOUS

LEMMA LineFinished ==
  ASSUME NEW lines \in Seq(Lines), NEW l \in Lines, Len(lines) > 0
  PROVE  LET new == [lines EXCEPT ![Len(lines)] = l] IN
         /\ new \in Seq(Lines)
         /\ Len(new) = Len(lines) /\ DOMAIN new = DOMAIN lines /\ Len(lines) \in DOMAIN lines
         /\ \A i \in DOMAIN lines : i # Len(lines) => new[i] = lines[i]
         /\ new[Len(lines)] = l
  OBVIOUS

LEMMA FinishedFile ==
  ASSUME TypeOK, NEW s \in Sources, NEW l \in Lines, FinishLine(s, l)
  PROVE  /\ file' = [file EXCEPT ![s] = [file[s] EXCEPT ![Len(file[s])] = l]]
         /\ file[s] \in Seq(Lines) /\ Len(file[s]) > 0
  BY DEF FinishLine, TypeOK

\* What an upload puts in and counts.
LEMMA UploadShape ==
  ASSUME TypeOK, NEW s \in Sources, NEW rows \in Uploads, NEW create \in BOOLEAN,
         Upload(s, rows, create)
  PROVE  /\ points' \in SUBSET Points
         /\ readings' \in [Points -> [Times -> Nat]]
         /\ uploaded' \in [Points -> [Times -> Nat]]
         /\ \A k \in Points : \A t \in Times :
              /\ readings[k][t] <= readings'[k][t]
              /\ uploaded'[k][t] = uploaded[k][t] + (readings'[k][t] - readings[k][t])
  <1> DEFINE known == Resolved(s, create)
  <1>1. /\ points' = known
        /\ readings' = Inserted(s, [l \in rows |-> l], rows, known)
        /\ uploaded' = [k \in Points |-> [t \in Times |->
                          uploaded[k][t] + (readings'[k][t] - readings[k][t])]]
    BY DEF Upload, IngestDataframe
  <1>2. known \in SUBSET Points
    BY PointOfIsPoint DEF Resolved, TypeOK
  <1>3. IsFiniteSet(rows)
    BY CsvShape
  <1> HIDE DEF known
  <1>4. /\ readings' \in [Points -> [Times -> Nat]]
        /\ \A k \in Points : \A t \in Times : readings[k][t] <= readings'[k][t]
    BY <1>1, <1>3, InsertedShape
  <1>5. \A k \in Points : \A t \in Times :
          uploaded[k][t] + (readings'[k][t] - readings[k][t]) \in Nat
    <2>1. \A k \in Points : \A t \in Times :
            uploaded[k][t] \in Nat /\ readings[k][t] \in Nat /\ readings'[k][t] \in Nat
      BY <1>4 DEF TypeOK
    <2> QED BY <1>4, <2>1
  <1> QED BY <1>1, <1>2, <1>4, <1>5

LEMMA DeletedReadings ==
  ASSUME TypeOK, NEW k \in Points, DeletePoint(k)
  PROVE  /\ readings' \in [Points -> [Times -> Nat]]
         /\ \A t \in Times : readings'[k][t] = 0
         /\ \A j \in Points : j # k => readings'[j] = readings[j]
  BY DEF DeletePoint, TypeOK

LEMMA OutsideTypes ==
  ASSUME Types, Next, ~ \E p \in Procs : Step(p)
  PROVE  Types' /\ run' = run /\ last' = last /\ overlapped' = overlapped
  <1> USE DEF Types
  <1>c. counts' = counts \/ Fault \/ Request => requests' \in Nat /\ faults' \in Nat
    BY DEF TypeOK, counts, Fault, Request
  <1>a. run' = run /\ AtSource => AtSource'
    BY DEF run, AtSource, Busy
  <1>1. ASSUME NEW s \in Sources, NEW l \in Lines, AppendLine(s, l)
        PROVE  Types' /\ run' = run /\ last' = last /\ overlapped' = overlapped
    <2>1. file' = [file EXCEPT ![s] = Append(file[s], l)] /\ file[s] \in Seq(Lines)
      BY <1>1 DEF AppendLine, TypeOK
    <2>2. file' \in [Sources -> Seq(Lines)]
      BY <2>1, LineAdded DEF TypeOK
    <2> QED BY <1>1, <1>a, <2>2 DEF AppendLine, TypeOK, run, counts
  <1>2. ASSUME NEW s \in Sources, NEW l \in Lines, FinishLine(s, l)
        PROVE  Types' /\ run' = run /\ last' = last /\ overlapped' = overlapped
    <2> DEFINE new == [file[s] EXCEPT ![Len(file[s])] = l]
    <2>2. file' = [file EXCEPT ![s] = new] /\ file[s] \in Seq(Lines) /\ Len(file[s]) > 0
      BY <1>2, FinishedFile
    <2>3. new \in Seq(Lines)
      BY <2>2, LineFinished
    <2> HIDE DEF new
    <2>1. file' \in [Sources -> Seq(Lines)]
      BY <2>2, <2>3 DEF TypeOK
    <2> QED BY <1>2, <1>a, <2>1 DEF FinishLine, TypeOK, run, counts
  <1>3. ASSUME NEW s \in Sources, NEW rows \in Uploads, NEW create \in BOOLEAN, Upload(s, rows, create)
        PROVE  Types' /\ run' = run /\ last' = last /\ overlapped' = overlapped
    BY <1>3, <1>a, <1>c, UploadShape DEF Upload, TypeOK, run
  <1>4. ASSUME NEW k \in Points, DeletePoint(k)
        PROVE  Types' /\ run' = run /\ last' = last /\ overlapped' = overlapped
    BY <1>4, <1>a, <1>c, DeletedReadings DEF DeletePoint, TypeOK, run
  <1>5. ASSUME NEW c \in Settings, PutConfig(c)
        PROVE  Types' /\ run' = run /\ last' = last /\ overlapped' = overlapped
    BY <1>5, <1>a, <1>c DEF PutConfig, TypeOK, run
  <1> QED BY <1>1, <1>2, <1>3, <1>4, <1>5 DEF Next

LEMMA InitTypes == Init => Types
  <1> SUFFICES ASSUME Init PROVE Types
    OBVIOUS
  <1>1. Default \in Settings
    BY DEF Settings
  <1>2. \A p \in Procs : ~ Busy(p)
    BY DEF Init, Busy
  <1>3. /\ pc \in [Procs -> {"poll", "file", "load", "store", "idle"}]
        /\ seen \in [Procs -> Settings] /\ todo \in [Procs -> Seq(Sources)]
        /\ df \in [Procs -> Seq(Lines)] /\ had \in [Procs -> Times \cup {NoTime}]
    BY <1>1 DEF Init
  <1>4. /\ readings \in [Points -> [Times -> Nat]] /\ uploaded \in [Points -> [Times -> Nat]]
        /\ file \in [Sources -> Seq(Lines)] /\ last \in [Sources -> Times \cup {NoTime}]
    BY DEF Init
  <1> QED BY <1>2, <1>3, <1>4 DEF Init, Types, TypeOK, AtSource

LEMMA TypesStep == Types /\ [Next]_vars => Types'
  <1>1. ASSUME Types, UNCHANGED vars PROVE Types'
    BY <1>1 DEF Types, TypeOK, AtSource, Busy, vars, run, counts
  <1>2. ASSUME Types, Next, ~ \E p \in Procs : Step(p) PROVE Types'
    BY <1>2, OutsideTypes
  <1> QED BY <1>1, <1>2, StepTypes

\* Every variable keeps its type, and a run that has a source to read or to
\* store knows which: the list of sources is not used up before the run ends.
THEOREM CsvTypeCorrect == Spec => [](TypeOK /\ AtSource)
  <1>1. Types <=> TypeOK /\ AtSource
    BY DEF Types
  <1> QED BY <1>1, InitTypes, TypesStep, PTL DEF Spec
------------------------------------------------------------------------------
\* What is known of a file survives what happens to it.

\* More rows, or more excuses.
LEMMA StillStored ==
  ASSUME NEW s \in Sources, NEW lines \in Seq(Lines), NEW ts,
         NEW stored \in [Points -> [Times -> Nat]], NEW more \in [Points -> [Times -> Nat]],
         \A k \in Points : \A t \in Times : stored[k][t] <= more[k][t],
         NEW waived, NEW also,
         \A i \in DOMAIN lines : \A c \in Cols : <<s, i, c>> \in waived => <<s, i, c>> \in also,
         StoredUpTo(lines, s, ts, stored, waived)
  PROVE  StoredUpTo(lines, s, ts, more, also)
  <1>1. SUFFICES ASSUME NEW i \in DOMAIN lines, NEW c \in lines[i].vals,
                        lines[i].t # NoTime, lines[i].t <= ts, <<s, i, c>> \notin also
                 PROVE  more[PointOf(s, c)][lines[i].t] >= 1
    BY DEF StoredUpTo
  <1>2. lines[i] \in Lines
    OBVIOUS
  <1>3. c \in Cols /\ lines[i].t \in Times
    BY <1>1, <1>2, LineShape
  <1>4. stored[PointOf(s, c)][lines[i].t] >= 1
    BY <1>1, <1>3 DEF StoredUpTo
  <1>5. PointOf(s, c) \in Points
    BY <1>3, PointOfIsPoint
  <1>6. /\ stored[PointOf(s, c)][lines[i].t] \in Nat /\ more[PointOf(s, c)][lines[i].t] \in Nat
        /\ stored[PointOf(s, c)][lines[i].t] <= more[PointOf(s, c)][lines[i].t]
    BY <1>3, <1>5
  <1> QED BY <1>4, <1>6

LEMMA StillLater ==
  ASSUME NEW s \in Sources, NEW lines \in Seq(Lines), NEW rows, NEW waived, NEW also,
         \A i \in DOMAIN lines : \A c \in Cols : <<s, i, c>> \in waived => <<s, i, c>> \in also,
         LaterThan(lines, s, rows, waived)
  PROVE  LaterThan(lines, s, rows, also)
  <1>1. \A i \in DOMAIN lines : lines[i] \in Lines
    OBVIOUS
  <1>2. \A i \in DOMAIN lines : lines[i].vals \subseteq Cols
    BY <1>1, LineShape
  <1> QED BY <1>2 DEF LaterThan

\* The file grows: lines keep their time, once they have one, and their values;
\* a value that is new is excused, or later than the lines that were there.
Grows(s, lines, new, waived, also) ==
  /\ Len(lines) <= Len(new)
  /\ \A i \in DOMAIN lines : /\ new[i].t = lines[i].t \/ lines[i].t = NoTime
                             /\ lines[i].vals \subseteq new[i].vals
  /\ \A i \in DOMAIN new : \A c \in new[i].vals :
       new[i].t # NoTime /\ <<s, i, c>> \notin also =>
         \/ /\ i \in DOMAIN lines /\ lines[i].t = new[i].t /\ c \in lines[i].vals
            /\ <<s, i, c>> \notin waived
         \/ \A j \in DOMAIN lines : lines[j].t < new[i].t

LEMMA AppendGrows ==
  ASSUME NEW s \in Sources, NEW lines \in Seq(Lines), NEW l \in Lines, NEW waived, NEW also,
         also = IF InOrder(s, lines, l.t) THEN waived
                ELSE waived \cup ({s} \X {Len(lines) + 1} \X Cols)
  PROVE  Grows(s, lines, Append(lines, l), waived, also)
  <1> DEFINE new == Append(lines, l)
  <1>0. /\ Len(new) = Len(lines) + 1 /\ DOMAIN new = DOMAIN lines \cup {Len(lines) + 1}
        /\ \A i \in DOMAIN lines : new[i] = lines[i]
        /\ new[Len(lines) + 1] = l
        /\ Len(lines) \in Nat
    BY LineAdded
  <1>1. ASSUME NEW i \in DOMAIN new, NEW c \in new[i].vals,
               new[i].t # NoTime, <<s, i, c>> \notin also
        PROVE  \/ /\ i \in DOMAIN lines /\ lines[i].t = new[i].t /\ c \in lines[i].vals
                  /\ <<s, i, c>> \notin waived
               \/ \A j \in DOMAIN lines : lines[j].t < new[i].t
    <2>1. CASE i \in DOMAIN lines
      BY <1>0, <1>1, <2>1
    <2>2. CASE i = Len(lines) + 1
      <3>1. new[i] = l
        BY <1>0, <2>2
      <3>2. c \in Cols
        BY <3>1, <1>1, LineShape
      <3>3. InOrder(s, lines, l.t)
        BY <1>1, <2>2, <3>2
      <3> QED BY <3>1, <3>3 DEF InOrder
    <2> QED BY <1>0, <2>1, <2>2
  <1>2. Len(lines) <= Len(new)
    BY <1>0
  <1> HIDE DEF new
  <1>3. Grows(s, lines, new, waived, also)
    BY <1>0, <1>1, <1>2 DEF Grows
  <1> QED BY <1>3 DEF new

LEMMA FinishGrows ==
  ASSUME NEW s \in Sources, NEW lines \in Seq(Lines), NEW l \in Lines, NEW waived, NEW also,
         NEW n, n = Len(lines), n > 0,
         lines[n].t \in {NoTime, l.t}, l.t # NoTime, lines[n].vals \subseteq l.vals,
         also = IF lines[n].t = NoTime /\ InOrder(s, SubSeq(lines, 1, n - 1), l.t)
                THEN waived \ ({s} \X {n} \X Cols)
                ELSE waived \cup ({s} \X {n} \X (l.vals \ lines[n].vals))
  PROVE  Grows(s, lines, [lines EXCEPT ![n] = l], waived, also)
  <1> DEFINE new == [lines EXCEPT ![n] = l]
  <1>0. /\ Len(new) = Len(lines) /\ DOMAIN new = DOMAIN lines /\ n \in DOMAIN lines
        /\ \A i \in DOMAIN lines : i # n => new[i] = lines[i]
        /\ new[n] = l
        /\ Len(lines) \in Nat
    BY LineFinished
  <1>a. lines[n] \in Lines
    BY <1>0
  <1>b. l.t \in Nat /\ l.vals \subseteq Cols /\ (lines[n].t = NoTime => lines[n].vals = {})
    BY <1>a, LineShape
  <1>1. ASSUME NEW i \in DOMAIN new, NEW c \in new[i].vals,
               new[i].t # NoTime, <<s, i, c>> \notin also
        PROVE  \/ /\ i \in DOMAIN lines /\ lines[i].t = new[i].t /\ c \in lines[i].vals
                  /\ <<s, i, c>> \notin waived
               \/ \A j \in DOMAIN lines : lines[j].t < new[i].t
    <2>1. CASE i # n
      <3>1. <<s, i, c>> \notin waived
        BY <1>1, <2>1
      <3> QED BY <1>0, <1>1, <2>1, <3>1
    <2>2. CASE i = n /\ lines[n].t = NoTime /\ InOrder(s, SubSeq(lines, 1, n - 1), l.t)
      <3>1. \A j \in 1..(n - 1) : lines[j].t < l.t
        <4>1. /\ SubSeq(lines, 1, n - 1) \in Seq(Lines)
              /\ DOMAIN SubSeq(lines, 1, n - 1) = 1..(n - 1)
              /\ \A j \in 1..(n - 1) : SubSeq(lines, 1, n - 1)[j] = lines[j]
          BY <1>0
        <4> QED BY <2>2, <4>1 DEF InOrder
      <3>2. lines[n].t < l.t
        BY <1>b, <2>2 DEF NoTime
      <3>3. \A j \in DOMAIN lines : j \in 1..(n - 1) \/ j = n
        BY <1>0
      <3>4. new[i] = l
        BY <1>0, <2>2
      <3> QED BY <3>1, <3>2, <3>3, <3>4
    <2>3. CASE i = n /\ ~ (lines[n].t = NoTime /\ InOrder(s, SubSeq(lines, 1, n - 1), l.t))
      <3>1. also = waived \cup ({s} \X {n} \X (l.vals \ lines[n].vals))
        BY <2>3
      <3>2. new[i] = l
        BY <1>0, <2>3
      <3>3. c \in lines[n].vals /\ <<s, i, c>> \notin waived
        BY <1>1, <2>3, <3>1, <3>2
      <3>4. lines[n].t = l.t
        BY <1>b, <3>3
      <3> QED BY <1>0, <2>3, <3>2, <3>3, <3>4
    <2> QED BY <2>1, <2>2, <2>3
  <1>2. \A i \in DOMAIN lines : /\ new[i].t = lines[i].t \/ lines[i].t = NoTime
                                /\ lines[i].vals \subseteq new[i].vals
    BY <1>0
  <1>3. Len(lines) <= Len(new)
    BY <1>0
  <1> HIDE DEF new
  <1>4. Grows(s, lines, new, waived, also)
    BY <1>1, <1>2, <1>3 DEF Grows
  <1> QED BY <1>4 DEF new

LEMMA GrownStored ==
  ASSUME NEW s \in Sources, NEW lines \in Seq(Lines), NEW new \in Seq(Lines),
         NEW ts \in Nat, NEW stored, NEW waived, NEW also,
         Grows(s, lines, new, waived, also),
         StoredUpTo(lines, s, ts, stored, waived), WithinFile(lines, ts)
  PROVE  StoredUpTo(new, s, ts, stored, also) /\ WithinFile(new, ts)
  <1>1. ASSUME NEW i \in DOMAIN lines PROVE i \in DOMAIN new /\ lines[i].t \in Nat /\ new[i].t \in Nat
    <2>1. i \in DOMAIN new
      BY DEF Grows
    <2>2. lines[i] \in Lines /\ new[i] \in Lines
      BY <2>1
    <2> QED BY <2>1, <2>2, LineShape
  <1>2. WithinFile(new, ts)
    <2>1. ASSUME NEW i \in DOMAIN lines, ts <= lines[i].t, ts # NoTime
          PROVE  i \in DOMAIN new /\ ts <= new[i].t
      <3>1. lines[i].t # NoTime
        BY <1>1, <2>1 DEF NoTime
      <3> QED BY <1>1, <2>1, <3>1 DEF Grows
    <2> QED BY <2>1 DEF WithinFile
  <1>3. SUFFICES ASSUME NEW i \in DOMAIN new, NEW c \in new[i].vals,
                        new[i].t # NoTime, new[i].t <= ts, <<s, i, c>> \notin also
                 PROVE  stored[PointOf(s, c)][new[i].t] >= 1
    BY <1>2 DEF StoredUpTo
  <1>4. new[i].t \in Nat
    <2>1. new[i] \in Lines
      OBVIOUS
    <2> QED BY <2>1, LineShape
  <1>5. CASE \A j \in DOMAIN lines : lines[j].t < new[i].t
    <2>1. ts < new[i].t
      BY <1>1, <1>3, <1>4, <1>5 DEF WithinFile, NoTime
    <2> QED BY <1>3, <1>4, <2>1
  <1>6. CASE /\ i \in DOMAIN lines /\ lines[i].t = new[i].t /\ c \in lines[i].vals
             /\ <<s, i, c>> \notin waived
    BY <1>3, <1>6 DEF StoredUpTo
  <1> QED BY <1>3, <1>5, <1>6 DEF Grows

LEMMA GrownRead ==
  ASSUME NEW s \in Sources, NEW lines \in Seq(Lines), NEW new \in Seq(Lines),
         NEW rows \in Seq(Lines), NEW waived, NEW also,
         Grows(s, lines, new, waived, also),
         ReadOf(lines, rows), LaterThan(lines, s, rows, waived)
  PROVE  ReadOf(new, rows) /\ LaterThan(new, s, rows, also)
  <1>0. \A i \in DOMAIN rows : i \in DOMAIN lines /\ i \in DOMAIN new
    BY DEF ReadOf, Grows
  <1>1. ReadOf(new, rows)
    <2>1. Len(rows) <= Len(new)
      BY DEF ReadOf, Grows
    <2>2. ASSUME NEW i \in DOMAIN rows
          PROVE  rows[i].t \in {NoTime, new[i].t} /\ rows[i].vals \subseteq new[i].vals
      BY <1>0 DEF ReadOf, Grows
    <2> QED BY <2>1, <2>2 DEF ReadOf
  <1>2. SUFFICES ASSUME NEW i \in DOMAIN new, NEW c \in new[i].vals,
                        new[i].t # NoTime, <<s, i, c>> \notin also
                 PROVE  \/ i \in DOMAIN rows /\ rows[i].t = new[i].t /\ c \in rows[i].vals
                        \/ \A j \in DOMAIN rows : rows[j].t < new[i].t
    BY <1>1 DEF LaterThan
  <1>3. new[i].t \in Nat
    <2>1. new[i] \in Lines
      OBVIOUS
    <2> QED BY <2>1, LineShape
  <1>4. CASE \A j \in DOMAIN lines : lines[j].t < new[i].t
    BY <1>0, <1>2, <1>3, <1>4 DEF ReadOf, NoTime
  <1>5. CASE /\ i \in DOMAIN lines /\ lines[i].t = new[i].t /\ c \in lines[i].vals
             /\ <<s, i, c>> \notin waived
    BY <1>2, <1>5 DEF LaterThan
  <1> QED BY <1>2, <1>4, <1>5 DEF Grows
------------------------------------------------------------------------------
\* No value is missed.

\* A step after which p has no lines at hand, and that stores nothing.
LEMMA QuietHolds ==
  ASSUME Types, Held, NEW p \in Procs, OthersStay(p), pc'[p] \notin {"load", "store"},
         UNCHANGED <<file, last, readings, excused>>
  PROVE  Held'
  <1>1. CursorsHold'
    BY DEF Held, CursorsHold
  <1>2. ASSUME NEW q \in Procs, pc'[q] \in {"load", "store"}
        PROVE  pc[q] = pc'[q] /\ At(q)' = At(q) /\ df'[q] = df[q] /\ had'[q] = had[q]
    BY <1>2 DEF OthersStay, At
  <1>3. LoadedHolds'
    BY <1>2 DEF Held, LoadedHolds
  <1>4. ReadHolds'
    BY <1>2 DEF Held, ReadHolds
  <1> QED BY <1>1, <1>3, <1>4 DEF Held

\* The whole file is read.
LEMMA ReadHoldsAfter ==
  ASSUME Types, Held, NEW p \in Procs, ReadFile(p)
  PROVE  Held'
  <1>1. Busy(p) /\ pc[p] = "file"
    BY DEF ReadFile, Busy
  <1>2. UNCHANGED <<file, last, readings, excused>>
    BY DEF ReadFile
  <1>3. CASE NextSource(p)
    <2>1. OthersStay(p) /\ pc'[p] \in {"file", "poll", "idle"}
      BY <1>1, <1>3, NextSourceTypes
    <2> QED BY <1>2, <2>1, QuietHolds
  <1>4. CASE df' = [df EXCEPT ![p] = file[At(p)]] /\ Goto(p, "load") /\ UNCHANGED <<seen, todo, had>>
    <2>1. /\ pc'[p] = "load" /\ df'[p] = file[At(p)]
          /\ \A q \in Procs \ {p} : pc'[q] = pc[q] /\ df'[q] = df[q]
          /\ \A q \in Procs : At(q)' = At(q) /\ had'[q] = had[q]
      BY <1>4 DEF Goto, Types, TypeOK, At
    <2>2. CursorsHold'
      BY <1>2 DEF Held, CursorsHold
    <2>3. LoadedHolds'
      BY <1>2, <2>1 DEF Held, LoadedHolds
    <2>4. At(p) \in Sources /\ file[At(p)] \in Seq(Lines)
      BY <1>1, SourceAtHand DEF Types, TypeOK
    <2>5. ReadOf(file[At(p)], file[At(p)])
      BY <2>4 DEF ReadOf
    <2>6. LaterThan(file[At(p)], At(p), file[At(p)], excused)
      BY <2>4 DEF LaterThan
    <2>7. ReadHolds'
      BY <1>2, <2>1, <2>5, <2>6 DEF Held, ReadHolds
    <2> QED BY <2>2, <2>3, <2>7 DEF Held
  <1> QED BY <1>3, <1>4 DEF ReadFile, At

\* The cursor is loaded.
LEMMA LoadHoldsAfter ==
  ASSUME Types, Held, NEW p \in Procs, LoadState(p)
  PROVE  Held'
  <1>1. Busy(p) /\ pc[p] = "load"
    BY DEF LoadState, Busy
  <1>2. UNCHANGED <<file, last, readings, excused, todo, df>>
    BY DEF LoadState
  <1>3. At(p) \in Sources
    BY <1>1, SourceAtHand
  <1>4. /\ pc'[p] = "store" /\ had'[p] = last[At(p)]
        /\ \A q \in Procs \ {p} : pc'[q] = pc[q] /\ had'[q] = had[q]
        /\ \A q \in Procs : At(q)' = At(q)
    BY DEF LoadState, Loaded, Goto, Types, TypeOK, At
  <1>5. CursorsHold'
    BY <1>2 DEF Held, CursorsHold
  <1>6. LoadedHolds'
    BY <1>2, <1>3, <1>4 DEF Held, LoadedHolds, CursorsHold
  <1>7. ReadHolds'
    BY <1>1, <1>2, <1>4 DEF Held, ReadHolds
  <1> QED BY <1>5, <1>6, <1>7 DEF Held

\* What StoreRows writes.
LEMMA StoreWrites ==
  ASSUME Types, NEW p \in Procs, StoreRows(p)
  PROVE  \E known \in SUBSET Points :
           /\ readings' = Inserted(At(p), df[p], Taken(p), known)
           /\ last' = [last EXCEPT ![At(p)] = Cursor(p)]
           /\ excused' = excused \cup PassedBy(At(p), p, known)
           /\ OthersStay(p) /\ pc'[p] \in {"file", "poll", "idle"}
           /\ file' = file /\ uploaded' = uploaded /\ overlapped' = overlapped
           /\ At(p) \in Sources /\ Busy(p)
  <1> DEFINE known == IF Taken(p) = {} THEN points ELSE Resolved(At(p), seen[p].create)
  <1>1. Busy(p) /\ NextSource(p)
    BY DEF StoreRows, Busy
  <1>2. At(p) \in Sources
    BY <1>1, SourceAtHand
  <1>3. known \in SUBSET Points
    BY <1>2, PointOfIsPoint DEF Resolved, Types, TypeOK
  <1>4. OthersStay(p) /\ pc'[p] \in {"file", "poll", "idle"}
    BY <1>1, NextSourceTypes
  <1>5. /\ readings' = Inserted(At(p), df[p], Taken(p), known)
        /\ last' = [last EXCEPT ![At(p)] = Cursor(p)]
        /\ excused' = excused \cup PassedBy(At(p), p, known)
        /\ file' = file /\ uploaded' = uploaded /\ overlapped' = overlapped
    BY DEF StoreRows, Saved, At
  <1> HIDE DEF known
  <1> QED BY <1>1, <1>2, <1>3, <1>4, <1>5

\* The cursor that a commit stores is not past the file.
LEMMA CursorWithinFile ==
  ASSUME Types, Held, NEW p \in Procs, pc[p] = "store"
  PROVE  WithinFile(file[At(p)], Cursor(p))
  <1>1. ReadOf(file[At(p)], df[p]) /\ WithinFile(file[At(p)], had[p])
    BY DEF Held, ReadHolds, LoadedHolds
  <1>2. CASE Cursor(p) = had[p]
    BY <1>1, <1>2
  <1>3. ASSUME NEW i \in Taken(p), Cursor(p) = df[p][i].t, df[p][i].t > Floor(p)
        PROVE  WithinFile(file[At(p)], Cursor(p))
    <2>0. Busy(p)
      BY DEF Busy
    <2>1. df[p] \in Seq(Lines) /\ file[At(p)] \in Seq(Lines)
      BY <2>0, SourceAtHand DEF Types, TypeOK
    <2>2. i \in DOMAIN df[p] /\ i \in DOMAIN file[At(p)]
      BY <1>1, <2>1 DEF Taken, ReadOf
    <2>3. df[p][i] \in Lines /\ file[At(p)][i] \in Lines
      BY <2>1, <2>2
    <2>4. df[p][i].t \in Nat /\ file[At(p)][i].t \in Nat
      BY <2>3, LineShape
    <2>5. Floor(p) \in Nat
      BY FloorShape DEF Types
    <2>6. df[p][i].t = file[At(p)][i].t
      BY <1>1, <1>3, <2>2, <2>4, <2>5 DEF ReadOf, NoTime
    <2> QED BY <1>3, <2>2, <2>4, <2>6 DEF WithinFile
  <1> QED BY <1>2, <1>3, CursorIs DEF Types

\* A commit stores every value up to its cursor that it may not pass by.
LEMMA CommitCovers ==
  ASSUME Types, Held, NEW p \in Procs, pc[p] = "store", NEW known \in SUBSET Points
  PROVE  StoredUpTo(file[At(p)], At(p), Cursor(p),
                    Inserted(At(p), df[p], Taken(p), known), excused \cup PassedBy(At(p), p, known))
  <1> DEFINE s == At(p)
             lines == file[s]
             more == Inserted(s, df[p], Taken(p), known)
  <1>a. s \in Sources
    BY SourceAtHand DEF Busy
  <1>b. lines \in Seq(Lines) /\ df[p] \in Seq(Lines)
    BY <1>a DEF Types, TypeOK
  <1>c. /\ more \in [Points -> [Times -> Nat]]
        /\ \A k \in Points : \A t \in Times : readings[k][t] <= more[k][t]
    BY <1>a, TakenIsFinite, InsertedShape DEF Types
  <1>d. /\ StoredUpTo(lines, s, had[p], readings, excused)
        /\ ReadOf(lines, df[p]) /\ LaterThan(lines, s, df[p], excused)
    BY DEF Held, LoadedHolds, ReadHolds
  <1>1. SUFFICES ASSUME NEW i \in DOMAIN lines, NEW c \in lines[i].vals,
                        lines[i].t # NoTime, lines[i].t <= Cursor(p),
                        <<s, i, c>> \notin excused \cup PassedBy(s, p, known)
                 PROVE  more[PointOf(s, c)][lines[i].t] >= 1
    BY DEF StoredUpTo
  <1> DEFINE t == lines[i].t
             k == PointOf(s, c)
  <1>2. lines[i] \in Lines
    BY <1>b
  <1>3. c \in Cols /\ t \in Times /\ t \in Nat
    BY <1>1, <1>2, LineShape
  <1>4. k \in Points
    BY <1>a, <1>3, PointOfIsPoint
  <1>5. readings[k][t] \in Nat /\ more[k][t] \in Nat /\ readings[k][t] <= more[k][t]
    BY <1>3, <1>4, <1>c DEF Types, TypeOK
  <1>6. had[p] \in Nat /\ Floor(p) \in Nat /\ seen[p].start \in Nat /\ Floor(p) \in {had[p], seen[p].start}
        /\ seen[p].end \in Nat /\ Cursor(p) \in Nat
    BY FloorShape, CursorShape DEF Types
  <1>7. CASE t <= had[p]
    <2>1. readings[k][t] >= 1
      BY <1>1, <1>7, <1>d DEF StoredUpTo
    <2> QED BY <1>5, <2>1
  <1>8. CASE t > had[p]
    <2>1. <<s, i, c>> \in {s} \X (DOMAIN file[s]) \X Cols
      BY <1>3
    <2>2. <<s, i, c>>[2] = i /\ <<s, i, c>>[3] = c
      OBVIOUS
    <2>3. ~ (t <= Cursor(p) /\ (t <= seen[p].start \/ (t > had[p] /\ k \notin known)))
      BY <1>1, <2>1, <2>2 DEF PassedBy
    <2>4. t > Floor(p) /\ k \in known
      BY <1>1, <1>3, <1>6, <1>8, <2>3
    <2>5. PICK j \in Taken(p) : Cursor(p) = df[p][j].t
      BY <1>1, <1>3, <1>6, <1>8, CursorIs DEF Types
    <2>6. j \in DOMAIN df[p] /\ UpToEnd(p, df[p][j]) /\ df[p][j].t \in Nat
      BY <1>6, <2>5 DEF Taken
    <2>7. i \in DOMAIN df[p] /\ df[p][i].t = t /\ c \in df[p][i].vals
      <3>1. ~ \A n \in DOMAIN df[p] : df[p][n].t < t
        BY <1>1, <1>3, <1>6, <2>5, <2>6
      <3> QED BY <1>1, <1>d, <3>1 DEF LaterThan
    <2>8. i \in Taken(p)
      BY <1>1, <1>3, <1>6, <2>4, <2>5, <2>6, <2>7 DEF Taken, UpToEnd
    <2> DEFINE These == {n \in Taken(p) : /\ df[p][n].t = t /\ k \in known
                                          /\ \E d \in df[p][n].vals : k = PointOf(s, d)}
    <2>9. IsFiniteSet(These)
      <3>1. IsFiniteSet(Taken(p)) /\ These \in SUBSET Taken(p)
        BY TakenIsFinite DEF Types
      <3> QED BY <3>1, FS_Subset
    <2>10. i \in These
      BY <2>4, <2>7, <2>8
    <2>11. Cardinality(These) >= 1
      <3>1. Cardinality(These) \in Nat /\ Cardinality(These) # 0
        <4> HIDE DEF These
        <4> QED BY <2>9, <2>10, FS_CardinalityType, FS_EmptySet
      <3> QED BY <3>1
    <2>12. more[k][t] = readings[k][t] + Cardinality(These)
      BY <1>3, <1>4 DEF Inserted
    <2>13. Cardinality(These) \in Nat
      BY <2>9, FS_CardinalityType
    <2> HIDE DEF These
    <2> QED BY <1>5, <2>11, <2>12, <2>13
  <1> QED BY <1>3, <1>6, <1>7, <1>8
\* More rows and more excuses, the files and what runs know of them unchanged.
LEMMA MoreHolds ==
  ASSUME Types, Types', Held, file' = file, NEW P \in SUBSET Procs,
         \A q \in P : pc'[q] = pc[q] /\ At(q)' = At(q) /\ df'[q] = df[q] /\ had'[q] = had[q],
         \A q \in Procs \ P : pc'[q] \notin {"load", "store"},
         \A k \in Points : \A t \in Times : readings[k][t] <= readings'[k][t],
         excused \subseteq excused'
  PROVE  /\ LoadedHolds' /\ ReadHolds'
         /\ \A s \in Sources : StoredUpTo(file[s], s, last[s], readings', excused')
  <1>1. /\ readings \in [Points -> [Times -> Nat]] /\ readings' \in [Points -> [Times -> Nat]]
        /\ \A s \in Sources : file[s] \in Seq(Lines)
    BY DEF Types, TypeOK
  <1>2. \A s \in Sources : StoredUpTo(file[s], s, last[s], readings', excused')
    BY <1>1, StillStored DEF Held, CursorsHold
  <1>3. ASSUME NEW q \in P, pc[q] \in {"load", "store"}
        PROVE  /\ LaterThan(file[At(q)], At(q), df[q], excused')
               /\ pc[q] = "store" => StoredUpTo(file[At(q)], At(q), had[q], readings', excused')
    <2>1. At(q) \in Sources
      BY <1>3, SourceAtHand DEF Busy
    <2>2. LaterThan(file[At(q)], At(q), df[q], excused')
      BY <1>1, <1>3, <2>1, StillLater DEF Held, ReadHolds
    <2>3. ASSUME pc[q] = "store"
          PROVE  StoredUpTo(file[At(q)], At(q), had[q], readings', excused')
      BY <1>1, <2>1, <2>3, StillStored DEF Held, LoadedHolds
    <2> QED BY <2>2, <2>3
  <1>4. LoadedHolds'
    BY <1>3 DEF Held, LoadedHolds
  <1>5. ReadHolds'
    BY <1>3 DEF Held, ReadHolds
  <1> QED BY <1>2, <1>4, <1>5

LEMMA StoreHoldsAfter ==
  ASSUME Types, Types', Held, NEW p \in Procs, StoreRows(p)
  PROVE  Held'
  <1>0. pc[p] = "store"
    BY DEF StoreRows
  <1>1. PICK known \in SUBSET Points :
           /\ readings' = Inserted(At(p), df[p], Taken(p), known)
           /\ last' = [last EXCEPT ![At(p)] = Cursor(p)]
           /\ excused' = excused \cup PassedBy(At(p), p, known)
           /\ OthersStay(p) /\ pc'[p] \in {"file", "poll", "idle"}
           /\ file' = file
           /\ At(p) \in Sources
    BY StoreWrites
  <1>2. \A k \in Points : \A t \in Times : readings[k][t] <= readings'[k][t]
    BY <1>1, TakenIsFinite, InsertedShape DEF Types
  <1> DEFINE P == Procs \ {p}
  <1>3. \A q \in P : pc'[q] = pc[q] /\ At(q)' = At(q) /\ df'[q] = df[q] /\ had'[q] = had[q]
    BY <1>1 DEF OthersStay, At
  <1>4. \A q \in Procs \ P : pc'[q] \notin {"load", "store"}
    BY <1>1
  <1>5. excused \subseteq excused' /\ P \in SUBSET Procs
    BY <1>1
  <1> HIDE DEF P
  <1>6. /\ LoadedHolds' /\ ReadHolds'
        /\ \A s \in Sources : StoredUpTo(file[s], s, last[s], readings', excused')
    BY <1>1, <1>2, <1>3, <1>4, <1>5, MoreHolds
  <1>7. /\ StoredUpTo(file[At(p)], At(p), Cursor(p), readings', excused')
        /\ WithinFile(file[At(p)], Cursor(p))
    BY <1>0, <1>1, CommitCovers, CursorWithinFile
  <1>8. /\ last'[At(p)] = Cursor(p)
        /\ \A s \in Sources : s # At(p) => last'[s] = last[s]
    BY <1>1 DEF Types, TypeOK
  <1>9. ASSUME NEW s \in Sources
        PROVE  StoredUpTo(file'[s], s, last'[s], readings', excused') /\ WithinFile(file'[s], last'[s])
    <2>1. CASE s = At(p)
      BY <1>1, <1>7, <1>8, <2>1
    <2>2. CASE s # At(p)
      BY <1>1, <1>6, <1>8, <2>2 DEF Held, CursorsHold
    <2> QED BY <2>1, <2>2
  <1>10. CursorsHold'
    BY <1>9 DEF CursorsHold
  <1> QED BY <1>6, <1>10 DEF Held

\* A file grows, and its new values are later or excused.
LEMMA GrowthHolds ==
  ASSUME Types, Types', Held, NEW s \in Sources, NEW new \in Seq(Lines),
         file' = [file EXCEPT ![s] = new],
         Grows(s, file[s], new, excused, excused'),
         \A r \in Sources : r # s => \A i \in Nat : \A c \in Cols :
           <<r, i, c>> \in excused => <<r, i, c>> \in excused',
         UNCHANGED <<last, readings, run>>
  PROVE  Held'
  <1>1. /\ readings \in [Points -> [Times -> Nat]]
        /\ \A r \in Sources : file[r] \in Seq(Lines) /\ last[r] \in Nat
        /\ \A q \in Procs : df[q] \in Seq(Lines) /\ had[q] \in Nat
    <2>1. Times \cup {NoTime} \subseteq Nat
      BY CsvShape DEF Times, NoTime
    <2> QED BY <2>1 DEF Types, TypeOK
  <1>2. file'[s] = new /\ \A r \in Sources : r # s => file'[r] = file[r]
    BY DEF Types, TypeOK
  <1>3. ASSUME NEW r \in Sources, NEW ts \in Nat,
               StoredUpTo(file[r], r, ts, readings, excused), WithinFile(file[r], ts)
        PROVE  StoredUpTo(file'[r], r, ts, readings, excused') /\ WithinFile(file'[r], ts)
    <2>1. CASE r = s
      BY <1>1, <1>2, <1>3, <2>1, GrownStored
    <2>2. CASE r # s
      <3>1. \A k \in Points : \A t \in Times : readings[k][t] <= readings[k][t]
        BY <1>1
      <3>2. \A i \in DOMAIN file[r] : \A c \in Cols : <<r, i, c>> \in excused => <<r, i, c>> \in excused'
        BY <1>1, <2>2
      <3>3. StoredUpTo(file[r], r, ts, readings, excused')
        BY <1>1, <1>3, <3>1, <3>2, StillStored
      <3> QED BY <1>2, <1>3, <2>2, <3>3
    <2> QED BY <2>1, <2>2
  <1>4. ASSUME NEW r \in Sources, NEW rows \in Seq(Lines),
               ReadOf(file[r], rows), LaterThan(file[r], r, rows, excused)
        PROVE  ReadOf(file'[r], rows) /\ LaterThan(file'[r], r, rows, excused')
    <2>1. CASE r = s
      BY <1>1, <1>2, <1>4, <2>1, GrownRead
    <2>2. CASE r # s
      <3>2. \A i \in DOMAIN file[r] : \A c \in Cols : <<r, i, c>> \in excused => <<r, i, c>> \in excused'
        BY <1>1, <2>2
      <3>3. LaterThan(file[r], r, rows, excused')
        BY <1>1, <1>4, <3>2, StillLater
      <3> QED BY <1>2, <1>4, <2>2, <3>3
    <2> QED BY <2>1, <2>2
  <1>5. \A q \in Procs : pc'[q] = pc[q] /\ At(q)' = At(q) /\ df'[q] = df[q] /\ had'[q] = had[q]
    BY DEF run, At
  <1>6. \A q \in Procs : pc[q] \in {"load", "store"} => At(q) \in Sources
    BY SourceAtHand DEF Busy
  <1>7. CursorsHold'
    BY <1>1, <1>3 DEF Held, CursorsHold
  <1>8. LoadedHolds'
    BY <1>1, <1>3, <1>5, <1>6 DEF Held, LoadedHolds
  <1>9. ReadHolds'
    BY <1>1, <1>4, <1>5, <1>6 DEF Held, ReadHolds
  <1> QED BY <1>7, <1>8, <1>9 DEF Held

LEMMA AppendHoldsAfter ==
  ASSUME Types, Types', Held, NEW s \in Sources, NEW l \in Lines, AppendLine(s, l)
  PROVE  Held'
  <1>1. /\ file' = [file EXCEPT ![s] = Append(file[s], l)] /\ file[s] \in Seq(Lines)
        /\ excused' = IF InOrder(s, file[s], l.t) THEN excused
                      ELSE excused \cup ({s} \X {Len(file[s]) + 1} \X Cols)
        /\ UNCHANGED <<last, readings, run>>
    BY DEF AppendLine, Types, TypeOK
  <1>2. Grows(s, file[s], Append(file[s], l), excused, excused')
    BY <1>1, AppendGrows
  <1>3. Append(file[s], l) \in Seq(Lines)
    BY <1>1, LineAdded
  <1>4. \A r \in Sources : r # s => \A i \in Nat : \A c \in Cols :
          <<r, i, c>> \in excused => <<r, i, c>> \in excused'
    BY <1>1
  <1> QED BY <1>1, <1>2, <1>3, <1>4, GrowthHolds

LEMMA FinishHoldsAfter ==
  ASSUME Types, Types', Held, NEW s \in Sources, NEW l \in Lines, FinishLine(s, l)
  PROVE  Held'
  <1> DEFINE lines == file[s]
             n == Len(file[s])
             new == [lines EXCEPT ![n] = l]
  <1>1. /\ file' = [file EXCEPT ![s] = new] /\ lines \in Seq(Lines) /\ n > 0
    BY FinishedFile DEF Types
  <1>2. /\ lines[n].t \in {NoTime, l.t} /\ l.t # NoTime /\ lines[n].vals \subseteq l.vals
        /\ excused' = IF lines[n].t = NoTime /\ InOrder(s, SubSeq(lines, 1, n - 1), l.t)
                      THEN excused \ ({s} \X {n} \X Cols)
                      ELSE excused \cup ({s} \X {n} \X (l.vals \ lines[n].vals))
        /\ UNCHANGED <<last, readings, run>>
    BY DEF FinishLine
  <1>3. new \in Seq(Lines)
    BY <1>1, LineFinished
  <1>4. Grows(s, lines, new, excused, excused')
    BY <1>1, <1>2, FinishGrows
  <1>5. \A r \in Sources : r # s => \A i \in Nat : \A c \in Cols :
          <<r, i, c>> \in excused => <<r, i, c>> \in excused'
    BY <1>2
  <1> HIDE DEF new
  <1> QED BY <1>1, <1>2, <1>3, <1>4, <1>5, GrowthHolds

LEMMA UploadHoldsAfter ==
  ASSUME Types, Types', Held, NEW s \in Sources, NEW rows \in Uploads, NEW create \in BOOLEAN,
         Upload(s, rows, create)
  PROVE  Held'
  <1>1. UNCHANGED <<file, last, run, excused>>
    BY DEF Upload
  <1>2. \A k \in Points : \A t \in Times : readings[k][t] <= readings'[k][t]
    BY UploadShape DEF Types
  <1>3. \A q \in Procs : pc'[q] = pc[q] /\ At(q)' = At(q) /\ df'[q] = df[q] /\ had'[q] = had[q]
    BY <1>1 DEF run, At
  <1>4. /\ LoadedHolds' /\ ReadHolds'
        /\ \A r \in Sources : StoredUpTo(file[r], r, last[r], readings', excused')
    <2> DEFINE P == Procs
    <2>1. /\ \A q \in P : pc'[q] = pc[q] /\ At(q)' = At(q) /\ df'[q] = df[q] /\ had'[q] = had[q]
          /\ \A q \in Procs \ P : pc'[q] \notin {"load", "store"}
          /\ P \in SUBSET Procs
      BY <1>3
    <2> HIDE DEF P
    <2> QED BY <1>1, <1>2, <2>1, MoreHolds
  <1>5. CursorsHold'
    BY <1>1, <1>4 DEF Held, CursorsHold
  <1> QED BY <1>4, <1>5 DEF Held

LEMMA DeleteHoldsAfter ==
  ASSUME Types, Types', Held, NEW k \in Points, DeletePoint(k)
  PROVE  Held'
  <1>1. UNCHANGED <<file, last, run>> /\ excused \subseteq excused'
    BY DEF DeletePoint
  <1>2. /\ \A t \in Times : readings'[k][t] = 0
        /\ \A j \in Points : j # k => readings'[j] = readings[j]
    BY DeletedReadings DEF Types
  <1>3. \A q \in Procs : pc'[q] = pc[q] /\ At(q)' = At(q) /\ df'[q] = df[q] /\ had'[q] = had[q]
    BY <1>1 DEF run, At
  <1>4. \A s \in Sources : file[s] \in Seq(Lines)
    BY DEF Types, TypeOK
  <1>5. ASSUME NEW s \in Sources, NEW ts, StoredUpTo(file[s], s, ts, readings, excused)
        PROVE  StoredUpTo(file[s], s, ts, readings', excused')
    <2>1. SUFFICES ASSUME NEW i \in DOMAIN file[s], NEW c \in file[s][i].vals,
                          file[s][i].t # NoTime, file[s][i].t <= ts, <<s, i, c>> \notin excused'
                   PROVE  readings'[PointOf(s, c)][file[s][i].t] >= 1
      BY DEF StoredUpTo
    <2>2. file[s][i] \in Lines
      BY <1>4
    <2>3. c \in Cols /\ file[s][i].t \in Times
      BY <2>1, <2>2, LineShape
    <2>4. readings[PointOf(s, c)][file[s][i].t] >= 1
      BY <1>1, <1>5, <2>1 DEF StoredUpTo
    <2>5. PointOf(s, c) \in Points
      BY <2>3, PointOfIsPoint
    <2>6. readings[PointOf(s, c)][file[s][i].t] \in Nat
      BY <2>3, <2>5 DEF Types, TypeOK
    <2>7. ASSUME PointOf(s, c) = k PROVE FALSE
      <3> DEFINE these == {v \in {s} \X (DOMAIN file[s]) \X Cols :
                             /\ PointOf(s, v[3]) = k /\ file[s][v[2]].t # NoTime
                             /\ readings[k][file[s][v[2]].t] > 0}
      <3>1. <<s, i, c>> \in {s} \X (DOMAIN file[s]) \X Cols /\ <<s, i, c>>[2] = i /\ <<s, i, c>>[3] = c
        BY <2>3
      <3>2. readings[k][file[s][i].t] > 0
        BY <2>4, <2>6, <2>7
      <3>3. <<s, i, c>> \in these
        BY <2>1, <2>7, <3>1, <3>2
      <3>4. these \subseteq excused'
        BY DEF DeletePoint
      <3> QED BY <2>1, <3>3, <3>4
    <2> QED BY <1>2, <2>4, <2>5, <2>7
  <1>6. CursorsHold'
    BY <1>1, <1>5 DEF Held, CursorsHold
  <1>7. \A q \in Procs : pc[q] \in {"load", "store"} => At(q) \in Sources
    BY SourceAtHand DEF Busy
  <1>8. LoadedHolds'
    BY <1>1, <1>3, <1>5, <1>7 DEF Held, LoadedHolds
  <1>9. \A q \in Procs : pc[q] \in {"load", "store"} => LaterThan(file[At(q)], At(q), df[q], excused')
    BY <1>1, <1>4, <1>7, StillLater DEF Held, ReadHolds
  <1>10. ReadHolds'
    BY <1>1, <1>3, <1>9 DEF Held, ReadHolds
  <1> QED BY <1>6, <1>8, <1>10 DEF Held

LEMMA HeldStep ==
  ASSUME Types, Types', Held, [Next]_vars
  PROVE  Held'
  <1>0. CASE UNCHANGED <<file, last, readings, run, excused>>
    BY <1>0 DEF Held, CursorsHold, LoadedHolds, ReadHolds, At, run
  <1>1. ASSUME NEW p \in Procs, Step(p) PROVE Held'
    <2>1. CASE ReadFile(p)
      BY <2>1, ReadHoldsAfter
    <2>2. CASE LoadState(p)
      BY <2>2, LoadHoldsAfter
    <2>3. CASE StoreRows(p)
      BY <2>3, StoreHoldsAfter
    <2>4. CASE SkipSource(p) \/ StoreFails(p)
      <3>1. Busy(p) /\ NextSource(p) /\ UNCHANGED <<file, last, readings, excused>>
        BY <2>4 DEF SkipSource, StoreFails, Busy
      <3> QED BY <3>1, NextSourceTypes, QuietHolds
    <2>5. CASE AbandonRun(p)
      <3>1. Proceed(p, <<>>) /\ UNCHANGED <<file, last, readings, excused>> /\ <<>> \in Seq(Sources)
        BY <2>5 DEF AbandonRun
      <3> QED BY <3>1, ProceedTypes, QuietHolds
    <2>6. CASE BeginCycle(p) \/ StartByHand(p)
      <3>1. /\ UNCHANGED <<file, last, readings, excused, df, had>>
            /\ \E l \in {"file", "poll", "idle"} : pc' = [pc EXCEPT ![p] = l]
            /\ seen' = seen \/ \E c : seen' = [seen EXCEPT ![p] = c]
            /\ todo' = todo \/ \E c : todo' = [todo EXCEPT ![p] = c]
        BY <2>6, RestIsIdle DEF BeginCycle, StartByHand, Goto
      <3>2. OthersStay(p) /\ pc'[p] \in {"file", "poll", "idle"}
        BY <3>1 DEF OthersStay, Types, TypeOK
      <3> QED BY <3>1, <3>2, QuietHolds
    <2> QED BY <1>1, <2>1, <2>2, <2>3, <2>4, <2>5, <2>6 DEF Step
  <1>2. CASE \E s \in Sources, l \in Lines : AppendLine(s, l) \/ FinishLine(s, l)
    BY <1>2, AppendHoldsAfter, FinishHoldsAfter
  <1>3. CASE \E s \in Sources, rows \in Uploads, create \in BOOLEAN : Upload(s, rows, create)
    BY <1>3, UploadHoldsAfter
  <1>4. CASE \E k \in Points : DeletePoint(k)
    BY <1>4, DeleteHoldsAfter
  <1>5. CASE \E c \in Settings : PutConfig(c)
    BY <1>0, <1>5 DEF PutConfig
  <1>6. CASE UNCHANGED vars
    BY <1>0, <1>6 DEF vars
  <1> QED BY <1>1, <1>2, <1>3, <1>4, <1>5, <1>6 DEF Next

LEMMA InitHeld == Init => Held
  <1> SUFFICES ASSUME Init PROVE Held
    OBVIOUS
  <1>1. CursorsHold
    BY DEF Init, CursorsHold, StoredUpTo, WithinFile
  <1>2. \A p \in Procs : pc[p] \notin {"load", "store"}
    BY DEF Init
  <1> QED BY <1>1, <1>2 DEF Held, LoadedHolds, ReadHolds

\* No value at or below the cursor of its source is missing, except for the
\* excuses of NothingMissed, whatever the scraper, another one, uploads,
\* settings and the program that writes the file do between two steps.
THEOREM NothingIsMissed == Spec => []NothingMissed
  <1>1. Types /\ Held /\ [Next]_vars => (Types /\ Held)'
    BY TypesStep, HeldStep
  <1>2. Held => NothingMissed
    BY DEF Held, CursorsHold, StoredUpTo, NothingMissed
  <1> QED BY <1>1, <1>2, InitTypes, InitHeld, PTL DEF Spec
------------------------------------------------------------------------------
\* Nothing is stored twice.

LEMMA StoredLinesAre ==
  ASSUME NEW f, NEW l, NEW k, NEW t, NEW v
  PROVE  v \in StoredLines(f, l, k, t) <=>
           \E s \in Sources : \E i \in DOMAIN f[s] :
             /\ v = <<s, i>> /\ f[s][i].t = t /\ t <= l[s]
             /\ \E c \in f[s][i].vals : PointOf(s, c) = k
  BY DEF StoredLines

\* All files together have finitely many lines.
LinesOf(f) == UNION {{s} \X (1..Len(f[s])) : s \in Sources}

LEMMA FilesAreFinite ==
  ASSUME NEW f \in [Sources -> Seq(Lines)]
  PROVE  IsFiniteSet(LinesOf(f))
  <1> DEFINE g == [s \in Sources |-> {s} \X (1..Len(f[s]))]
             T == {{s} \X (1..Len(f[s])) : s \in Sources}
  <1>1. g \in Surjection(Sources, T)
    BY DEF Surjection
  <1>2. IsFiniteSet(Sources)
    BY CsvShape
  <1>3. \A x \in T : IsFiniteSet(x)
    <2>1. SUFFICES ASSUME NEW s \in Sources PROVE IsFiniteSet({s} \X (1..Len(f[s])))
      OBVIOUS
    <2>2. Len(f[s]) \in Nat
      OBVIOUS
    <2>3. IsFiniteSet(1..Len(f[s]))
      BY <2>2, FS_Interval
    <2>4. IsFiniteSet({s})
      BY FS_Singleton
    <2> QED BY <2>3, <2>4, FS_Product
  <1> HIDE DEF g, T
  <1>4. IsFiniteSet(T)
    BY <1>1, <1>2, FS_Surjection
  <1>5. IsFiniteSet(UNION T)
    BY <1>3, <1>4, FS_UNION
  <1> QED BY <1>5 DEF T, LinesOf

LEMMA StoredLinesFinite ==
  ASSUME NEW f \in [Sources -> Seq(Lines)], NEW l, NEW k, NEW t
  PROVE  /\ IsFiniteSet(StoredLines(f, l, k, t))
         /\ Cardinality(StoredLines(f, l, k, t)) \in Nat
  <1>1. StoredLines(f, l, k, t) \in SUBSET LinesOf(f)
    <2>1. SUFFICES ASSUME NEW v \in StoredLines(f, l, k, t) PROVE v \in LinesOf(f)
      OBVIOUS
    <2>2. PICK s \in Sources : \E i \in DOMAIN f[s] : v = <<s, i>>
      BY <2>1, StoredLinesAre
    <2>3. PICK i \in DOMAIN f[s] : v = <<s, i>>
      BY <2>2
    <2>4. v \in {s} \X (1..Len(f[s]))
      BY <2>3
    <2> QED BY <2>4 DEF LinesOf
  <1>2. IsFiniteSet(StoredLines(f, l, k, t))
    BY <1>1, FilesAreFinite, FS_Subset
  <1> QED BY <1>2, FS_CardinalityType

\* Files that grow and cursors that advance have no fewer stored lines.
LEMMA StoredLinesGrow ==
  ASSUME NEW f \in [Sources -> Seq(Lines)], NEW g \in [Sources -> Seq(Lines)],
         NEW l \in [Sources -> Nat], NEW m \in [Sources -> Nat], NEW k, NEW t \in Nat, t # NoTime,
         \A s \in Sources : \A i \in DOMAIN f[s] :
           /\ i \in DOMAIN g[s] /\ f[s][i].vals \subseteq g[s][i].vals
           /\ f[s][i].t = NoTime \/ f[s][i].t = g[s][i].t,
         \A s \in Sources : l[s] <= m[s]
  PROVE  /\ StoredLines(f, l, k, t) \subseteq StoredLines(g, m, k, t)
         /\ Cardinality(StoredLines(f, l, k, t)) <= Cardinality(StoredLines(g, m, k, t))
  <1>1. StoredLines(f, l, k, t) \subseteq StoredLines(g, m, k, t)
    <2>1. SUFFICES ASSUME NEW v \in StoredLines(f, l, k, t) PROVE v \in StoredLines(g, m, k, t)
      OBVIOUS
    <2>0. PICK s \in Sources : \E i \in DOMAIN f[s] :
             /\ v = <<s, i>> /\ f[s][i].t = t /\ t <= l[s]
             /\ \E c \in f[s][i].vals : PointOf(s, c) = k
      BY <2>1, StoredLinesAre
    <2>2. PICK i \in DOMAIN f[s] :
             /\ v = <<s, i>> /\ f[s][i].t = t /\ t <= l[s]
             /\ \E c \in f[s][i].vals : PointOf(s, c) = k
      BY <2>0
    <2>3. i \in DOMAIN g[s] /\ g[s][i].t = t /\ f[s][i].vals \subseteq g[s][i].vals
      BY <2>2
    <2>4. t <= m[s]
      <3>1. l[s] \in Nat /\ m[s] \in Nat /\ l[s] <= m[s]
        OBVIOUS
      <3> QED BY <2>2, <3>1
    <2>5. \E c \in g[s][i].vals : PointOf(s, c) = k
      BY <2>2, <2>3
    <2> QED BY <2>2, <2>3, <2>4, <2>5, StoredLinesAre
  <1> QED BY <1>1, StoredLinesFinite, FS_Subset

\* As long as runs did not overlap, nobody else is in a run with p.
LEMMA Alone ==
  ASSUME OneAtATime, ~ overlapped, NEW p \in Procs, Busy(p)
  PROVE  \A q \in Procs \ {p} : ~ Busy(q)
  BY DEF OneAtATime

LEMMA OneAtATimeStep ==
  ASSUME Types, Types', OneAtATime, [Next]_vars
  PROVE  OneAtATime'
  <1>1. SUFFICES ASSUME ~ overlapped'
                 PROVE  /\ \A p, q \in Procs : Busy(p)' /\ Busy(q)' => p = q
                        /\ \A p \in Procs : pc'[p] = "store" => had'[p] = last'[At(p)']
    BY DEF OneAtATime, At
  <1>a. ASSUME UNCHANGED <<pc, had, last, todo, overlapped>>
        PROVE  /\ \A p, q \in Procs : Busy(p)' /\ Busy(q)' => p = q
               /\ \A p \in Procs : pc'[p] = "store" => had'[p] = last'[At(p)']
    BY <1>1, <1>a DEF OneAtATime, Busy, At
  <1>b. ASSUME NEW p \in Procs, Busy(p), OthersStay(p), overlapped' = overlapped,
               \A q \in Procs \ {p} : ~ Busy(q),
               pc'[p] = "store" => had'[p] = last'[At(p)']
        PROVE  /\ \A r, q \in Procs : Busy(r)' /\ Busy(q)' => r = q
               /\ \A r \in Procs : pc'[r] = "store" => had'[r] = last'[At(r)']
    <2>1. \A q \in Procs \ {p} : ~ Busy(q)' /\ pc'[q] # "store"
      BY <1>b DEF Busy, OthersStay
    <2> QED BY <1>b, <2>1
  <1>2. ASSUME NEW p \in Procs, Step(p)
        PROVE  /\ \A r, q \in Procs : Busy(r)' /\ Busy(q)' => r = q
               /\ \A r \in Procs : pc'[r] = "store" => had'[r] = last'[At(r)']
    <2>1. CASE BeginCycle(p)
      <3>1. PICK c \in {cfg, Default} :
               IF c.on /\ c.sources # <<>>
               THEN /\ todo' = [todo EXCEPT ![p] = c.sources] /\ pc' = [pc EXCEPT ![p] = "file"]
                    /\ overlapped' = (overlapped \/ \E q \in Procs \ {p} : Busy(q))
               ELSE /\ pc' = [pc EXCEPT ![p] = Rest(p)] /\ UNCHANGED <<todo, overlapped>>
        BY <2>1 DEF BeginCycle, Goto
      <3>2. had' = had /\ last' = last
        BY <2>1 DEF BeginCycle
      <3>3. /\ pc'[p] # "store" /\ ~ overlapped
            /\ \A q \in Procs \ {p} : pc'[q] = pc[q] /\ At(q)' = At(q)
            /\ Busy(p)' => \A q \in Procs \ {p} : ~ Busy(q)
        <4>1. CASE c.on /\ c.sources # <<>>
          BY <1>1, <3>1, <4>1 DEF Types, TypeOK, At, Busy
        <4>2. CASE ~ (c.on /\ c.sources # <<>>)
          BY <1>1, <3>1, <4>2, RestIsIdle DEF Types, TypeOK, At, Busy
        <4> QED BY <4>1, <4>2
      <3>4. \A r \in Procs : pc'[r] = "store" => had'[r] = last'[At(r)']
        BY <3>2, <3>3 DEF OneAtATime, At
      <3>5. \A r, q \in Procs : Busy(r)' /\ Busy(q)' => r = q
        BY <3>3 DEF OneAtATime, Busy
      <3> QED BY <3>4, <3>5
    <2>2. CASE Busy(p) /\ ~ BeginCycle(p) /\ ~ StartByHand(p)
      <3>1. overlapped' = overlapped
        BY <1>2, <2>2 DEF Step, ReadFile, SkipSource, LoadState, StoreRows, StoreFails, AbandonRun
      <3>2. \A q \in Procs \ {p} : ~ Busy(q)
        BY <1>1, <2>2, <3>1, Alone
      <3>3. OthersStay(p) /\ (pc'[p] = "store" => had'[p] = last'[At(p)'])
        <4>1. CASE NextSource(p)
          BY <2>2, <4>1, NextSourceTypes
        <4>2. CASE AbandonRun(p)
          <5>1. Proceed(p, <<>>) /\ <<>> \in Seq(Sources)
            BY <4>2 DEF AbandonRun
          <5> QED BY <5>1, ProceedTypes
        <4>3. CASE LoadState(p)
          BY <4>3 DEF LoadState, Loaded, Goto, OthersStay, Types, TypeOK, At
        <4>4. CASE df' = [df EXCEPT ![p] = file[Head(todo[p])]] /\ Goto(p, "load")
                   /\ UNCHANGED <<seen, todo, had>>
          BY <4>4 DEF Goto, OthersStay, Types, TypeOK
        <4> QED BY <1>2, <2>2, <4>1, <4>2, <4>3, <4>4
              DEF Step, ReadFile, SkipSource, StoreRows, StoreFails
      <3> QED BY <1>b, <2>2, <3>1, <3>2, <3>3
    <2>3. CASE StartByHand(p)
      <3>1. /\ pc' = [pc EXCEPT ![p] = "poll"] /\ ~ overlapped
            /\ UNCHANGED <<had, last, todo, overlapped>>
        BY <1>1, <2>3 DEF StartByHand, Goto
      <3>2. /\ ~ Busy(p)' /\ pc'[p] # "store"
            /\ \A q \in Procs \ {p} : pc'[q] = pc[q] /\ At(q)' = At(q)
        BY <3>1 DEF Types, TypeOK, Busy, At
      <3> QED BY <3>1, <3>2 DEF OneAtATime, Busy, At
    <2>4. Step(p) => Busy(p) \/ BeginCycle(p) \/ StartByHand(p)
      BY DEF Step, ReadFile, SkipSource, LoadState, StoreRows, StoreFails, AbandonRun, Busy
    <2> QED BY <1>2, <2>1, <2>2, <2>3, <2>4
  <1>3. CASE Next /\ ~ \E p \in Procs : Step(p)
    BY <1>3, <1>a, OutsideTypes DEF run
  <1>4. CASE UNCHANGED vars
    BY <1>4, <1>a DEF vars, run
  <1> QED BY <1>2, <1>3, <1>4

\* The lines that a commit takes are lines of the file that it stores first.
LEMMA TakenAreNew ==
  ASSUME Types, Held, OneAtATime, ~ overlapped, NEW p \in Procs, pc[p] = "store",
         NEW k \in Points, NEW t \in Times, NEW known,
         NEW to, to = [last EXCEPT ![At(p)] = Cursor(p)]
  PROVE  LET these == {i \in Taken(p) : /\ df[p][i].t = t /\ k \in known
                                        /\ \E c \in df[p][i].vals : k = PointOf(At(p), c)}
         IN  /\ Cardinality(these) \in Nat
             /\ Cardinality(StoredLines(file, last, k, t)) + Cardinality(these)
                  <= Cardinality(StoredLines(file, to, k, t))
  <1> DEFINE s == At(p)
             these == {i \in Taken(p) : /\ df[p][i].t = t /\ k \in known
                                        /\ \E c \in df[p][i].vals : k = PointOf(At(p), c)}
             old == StoredLines(file, last, k, t)
             new == StoredLines(file, to, k, t)
  <1>1. s \in Sources /\ file[s] \in Seq(Lines) /\ df[p] \in Seq(Lines)
    BY SourceAtHand DEF Busy, Types, TypeOK
  <1>2. ReadOf(file[s], df[p]) /\ had[p] = last[s]
    BY DEF Held, ReadHolds, OneAtATime
  <1>3. /\ Cursor(p) \in Nat /\ Cursor(p) >= last[s] /\ Floor(p) \in Nat /\ Floor(p) >= last[s]
        /\ last[s] \in Nat
    BY <1>2, CursorShape, FloorShape DEF Types
  <1>4. /\ to \in [Sources -> Nat] /\ to[s] = Cursor(p)
        /\ last \in [Sources -> Nat] /\ \A r \in Sources : last[r] <= to[r]
    <2>1. Times \cup {NoTime} \subseteq Nat
      BY CsvShape DEF Times, NoTime
    <2>2. last \in [Sources -> Nat]
      BY <2>1 DEF Types, TypeOK
    <2> QED BY <1>1, <1>3, <2>2
  <1>5. t \in Nat /\ t # NoTime
    BY CsvShape DEF Times, NoTime
  <1>6. file \in [Sources -> Seq(Lines)]
    BY DEF Types, TypeOK
  <1>7. old \subseteq new
    BY <1>4, <1>5, <1>6, StoredLinesGrow
  <1>8. IsFiniteSet(new) /\ IsFiniteSet(old) /\ Cardinality(new) \in Nat /\ Cardinality(old) \in Nat
    BY <1>6, StoredLinesFinite
  <1>9. ASSUME NEW i \in these PROVE <<s, i>> \in new \ old
    <2>1. i \in DOMAIN df[p] /\ df[p][i].t > Floor(p) /\ df[p][i].t = t
      BY <1>9 DEF Taken
    <2>2. i \in DOMAIN file[s] /\ file[s][i].t = t /\ df[p][i].vals \subseteq file[s][i].vals
      BY <1>1, <1>2, <1>5, <2>1 DEF ReadOf
    <2>3. t <= Cursor(p)
      BY <1>9, NewestIsTaken DEF Types, Cursor
    <2>4. \E c \in file[s][i].vals : PointOf(s, c) = k
      BY <1>9, <2>2
    <2>5. <<s, i>> \in new
      BY <1>1, <1>4, <2>2, <2>3, <2>4, StoredLinesAre
    <2>6. <<s, i>> \notin old
      <3>1. SUFFICES ASSUME <<s, i>> \in old PROVE FALSE
        OBVIOUS
      <3>2. \E r \in Sources : \E j \in DOMAIN file[r] : <<s, i>> = <<r, j>> /\ t <= last[r]
        BY <3>1, StoredLinesAre
      <3>3. t <= last[s]
        BY <3>2
      <3> QED BY <1>3, <1>5, <2>1, <3>3
    <2> QED BY <2>5, <2>6
  <1> DEFINE f == [i \in these |-> <<s, i>>]
  <1>10. f \in Injection(these, new \ old)
    <2>1. f \in [these -> new \ old]
      BY <1>9
    <2>2. \A i, j \in these : f[i] = f[j] => i = j
      OBVIOUS
    <2> QED BY <2>1, <2>2 DEF Injection, IsInjective
  <1> HIDE DEF these, old, new, f
  <1>11. /\ IsFiniteSet(new \ old)
         /\ Cardinality(new \ old) = Cardinality(new) - Cardinality(new \cap old)
    BY <1>8, FS_Difference
  <1>12. new \cap old = old
    BY <1>7
  <1>13. IsFiniteSet(these) /\ Cardinality(these) <= Cardinality(new \ old)
    BY <1>10, <1>11, FS_Injection
  <1>14. Cardinality(these) \in Nat
    BY <1>13, FS_CardinalityType
  <1>15. Cardinality(new \ old) = Cardinality(new) - Cardinality(old)
    BY <1>11, <1>12
  <1>16. Cardinality(old) + Cardinality(these) <= Cardinality(new)
    BY <1>8, <1>13, <1>14, <1>15
  <1> QED BY <1>14, <1>16 DEF these, old, new
\* No readings are added, and the files and the cursors only grow.
LEMMA RowsStayLines ==
  ASSUME Types, Types', RowsAreLines, overlapped' = overlapped, last' = last,
         \A k \in Points : \A t \in Times :
           readings'[k][t] - readings[k][t] <= uploaded'[k][t] - uploaded[k][t],
         \A s \in Sources : \A i \in DOMAIN file[s] :
           /\ i \in DOMAIN file'[s] /\ file[s][i].vals \subseteq file'[s][i].vals
           /\ file[s][i].t = NoTime \/ file[s][i].t = file'[s][i].t
  PROVE  RowsAreLines'
  <1>1. SUFFICES ASSUME ~ overlapped, NEW k \in Points, NEW t \in Times
                 PROVE  readings'[k][t] <= uploaded'[k][t] + Cardinality(StoredLines(file', last', k, t))
    BY DEF RowsAreLines
  <1>2. readings[k][t] <= uploaded[k][t] + Cardinality(StoredLines(file, last, k, t))
    BY <1>1 DEF RowsAreLines
  <1>3. /\ readings[k][t] \in Nat /\ readings'[k][t] \in Nat
        /\ uploaded[k][t] \in Nat /\ uploaded'[k][t] \in Nat
        /\ file \in [Sources -> Seq(Lines)] /\ file' \in [Sources -> Seq(Lines)]
    BY DEF Types, TypeOK
  <1>4. last \in [Sources -> Nat] /\ t \in Nat /\ t # NoTime
    <2>1. Times \cup {NoTime} \subseteq Nat /\ t \in Nat /\ t # NoTime
      BY CsvShape DEF Times, NoTime
    <2> QED BY <2>1 DEF Types, TypeOK
  <1> DEFINE old == Cardinality(StoredLines(file, last, k, t))
             new == Cardinality(StoredLines(file', last', k, t))
  <1>5. \A s \in Sources : last[s] <= last'[s]
    BY <1>4
  <1>6. old \in Nat /\ new \in Nat
    BY <1>3, StoredLinesFinite
  <1>7. old <= new
    BY <1>3, <1>4, <1>5, StoredLinesGrow
  <1>8. readings'[k][t] - readings[k][t] <= uploaded'[k][t] - uploaded[k][t]
    OBVIOUS
  <1> HIDE DEF old, new
  <1>9. readings'[k][t] <= uploaded'[k][t] + new
    <2>1. readings[k][t] <= uploaded[k][t] + old
      BY <1>2 DEF old
    <2> QED BY <1>3, <1>6, <1>7, <1>8, <2>1
  <1> QED BY <1>9 DEF new

LEMMA StoreStaysLines ==
  ASSUME Types, Types', Held, OneAtATime, RowsAreLines, NEW p \in Procs, StoreRows(p)
  PROVE  RowsAreLines'
  <1>0. pc[p] = "store"
    BY DEF StoreRows
  <1>1. PICK known \in SUBSET Points :
           /\ readings' = Inserted(At(p), df[p], Taken(p), known)
           /\ last' = [last EXCEPT ![At(p)] = Cursor(p)]
           /\ file' = file /\ uploaded' = uploaded /\ overlapped' = overlapped
    BY StoreWrites
  <1>2. SUFFICES ASSUME ~ overlapped, NEW k \in Points, NEW t \in Times
                 PROVE  readings'[k][t] <= uploaded[k][t] + Cardinality(StoredLines(file, last', k, t))
    BY <1>1 DEF RowsAreLines
  <1> DEFINE these == {i \in Taken(p) : /\ df[p][i].t = t /\ k \in known
                                        /\ \E c \in df[p][i].vals : k = PointOf(At(p), c)}
             more == Cardinality(these)
             old == Cardinality(StoredLines(file, last, k, t))
             new == Cardinality(StoredLines(file, last', k, t))
  <1>3. readings'[k][t] = readings[k][t] + more
    BY <1>1 DEF Inserted
  <1>4. more \in Nat /\ old + more <= new
    BY <1>0, <1>1, <1>2, TakenAreNew
  <1>5. old \in Nat /\ new \in Nat
    <2>1. file \in [Sources -> Seq(Lines)]
      BY DEF Types, TypeOK
    <2> QED BY <2>1, StoredLinesFinite
  <1>6. readings[k][t] \in Nat /\ uploaded[k][t] \in Nat
    BY DEF Types, TypeOK
  <1>7. readings[k][t] <= uploaded[k][t] + old
    BY <1>2 DEF RowsAreLines
  <1> HIDE DEF these, more, old, new
  <1>8. readings'[k][t] <= uploaded[k][t] + new
    BY <1>3, <1>4, <1>5, <1>6, <1>7
  <1> QED BY <1>8 DEF new

LEMMA RowsAreLinesStep ==
  ASSUME Types, Types', Held, OneAtATime, RowsAreLines, [Next]_vars
  PROVE  RowsAreLines'
  <1>a. ASSUME UNCHANGED <<file, last, readings, uploaded>>, ~ overlapped' => ~ overlapped
        PROVE  RowsAreLines'
    BY <1>a DEF RowsAreLines
  <1>n. \A k \in Points : \A t \in Times :
          /\ readings[k][t] \in Nat /\ readings'[k][t] \in Nat
          /\ uploaded[k][t] \in Nat /\ uploaded'[k][t] \in Nat
    BY DEF Types, TypeOK
  <1>1. ASSUME NEW p \in Procs, Step(p) PROVE RowsAreLines'
    <2>1. CASE StoreRows(p)
      BY <2>1, StoreStaysLines
    <2>2. CASE ~ StoreRows(p)
      <3>1. UNCHANGED <<file, last, readings, uploaded>>
        BY <1>1, <2>2 DEF Step, BeginCycle, ReadFile, SkipSource, LoadState, StoreFails, AbandonRun, StartByHand
      <3>2. CASE BeginCycle(p)
        <4>1. overlapped' = (overlapped \/ \E q \in Procs \ {p} : Busy(q)) \/ overlapped' = overlapped
          BY <3>2 DEF BeginCycle
        <4> QED BY <1>a, <3>1, <4>1
      <3>3. CASE ~ BeginCycle(p)
        <4>1. overlapped' = overlapped
          BY <1>1, <2>2, <3>3 DEF Step, ReadFile, SkipSource, LoadState, StoreFails, AbandonRun, StartByHand
        <4> QED BY <1>a, <3>1, <4>1
      <3> QED BY <3>2, <3>3
    <2> QED BY <2>1, <2>2
  <1>2. ASSUME NEW s \in Sources, NEW l \in Lines, AppendLine(s, l) PROVE RowsAreLines'
    <2>1. /\ file' = [file EXCEPT ![s] = Append(file[s], l)] /\ file[s] \in Seq(Lines)
          /\ UNCHANGED <<last, readings, uploaded, overlapped>>
      BY <1>2 DEF AppendLine, Types, TypeOK
    <2>2. /\ DOMAIN file[s] \subseteq DOMAIN Append(file[s], l)
          /\ \A i \in DOMAIN file[s] : Append(file[s], l)[i] = file[s][i]
      BY <2>1, LineAdded
    <2>3. \A r \in Sources : \A i \in DOMAIN file[r] : i \in DOMAIN file'[r] /\ file[r][i] = file'[r][i]
      BY <2>1, <2>2 DEF Types, TypeOK
    <2>4. \A k \in Points : \A t \in Times :
            readings'[k][t] - readings[k][t] <= uploaded'[k][t] - uploaded[k][t]
      BY <1>n, <2>1
    <2> QED BY <2>1, <2>3, <2>4, RowsStayLines
  <1>3. ASSUME NEW s \in Sources, NEW l \in Lines, FinishLine(s, l) PROVE RowsAreLines'
    <2> DEFINE n == Len(file[s])
               new == [file[s] EXCEPT ![n] = l]
    <2>1. /\ file' = [file EXCEPT ![s] = new] /\ file[s] \in Seq(Lines) /\ n > 0
          /\ UNCHANGED <<last, readings, uploaded, overlapped>>
          /\ file[s][n].t \in {NoTime, l.t} /\ file[s][n].vals \subseteq l.vals
      BY <1>3, FinishedFile DEF Types, FinishLine
    <2>2. /\ DOMAIN new = DOMAIN file[s] /\ new[n] = l
          /\ \A i \in DOMAIN file[s] : i # n => new[i] = file[s][i]
      BY <2>1, LineFinished
    <2> HIDE DEF n, new
    <2>3. file'[s] = new /\ \A r \in Sources : r # s => file'[r] = file[r]
      BY <2>1 DEF Types, TypeOK
    <2>4. \A r \in Sources : \A i \in DOMAIN file[r] :
            /\ i \in DOMAIN file'[r] /\ file[r][i].vals \subseteq file'[r][i].vals
            /\ file[r][i].t = NoTime \/ file[r][i].t = file'[r][i].t
      BY <2>1, <2>2, <2>3
    <2>5. \A k \in Points : \A t \in Times :
            readings'[k][t] - readings[k][t] <= uploaded'[k][t] - uploaded[k][t]
      BY <1>n, <2>1
    <2> QED BY <2>1, <2>4, <2>5, RowsStayLines
  <1>4. ASSUME NEW s \in Sources, NEW rows \in Uploads, NEW create \in BOOLEAN, Upload(s, rows, create)
        PROVE  RowsAreLines'
    <2>1. UNCHANGED <<file, last, overlapped>>
      BY <1>4 DEF Upload
    <2>2. \A k \in Points : \A t \in Times :
            uploaded'[k][t] = uploaded[k][t] + (readings'[k][t] - readings[k][t])
      BY <1>4, UploadShape DEF Types
    <2>3. \A k \in Points : \A t \in Times :
            readings'[k][t] - readings[k][t] <= uploaded'[k][t] - uploaded[k][t]
      BY <1>n, <2>2
    <2> QED BY <2>1, <2>3, RowsStayLines
  <1>5. ASSUME NEW k \in Points, DeletePoint(k) PROVE RowsAreLines'
    <2>1. UNCHANGED <<file, last, overlapped, uploaded>>
      BY <1>5 DEF DeletePoint
    <2>2. /\ \A t \in Times : readings'[k][t] = 0
          /\ \A j \in Points : j # k => readings'[j] = readings[j]
      BY <1>5, DeletedReadings DEF Types
    <2>3. \A j \in Points : \A t \in Times :
            readings'[j][t] - readings[j][t] <= uploaded'[j][t] - uploaded[j][t]
      BY <1>n, <2>1, <2>2
    <2> QED BY <2>1, <2>3, RowsStayLines
  <1>6. CASE \E c \in Settings : PutConfig(c)
    BY <1>a, <1>6 DEF PutConfig
  <1>7. CASE UNCHANGED vars
    BY <1>a, <1>7 DEF vars
  <1> QED BY <1>1, <1>2, <1>3, <1>4, <1>5, <1>6, <1>7 DEF Next

LEMMA InitAlone == Init => OneAtATime /\ RowsAreLines
  <1> SUFFICES ASSUME Init PROVE OneAtATime /\ RowsAreLines
    OBVIOUS
  <1>1. OneAtATime
    BY DEF Init, OneAtATime, Busy
  <1>2. file \in [Sources -> Seq(Lines)]
    BY DEF Init
  <1>3. ASSUME NEW k \in Points, NEW t \in Times
        PROVE  readings[k][t] <= uploaded[k][t] + Cardinality(StoredLines(file, last, k, t))
    <2>1. Cardinality(StoredLines(file, last, k, t)) \in Nat
      BY <1>2, StoredLinesFinite
    <2>2. readings[k][t] = 0 /\ uploaded[k][t] = 0
      BY DEF Init
    <2> QED BY <2>1, <2>2
  <1> QED BY <1>1, <1>3 DEF RowsAreLines

\* Lines up to the cursor are lines.
LEMMA RowsAreOfFiles ==
  ASSUME Types, RowsAreLines
  PROVE  StoredOnce
  <1> DEFINE all(k, t) == UNION {{<<s, i>> : i \in {j \in DOMAIN file[s] :
                              /\ file[s][j].t = t
                              /\ \E c \in file[s][j].vals : PointOf(s, c) = k}} : s \in Sources}
  <1>1. SUFFICES ASSUME ~ overlapped, NEW k \in Points, NEW t \in Times
                 PROVE  readings[k][t] <= uploaded[k][t] + Cardinality(all(k, t))
    BY DEF StoredOnce
  <1> DEFINE few == StoredLines(file, last, k, t)
             many == all(k, t)
  <1>2. file \in [Sources -> Seq(Lines)]
    BY DEF Types, TypeOK
  <1>3. few \in SUBSET many
    BY DEF StoredLines
  <1>4. many \in SUBSET LinesOf(file)
    <2>1. SUFFICES ASSUME NEW s \in Sources, NEW i \in DOMAIN file[s] PROVE <<s, i>> \in LinesOf(file)
      OBVIOUS
    <2>2. <<s, i>> \in {s} \X (1..Len(file[s]))
      BY <1>2
    <2> QED BY <2>2 DEF LinesOf
  <1> HIDE DEF few, many
  <1>5. IsFiniteSet(many)
    BY <1>2, <1>4, FilesAreFinite, FS_Subset
  <1>6. Cardinality(few) <= Cardinality(many) /\ Cardinality(many) \in Nat
    BY <1>3, <1>5, FS_Subset, FS_CardinalityType
  <1>7. Cardinality(few) \in Nat
    BY <1>2, StoredLinesFinite DEF few
  <1>8. readings[k][t] <= uploaded[k][t] + Cardinality(few)
    BY <1>1 DEF RowsAreLines, few
  <1>9. readings[k][t] \in Nat /\ uploaded[k][t] \in Nat
    BY DEF Types, TypeOK
  <1>10. readings[k][t] <= uploaded[k][t] + Cardinality(many)
    BY <1>6, <1>7, <1>8, <1>9
  <1> QED BY <1>10 DEF many

\* Until two runs overlap, a point holds at a time no more rows than files have
\* lines for it and uploads brought, although the table would take more: the
\* lines a commit takes lie after the cursor, which moves in the same
\* transaction.
THEOREM StoredOnceAlone == Spec => []StoredOnce
  <1>1. Init => IInv
    BY InitTypes, InitHeld, InitAlone DEF IInv
  <1>2. IInv /\ [Next]_vars => IInv'
    BY TypesStep, HeldStep, OneAtATimeStep, RowsAreLinesStep DEF IInv
  <1>3. IInv => StoredOnce
    BY RowsAreOfFiles DEF IInv
  <1> QED BY <1>1, <1>2, <1>3, PTL DEF Spec
==============================================================================
