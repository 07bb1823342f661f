-------------------------- MODULE BacnetGatewayProofs --------------------------
(***************************************************************************)
(* Proofs about BacnetGateway: the types of requests and stores, and that  *)
(* every write a device holds through a point that exists is in the audit, *)
(* on its way there, or its row was itself lost; that a write comes to no  *)
(* third gateway; and that the graph shows what was found.                 *)
(***************************************************************************)
EXTENDS BacnetGateway, TLAPS

\* Addresses still to try, one at least.
Ways == {s \in Seq(Urls) : Len(s) > 0}

\* What a client may be in.
Idles == [at : {"idle"}]
PointCalls ==
  [at : {"send"}, op : {"point"}, point : Points, obj : Objects, value : Values,
   url : Urls, left : Ways, onward : BOOLEAN]
PropertyCalls ==
  [at : {"send"}, op : {"property"}, point : {Null}, obj : Objects, value : PropertyValues,
   url : Urls, left : Ways, onward : BOOLEAN]
DiscoverCalls ==
  [at : {"send"}, op : {"discover"}, dev : Devices, writes : BOOLEAN, current : BOOLEAN,
   url : Urls, left : Ways, onward : BOOLEAN]
Audits == [at : {"audit"}, op : {"point"}, point : Points, value : Values, ok : BOOLEAN]
Merging == [at : {"merge"}, dev : Devices, writes : BOOLEAN, objects : SUBSET Objects, agrees : Hosts \cup {Null}]
Saving == [at : {"reset", "save"}] \cup [at : {"write"}, text : Graphs]
Calls == PointCalls \cup PropertyCalls \cup DiscoverCalls
Requests == Idles \cup Calls \cup Audits \cup Merging \cup Saving

Types ==
  /\ TypeOK
  /\ gateways \in Seq(Urls)
  /\ net \in [Hosts -> SUBSET Objects]
  /\ req \in [Clients -> Requests]

\* The places a call tries are addresses.
LEMMA PathsAreUrls == \A u \in Urls : Paths(u) \in Ways
<1> TAKE u \in Urls
<1>1. \A cond \in BOOLEAN, v \in Urls \cup {Null} : If(cond, v) \in Seq(Urls)
  BY DEF If
<1>2. LanFirst(u) \in BOOLEAN /\ (u = DockerHost) \in BOOLEAN
  BY DEF LanFirst
<1>3. If(LanFirst(u), Lan) \in Seq(Urls)
  BY <1>1, <1>2, Addresses
<1>4. If(u = DockerHost, Caddy) \in Seq(Urls)
  BY <1>1, <1>2, Addresses
<1>5. If(~ LanFirst(u) /\ u # Lan, Lan) \in Seq(Urls)
  BY <1>1, <1>2, Addresses
<1>6. If(u = DockerHost /\ Route # Lan, Route) \in Seq(Urls)
  BY <1>1, <1>2, Addresses
<1>7. If(u \in {DockerHost, Caddy, Lan}, Exec) \in Seq(Urls)
  BY Addresses DEF If
<1>8. <<u>> \in Seq(Urls) /\ Len(<<u>>) = 1
  OBVIOUS
<1>9. \A s, t \in Seq(Urls) : s \o t \in Seq(Urls) /\ Len(s \o t) = Len(s) + Len(t) /\ Len(s) \in Nat
  OBVIOUS
<1>10. Candidates(u) \in Seq(Urls) /\ Len(Candidates(u)) > 0
  <2> DEFINE X == If(LanFirst(u), Lan) \o If(u = DockerHost, Caddy)
             Y == X \o <<u>>
             Z == Y \o If(~ LanFirst(u) /\ u # Lan, Lan)
  <2>1. X \in Seq(Urls) /\ Len(X) \in Nat
    BY <1>3, <1>4, <1>9
  <2>2. Y \in Seq(Urls) /\ Len(Y) > 0
    <3> HIDE DEF X
    <3> QED BY <2>1, <1>8, <1>9
  <2>3. Z \in Seq(Urls) /\ Len(Z) > 0
    <3> HIDE DEF Y
    <3> QED BY <2>2, <1>5, <1>9
  <2>4. Candidates(u) = Z \o If(u = DockerHost /\ Route # Lan, Route)
    BY DEF Candidates
  <2> HIDE DEF Z
  <2> QED BY <2>3, <2>4, <1>6, <1>9
<1> QED BY <1>7, <1>9, <1>10 DEF Paths, Ways

\* The address of a gateway that is known.
LEMMA UrlsKnown ==
  ASSUME Types, NEW id \in Ids, UrlOf(id) # Null
  PROVE  UrlOf(id) \in Urls
  BY Addresses DEF Types, UrlOf, Ids

\* What clients ask for and what comes of an answer is a request.
LEMMA NewCalls ==
  /\ \A p \in Points, o \in Objects, v \in Values, u \in Urls : ToSend("point", p, o, v, u) \in PointCalls
  /\ \A o \in Objects, v \in PropertyValues, u \in Urls : ToSend("property", Null, o, v, u) \in PropertyCalls
  /\ \A body \in DiscoveryBody, u \in Urls : ToDiscover(body, u) \in DiscoverCalls
  /\ \A p \in Points, v \in Values, ok \in BOOLEAN : ToAudit(p, v, ok) \in Audits
  /\ \A r \in DiscoverCalls, s \in SUBSET Objects, h \in Hosts \cup {Null} : ToMerge(r, s, h) \in Merging
  BY PathsAreUrls DEF ToSend, ToDiscover, ToAudit, ToMerge, DiscoveryBody, PointCalls, PropertyCalls, DiscoverCalls, Audits, Merging

LEMMA AnswersOfCalls ==
  ASSUME NEW r \in PointCalls \cup PropertyCalls, NEW ok \in BOOLEAN
  PROVE  Answered(r, ok) \in Idles \cup Audits
<1>1. CASE r \in PointCalls
  BY <1>1, NewCalls DEF Answered, PointCalls, Idle, Idles
<1>2. CASE r \in PropertyCalls
  BY <1>2 DEF Answered, PropertyCalls, Idle, Idles
<1> QED BY <1>1, <1>2

\* A write through a point or without one.
LEMMA WritesOfCalls ==
  ASSUME NEW r \in PointCalls \cup PropertyCalls
  PROVE  Written(r) \in Write
  BY DEF Written, Write, PropertyValues, PointCalls, PropertyCalls

LEMMA Kinds ==
  ASSUME NEW r \in Requests
  PROVE  /\ r.at = "send" => r \in Calls
         /\ r.at = "audit" => r \in Audits
         /\ r.at = "merge" => r \in Merging
         /\ r.at \in {"reset", "save", "write"} => r \in Saving
         /\ r.at = "send" /\ r.op = "discover" => r \in DiscoverCalls
         /\ r.at = "send" /\ r.op # "discover" => r \in PointCalls \cup PropertyCalls
  BY DEF Requests, Idles, Calls, PointCalls, PropertyCalls, DiscoverCalls, Audits, Merging, Saving

LEMMA Becoming ==
  ASSUME req \in [Clients -> Requests], NEW c \in Clients, NEW r \in Requests, Becomes(c, r)
  PROVE  req' \in [Clients -> Requests]
  BY DEF Becomes

LEMMA Slots ==
  ASSUME slot \in [Hosts -> [Objects -> Write \cup {Null}]],
         NEW h, NEW o, NEW w \in Write, Performed(h, o, w)
  PROVE  slot' \in [Hosts -> [Objects -> Write \cup {Null}]]
  BY DEF Performed

LEMMA RemovedTyped ==
  ASSUME graph \in Graphs, NEW d \in Devices, NEW s \in SUBSET Objects
  PROVE  /\ Removed(d) \in Graphs
         /\ Merged(d, s) \in Graphs
<1>1. Removed(d) \in Graphs
  BY DEF Removed, Graphs
<1>2. \A old \in (SUBSET Objects) \cup {Null} : Known(old) \cup s \in SUBSET Objects
  BY DEF Known
<1> QED BY <1>1, <1>2 DEF Merged, Graphs

LEMMA HeadKnown == \A s \in Ways : Head(s) \in Urls
  BY DEF Ways

\* The stores that only some actions touch.
stores == <<points, audit, graph, file, text, slot, late, lost>>
LEMMA SameStores ==
  ASSUME TypeOK, UNCHANGED stores
  PROVE  TypeOK'
  BY DEF TypeOK, stores

LEMMA TypesInit == Init => Types
<1> SUFFICES ASSUME Init PROVE Types
  OBVIOUS
<1>1. TypeOK
  BY Surroundings DEF Init, TypeOK, Graphs
<1>2. req \in [Clients -> Requests]
  BY DEF Init, Idle, Idles, Requests
<1> QED BY <1>1, <1>2, Surroundings DEF Init, Types

LEMMA TypesStep == Types /\ [Next]_vars => Types'
<1> SUFFICES ASSUME Types, [Next]_vars PROVE Types'
  OBVIOUS
<1> USE DEF Types
<1>idle. Idle \in Requests
  BY DEF Idle, Idles, Requests
<1>1. ASSUME NEW c \in Clients, StartWritePoint(c) PROVE Types'
  <2>1. PICK p \in Points, v \in Values, id \in Ids :
          Becomes(c, IF p \notin DOMAIN points THEN Idle
                     ELSE IF points[p] = Null \/ UrlOf(id) = Null THEN ToAudit(p, v, FALSE)
                     ELSE ToSend("point", p, points[p], v, UrlOf(id)))
    BY <1>1 DEF StartWritePoint
  <2>2. ToAudit(p, v, FALSE) \in Requests
    BY NewCalls DEF Requests
  <2>3. p \in DOMAIN points /\ points[p] # Null /\ UrlOf(id) # Null
          => ToSend("point", p, points[p], v, UrlOf(id)) \in Requests
    BY NewCalls, UrlsKnown DEF Requests, Calls, TypeOK
  <2>4. req' \in [Clients -> Requests]
    BY <2>1, <2>2, <2>3, <1>idle, Becoming
  <2> QED BY <1>1, <2>4, SameStores DEF StartWritePoint, stores, model, world
<1>2. ASSUME NEW c \in Clients, StartWriteProperty(c) PROVE Types'
  <2>1. PICK o \in Objects, v \in PropertyValues, id \in Ids :
          Becomes(c, IF UrlOf(id) = Null THEN Idle ELSE ToSend("property", Null, o, v, UrlOf(id)))
    BY <1>2 DEF StartWriteProperty
  <2>2. UrlOf(id) # Null => ToSend("property", Null, o, v, UrlOf(id)) \in Requests
    BY NewCalls, UrlsKnown DEF Requests, Calls
  <2>3. req' \in [Clients -> Requests]
    BY <2>1, <2>2, <1>idle, Becoming
  <2> QED BY <1>2, <2>3, SameStores DEF StartWriteProperty, stores, model, world
<1>3. ASSUME NEW c \in Clients, StartDiscovery(c) PROVE Types'
  <2>1. PICK body \in DiscoveryBody, id \in Ids :
          Becomes(c, IF UrlOf(id) = Null THEN Idle ELSE ToDiscover(body, UrlOf(id)))
    BY <1>3 DEF StartDiscovery
  <2>2. UrlOf(id) # Null => ToDiscover(body, UrlOf(id)) \in Requests
    BY NewCalls, UrlsKnown DEF Requests, Calls
  <2>3. req' \in [Clients -> Requests]
    BY <2>1, <2>2, <1>idle, Becoming
  <2> QED BY <1>3, <2>3, SameStores DEF StartDiscovery, stores, model, world
<1>3a. ASSUME NEW c \in Clients, StartDiscoveryJob(c) PROVE Types'
  <2>1. PICK d \in Devices, id \in Ids :
          Becomes(c, ToDiscover([dev |-> d, writes |-> TRUE], JobUrl(id)))
    BY <1>3a DEF StartDiscoveryJob
  <2>2. JobUrl(id) \in Urls
    BY UrlsKnown, Addresses DEF JobUrl
  <2>3. [dev |-> d, writes |-> TRUE] \in DiscoveryBody
    BY DEF DiscoveryBody
  <2>4. ToDiscover([dev |-> d, writes |-> TRUE], JobUrl(id)) \in Requests
    BY <2>2, <2>3, NewCalls DEF Requests, Calls
  <2>5. req' \in [Clients -> Requests]
    BY <2>1, <2>4, Becoming
  <2> QED BY <1>3a, <2>5, SameStores DEF StartDiscoveryJob, stores, model, world
<1>4. ASSUME NEW c \in Clients, Answer(c) PROVE Types'
  <2> DEFINE r == req[c]
             h == Gateway(c)
  <2>0. r \in Requests /\ r.at = "send"
    BY <1>4 DEF Answer, Sending, At
  <2>1. CASE r.op = "discover"
    <3>1. r \in DiscoverCalls
      BY <2>0, <2>1, Kinds
    <3>2. Becomes(c, ToMerge(r, ObjectsAt(h, r.dev), IF h = Behind[r.url] /\ r.current THEN h ELSE Null))
          /\ UNCHANGED slot
      BY <1>4, <2>1 DEF Answer
    <3>3. r.dev \in Devices /\ Behind[r.url] \in Hosts
      BY <3>1, Addresses DEF DiscoverCalls
    <3>4. h \in Hosts
      BY <3>1, Addresses, HeadKnown DEF DiscoverCalls, Gateway
    <3>5. ObjectsAt(h, r.dev) \in SUBSET Objects
      BY <3>4 DEF ObjectsAt
    <3>6. ToMerge(r, ObjectsAt(h, r.dev), IF h = Behind[r.url] /\ r.current THEN h ELSE Null) \in Requests
      BY <3>1, <3>3, <3>4, <3>5, NewCalls DEF Requests
    <3>7. req' \in [Clients -> Requests]
      BY <3>2, <3>6, Becoming
    <3> QED BY <1>4, <3>2, <3>7, SameStores DEF Answer, stores, model, world
  <2>2. CASE r.op # "discover"
    <3>1. r \in PointCalls \cup PropertyCalls
      BY <2>0, <2>2, Kinds
    <3>2. Performed(h, r.obj, Written(r)) /\ Becomes(c, Answered(r, TRUE))
      BY <1>4, <2>2 DEF Answer
    <3>3. Answered(r, TRUE) \in Requests
      BY <3>1, AnswersOfCalls DEF Requests
    <3>4. req' \in [Clients -> Requests]
      BY <3>2, <3>3, Becoming
    <3>5. slot' \in [Hosts -> [Objects -> Write \cup {Null}]]
      BY <3>1, <3>2, WritesOfCalls, Slots DEF TypeOK
    <3> QED BY <1>4, <3>4, <3>5 DEF Answer, TypeOK, model, world
  <2> QED BY <2>1, <2>2
<1>5. ASSUME NEW c \in Clients, Refuse(c) PROVE Types'
  <2> DEFINE r == req[c]
  <2>0. r \in Requests /\ r.at = "send"
    BY <1>5 DEF Refuse, Sending, At
  <2>1. Becomes(c, IF r.op = "discover" THEN ToMerge(r, {}, Null) ELSE Answered(r, TRUE))
    BY <1>5 DEF Refuse
  <2>2. r.op = "discover" => ToMerge(r, {}, Null) \in Requests
    <3> SUFFICES ASSUME r.op = "discover" PROVE ToMerge(r, {}, Null) \in Requests
      OBVIOUS
    <3>1. r \in DiscoverCalls
      BY <2>0, Kinds
    <3> QED BY <3>1, NewCalls DEF DiscoverCalls, Requests
  <2>3. r.op # "discover" => Answered(r, TRUE) \in Requests
    BY <2>0, Kinds, AnswersOfCalls DEF Requests
  <2>4. req' \in [Clients -> Requests]
    BY <2>1, <2>2, <2>3, Becoming
  <2> QED BY <1>5, <2>4, SameStores DEF Refuse, stores, model, world
<1>6. ASSUME NEW c \in Clients, Unanswered(c) PROVE Types'
  <2> DEFINE r == req[c]
             h == Gateway(c)
  <2>0. r \in Requests /\ r.at = "send"
    BY <1>6 DEF Unanswered, Sending, At
  <2>1. r \in Calls
    BY <2>0, Kinds
  <2>2. Becomes(c, IF Len(r.left) > 1 THEN [r EXCEPT !.left = Tail(@), !.onward = TRUE] ELSE Answered(r, FALSE))
    BY <1>6 DEF Unanswered
  <2>3. r.left \in Ways
    BY <2>1 DEF Calls, PointCalls, PropertyCalls, DiscoverCalls
  <2>4. Len(r.left) > 1 => Tail(r.left) \in Ways
    BY <2>3 DEF Ways
  <2>5. Len(r.left) > 1 => [r EXCEPT !.left = Tail(@), !.onward = TRUE] \in Requests
    BY <2>1, <2>4 DEF Requests, Calls, PointCalls, PropertyCalls, DiscoverCalls
  <2>6. Answered(r, FALSE) \in Requests
    <3>1. CASE r \in DiscoverCalls
      BY <3>1, <1>idle DEF Answered, DiscoverCalls
    <3>2. CASE r \in PointCalls \cup PropertyCalls
      BY <3>2, AnswersOfCalls DEF Requests
    <3> QED BY <2>1, <3>1, <3>2 DEF Calls
  <2>7. req' \in [Clients -> Requests]
    BY <2>2, <2>5, <2>6, Becoming
  <2>8. CASE UNCHANGED <<slot, late>>
    BY <1>6, <2>7, <2>8, SameStores DEF Unanswered, stores, model, world
  <2>9. CASE Takes(h, r) /\ Performed(h, r.obj, Written(r)) /\ UNCHANGED late
    <3>1. r \in PointCalls \cup PropertyCalls
      BY <2>0, <2>9, Kinds DEF Takes
    <3>2. slot' \in [Hosts -> [Objects -> Write \cup {Null}]]
      BY <3>1, <2>9, WritesOfCalls, Slots DEF TypeOK
    <3> QED BY <1>6, <2>7, <2>9, <3>2 DEF Unanswered, TypeOK, model, world
  <2>10. CASE Takes(h, r) /\ late' = late \cup {<<h, r.obj, Written(r)>>} /\ UNCHANGED slot
    <3>1. r \in PointCalls \cup PropertyCalls
      BY <2>0, <2>10, Kinds DEF Takes
    <3>2. h \in Hosts
      BY <2>3, Addresses, HeadKnown DEF Gateway
    <3>3. r.obj \in Objects
      BY <3>1 DEF PointCalls, PropertyCalls
    <3>4. late' \subseteq Hosts \X Objects \X Write
      BY <2>10, <3>1, <3>2, <3>3, WritesOfCalls DEF TypeOK
    <3> QED BY <1>6, <2>7, <2>10, <3>4 DEF Unanswered, TypeOK, model, world
  <2> QED BY <1>6, <2>8, <2>9, <2>10 DEF Unanswered
<1>7. ASSUME PerformLate PROVE Types'
  <2>1. PICK l \in late : Performed(l[1], l[2], l[3]) /\ late' = late \ {l}
    BY <1>7 DEF PerformLate
  <2>2. l[3] \in Write
    BY DEF TypeOK
  <2>3. slot' \in [Hosts -> [Objects -> Write \cup {Null}]]
    BY <2>1, <2>2, Slots DEF TypeOK
  <2> QED BY <1>7, <2>1, <2>3 DEF PerformLate, TypeOK, model, world
<1>8. ASSUME NEW c \in Clients, Audit(c) PROVE Types'
  <2>1. req[c] \in Audits
    BY <1>8, Kinds DEF Audit, At
  <2>2. req' \in [Clients -> Requests]
    BY <1>8, <1>idle, Becoming DEF Audit
  <2>3. audit' \subseteq [point : DOMAIN points, value : Values, ok : BOOLEAN]
    BY <1>8, <2>1 DEF Audit, Audits, TypeOK
  <2> QED BY <1>8, <2>2, <2>3 DEF Audit, TypeOK, model, world
<1>9. ASSUME NEW c \in Clients, AuditFails(c) PROVE Types'
  <2>1. req[c] \in Audits
    BY <1>9, Kinds DEF AuditFails, At
  <2>2. req' \in [Clients -> Requests]
    BY <1>9, <1>idle, Becoming DEF AuditFails
  <2>3. lost' \subseteq Points
    BY <1>9, <2>1 DEF AuditFails, Audits, TypeOK
  <2> QED BY <1>9, <2>2, <2>3 DEF AuditFails, TypeOK, model, world
<1>10. ASSUME NEW c \in Clients, Merge(c) PROVE Types'
  <2>1. req[c] \in Merging
    BY <1>10, Kinds DEF Merge, At
  <2>2. [at |-> "save"] \in Requests
    BY DEF Requests, Saving
  <2>3. req' \in [Clients -> Requests]
    BY <1>10, <2>2, <1>idle, Becoming DEF Merge
  <2>4. graph' \in Graphs
    <3>1. req[c].dev \in Devices /\ req[c].objects \in SUBSET Objects
      BY <2>1 DEF Merging
    <3>2. graph' = Merged(req[c].dev, req[c].objects) \/ graph' = Removed(req[c].dev)
      BY <1>10 DEF Merge
    <3>3. graph \in Graphs
      BY DEF TypeOK
    <3> DEFINE d == req[c].dev
               s == req[c].objects
    <3>4. d \in Devices /\ s \in SUBSET Objects
      BY <3>1
    <3>5. graph' = Merged(d, s) \/ graph' = Removed(d)
      BY <3>2
    <3>6. /\ Removed(d) \in Graphs
          /\ Merged(d, s) \in Graphs
      <4> HIDE DEF d, s
      <4> QED BY <3>3, <3>4, RemovedTyped
    <3> QED BY <3>5, <3>6
  <2> QED BY <1>10, <2>3, <2>4 DEF Merge, TypeOK
<1>11. ASSUME NEW c \in Clients, Save(c) PROVE Types'
  <2>1. req' \in [Clients -> Requests]
    BY <1>11, <1>idle, Becoming DEF Save
  <2>2. req[c] \in Saving /\ req[c].at = "write"
    BY <1>11, Kinds DEF Save, At
  <2>3. file' \in Graphs
    BY <1>11, <2>2 DEF Save, Saving, TypeOK
  <2> QED BY <1>11, <2>1, <2>3 DEF Save, TypeOK, world
<1>11a. ASSUME NEW c \in Clients, StartReset(c) PROVE Types'
  <2>1. [at |-> "reset"] \in Requests
    BY DEF Requests, Saving
  <2>2. req' \in [Clients -> Requests]
    BY <1>11a, <2>1, Becoming DEF StartReset
  <2>3. CASE UNCHANGED <<points, audit>>
    BY <1>11a, <2>2, <2>3, SameStores DEF StartReset, stores, model, world
  <2>4. CASE points' = [p \in {} |-> Null] /\ audit' = {}
    BY <1>11a, <2>2, <2>4 DEF StartReset, TypeOK, model, world
  <2> QED BY <1>11a, <2>3, <2>4 DEF StartReset
<1>11b. ASSUME NEW c \in Clients, ResetGraph(c) PROVE Types'
  <2>1. [at |-> "save"] \in Requests
    BY DEF Requests, Saving
  <2>2. req' \in [Clients -> Requests]
    BY <1>11b, <2>1, <1>idle, Becoming DEF ResetGraph
  <2>3. graph' \in Graphs
    BY <1>11b DEF ResetGraph, Cleared, Graphs
  <2> QED BY <1>11b, <2>2, <2>3 DEF ResetGraph, TypeOK
<1>11c. ASSUME NEW c \in Clients, Serialize(c) PROVE Types'
  <2>1. [at |-> "write", text |-> graph] \in Requests
    BY DEF Requests, Saving, TypeOK
  <2>2. req' \in [Clients -> Requests]
    BY <1>11c, <2>1, Becoming DEF Serialize
  <2> QED BY <1>11c, <2>2, SameStores DEF Serialize, stores, model, world
<1>11d. ASSUME SyncLoop PROVE Types'
  <2>1. file' \in Graphs /\ text' \in Graphs \cup {Null}
    BY <1>11d DEF SyncLoop, TypeOK
  <2> QED BY <1>11d, <2>1 DEF SyncLoop, TypeOK, world
<1>12. ASSUME Restart PROVE Types'
  <2>1. req' \in [Clients -> Requests]
    BY <1>12, <1>idle DEF Restart
  <2>2. lost' \subseteq Points
    <3>1. \A c \in Clients : At(c) \in {"send", "audit"} /\ req[c].op = "point" => req[c].point \in Points
      BY Kinds DEF At, Calls, PointCalls, PropertyCalls, DiscoverCalls, Audits
    <3> QED BY <1>12, <3>1 DEF Restart, TypeOK
  <2>3. file' \in Graphs
    <3>1. Texts \subseteq Graphs
      BY Kinds DEF Texts, TypeOK, At, Saving
    <3>2. \A t \in Graphs : Parts(t) \subseteq Graphs
      BY DEF Parts, Graphs
    <3> QED BY <1>12, <3>1, <3>2 DEF Restart, TypeOK
  <2> QED BY <1>12, <2>1, <2>2, <2>3 DEF Restart, TypeOK
<1>13. ASSUME DeletePoint PROVE Types'
  <2>1. PICK p \in DOMAIN points :
          points' = [q \in DOMAIN points \ {p} |-> points[q]] /\ audit' = Cascade(p)
    BY <1>13 DEF DeletePoint
  <2>2. audit' \subseteq [point : DOMAIN points', value : Values, ok : BOOLEAN]
    BY <2>1 DEF Cascade, TypeOK
  <2>3. DOMAIN points' \subseteq Points /\ points' \in [DOMAIN points' -> Objects \cup {Null}]
    BY <2>1 DEF TypeOK
  <2> QED BY <1>13, <2>2, <2>3 DEF DeletePoint, TypeOK, model
<1>14. ASSUME PutConfig PROVE Types'
  <2>1. gateways' \in Seq(Urls)
    BY <1>14, Surroundings DEF PutConfig
  <2> QED BY <1>14, <2>1, SameStores DEF PutConfig, stores, model
<1>15. ASSUME ChangeNet PROVE Types'
  <2>1. \A r \in Requests : /\ "current" \in DOMAIN r => [r EXCEPT !.current = FALSE] \in Requests
                            /\ "agrees" \in DOMAIN r => [r EXCEPT !.agrees = Null] \in Requests
    <3> TAKE r \in Requests
    <3>1. CASE r \in DiscoverCalls
      BY <3>1 DEF DiscoverCalls, Requests, Calls
    <3>2. CASE r \in Merging
      BY <3>2 DEF Merging, Requests
    <3>3. CASE r \in PointCalls \cup PropertyCalls \cup Audits \cup Idles \cup Saving
      BY <3>3 DEF PointCalls, PropertyCalls, Audits, Idles, Saving
    <3> QED BY <3>1, <3>2, <3>3 DEF Requests, Calls
  <2>2. req' \in [Clients -> Requests]
    BY <1>15, <2>1 DEF ChangeNet
  <2>3. net' \in [Hosts -> SUBSET Objects]
    BY <1>15, Surroundings DEF ChangeNet
  <2> QED BY <1>15, <2>2, <2>3, SameStores DEF ChangeNet, stores, model
<1>16. CASE UNCHANGED vars
  BY <1>16 DEF vars, TypeOK
<1> QED BY <1>1, <1>2, <1>3, <1>3a, <1>4, <1>5, <1>6, <1>7, <1>8, <1>9, <1>10, <1>11, <1>11a, <1>11b, <1>11c, <1>11d,
     <1>12, <1>13, <1>14, <1>15, <1>16 DEF Next, Handle

LEMMA TypesAlways == Spec => []Types
  BY TypesInit, TypesStep, PTL DEF Spec

\* Types of the requests and stores; every audit row is of a point that exists,
\* through deletes, cascades and requests that began before them.
THEOREM GatewayTypeCorrect == Spec => []TypeOK
  BY TypesAlways, PTL DEF Types

------------------------------------------------------------------------------
\* Where a write through point p of value v can be traced: a row, or a reason
\* why there is none; or the request of a client that will write one.
Settled(p, v) == p \in {Null} \cup lost \cup (Points \ DOMAIN points) \/ Row(p, v)
Claims(c, p, v) == At(c) \in {"send", "audit"} /\ req[c].op = "point" /\ req[c].point = p /\ req[c].value = v
Traceable == {w \in Write : Settled(w.by, w.value) \/ \E c \in Clients : Claims(c, w.by, w.value)}
\* Writes still to be performed count as much as those performed.
Accounted ==
  /\ slot \in [Hosts -> [Objects -> Traceable \cup {Null}]]
  /\ \A l \in late : l[3] \in Traceable

\* Nothing that is settled comes undone: rows go with their point only.
LEMMA StaysSettled ==
  ASSUME Types, [Next]_vars, NEW p, NEW v, Settled(p, v)
  PROVE  Settled(p, v)'
<1>1. CASE UNCHANGED <<points, audit, lost>>
  BY <1>1 DEF Settled, Row
<1>2. ASSUME NEW c \in Clients, Audit(c) PROVE Settled(p, v)'
  <2>1. audit \subseteq audit' /\ UNCHANGED <<points, lost>>
    BY <1>2 DEF Audit
  <2> QED BY <2>1 DEF Settled, Row
<1>3. ASSUME NEW c \in Clients, AuditFails(c) PROVE Settled(p, v)'
  BY <1>3 DEF AuditFails, Settled, Row
<1>4. CASE Restart
  BY <1>4 DEF Restart, Settled, Row
<1>5. CASE DeletePoint
  <2>1. PICK q \in DOMAIN points :
          points' = [x \in DOMAIN points \ {q} |-> points[x]] /\ audit' = Cascade(q) /\ lost' = lost
    BY <1>5 DEF DeletePoint
  <2>2. q \in Points \ DOMAIN points'
    BY <2>1 DEF Types, TypeOK
  <2>3. CASE p = q
    BY <2>2, <2>3 DEF Settled
  <2>4. CASE p # q
    BY <2>1, <2>4 DEF Settled, Row, Cascade
  <2> QED BY <2>3, <2>4
<1>6. ASSUME NEW c \in Clients, StartReset(c), ~ UNCHANGED <<points, audit>> PROVE Settled(p, v)'
  <2>1. points' = [x \in {} |-> Null] /\ audit' = {} /\ lost' = lost
    BY <1>6 DEF StartReset
  <2>2. p \in {Null} \cup lost \/ p \in Points
    BY DEF Settled, Row, Types, TypeOK
  <2>3. DOMAIN points' = {}
    BY <2>1
  <2> QED BY <2>1, <2>2, <2>3 DEF Settled
<1>7. ASSUME NEW c \in Clients, StartReset(c) PROVE Settled(p, v)'
  BY <1>1, <1>6, <1>7 DEF StartReset
<1> QED BY <1>1, <1>2, <1>3, <1>4, <1>5, <1>7
     DEF Next, Handle, vars, StartWritePoint, StartWriteProperty, StartDiscovery, StartDiscoveryJob, Answer, Refuse,
         Unanswered, Merge, ResetGraph, Serialize, Save, SyncLoop, PerformLate, PutConfig, ChangeNet, model, world

LEMMA OnlyOne ==
  ASSUME req \in [Clients -> Requests], NEW c \in Clients, NEW r, Becomes(c, r), NEW d \in Clients
  PROVE  req'[d] = IF d = c THEN r ELSE req[d]
  BY DEF Becomes

\* A request for a point keeps its claim until a row, or the failure of one.
LEMMA ClaimStays ==
  ASSUME Types, [Next]_vars, NEW d \in Clients, NEW p, NEW v, Claims(d, p, v)
  PROVE  Claims(d, p, v)' \/ Settled(p, v)'
<1> USE DEF Types
<1>a. req[d] \in Requests /\ req[d].at \in {"send", "audit"} /\ req[d].op = "point"
      /\ req[d].point = p /\ req[d].value = v
  BY DEF Claims, At
<1>b. req[d] \in PointCalls \cup Audits /\ req[d] # Idle /\ p \in Points
  BY <1>a DEF Requests, Idles, Calls, PointCalls, PropertyCalls, DiscoverCalls, Audits, Merging, Saving, Idle
<1>c. req'[d] = req[d] => Claims(d, p, v)'
  BY <1>a DEF Claims, At
<1>d. \A ok \in BOOLEAN : req'[d] = Answered(req[d], ok) => Claims(d, p, v)'
  BY <1>a DEF Claims, At, Answered, ToAudit
<1>1. ASSUME NEW c \in Clients, StartWritePoint(c) \/ StartWriteProperty(c) \/ StartDiscovery(c) \/ StartDiscoveryJob(c) \/ StartReset(c)
      PROVE  Claims(d, p, v)'
  <2>1. req[c] = Idle /\ \E r : Becomes(c, r)
    BY <1>1 DEF StartWritePoint, StartWriteProperty, StartDiscovery, StartDiscoveryJob, StartReset, Free
  <2> QED BY <2>1, <1>b, <1>c, OnlyOne
<1>2. ASSUME NEW c \in Clients, Answer(c) PROVE Claims(d, p, v)'
  <2>1. CASE c = d
    <3>1. Becomes(d, Answered(req[d], TRUE))
      BY <1>2, <2>1, <1>a DEF Answer
    <3> QED BY <3>1, <1>d, OnlyOne
  <2>2. CASE c # d
    <3>1. \E r : Becomes(c, r)
      BY <1>2 DEF Answer
    <3> QED BY <2>2, <3>1, <1>c, OnlyOne
  <2> QED BY <2>1, <2>2
<1>3. ASSUME NEW c \in Clients, Refuse(c) PROVE Claims(d, p, v)'
  <2>1. Becomes(c, IF req[c].op = "discover" THEN ToMerge(req[c], {}, Null) ELSE Answered(req[c], TRUE))
    BY <1>3 DEF Refuse
  <2>2. CASE c = d
    <3>1. req'[d] = Answered(req[d], TRUE)
      BY <2>1, <2>2, <1>a, OnlyOne
    <3> QED BY <3>1, <1>d
  <2>3. CASE c # d
    BY <2>1, <2>3, <1>c, OnlyOne
  <2> QED BY <2>2, <2>3
<1>4. ASSUME NEW c \in Clients, Unanswered(c) PROVE Claims(d, p, v)'
  <2>1. Becomes(c, IF Len(req[c].left) > 1 THEN [req[c] EXCEPT !.left = Tail(@), !.onward = TRUE] ELSE Answered(req[c], FALSE))
    BY <1>4 DEF Unanswered
  <2>2. CASE c = d
    <3>1. CASE Len(req[d].left) > 1
      <4>1. req[d].at = "send"
        BY <1>4, <2>2 DEF Unanswered, Sending, At
      <4>2. req[d] \in PointCalls
        BY <1>b, <4>1 DEF Audits
      <4>3. req'[d] = [req[d] EXCEPT !.left = Tail(@), !.onward = TRUE]
        BY <2>1, <2>2, <3>1, OnlyOne
      <4>4. req'[d].at = req[d].at /\ req'[d].op = req[d].op /\ req'[d].point = req[d].point /\ req'[d].value = req[d].value
        BY <4>2, <4>3 DEF PointCalls
      <4> QED BY <4>4, <1>a DEF Claims, At
    <3>2. CASE ~ Len(req[d].left) > 1
      BY <2>1, <2>2, <3>2, <1>d, OnlyOne
    <3> QED BY <3>1, <3>2
  <2>3. CASE c # d
    BY <2>1, <2>3, <1>c, OnlyOne
  <2> QED BY <2>2, <2>3
<1>5. ASSUME NEW c \in Clients, Audit(c) PROVE Claims(d, p, v)' \/ Settled(p, v)'
  <2>1. CASE c = d
    <3>1. CASE p \in DOMAIN points
      <4>1. [point |-> p, value |-> v, ok |-> req[d].ok] \in audit'
        BY <1>5, <2>1, <3>1, <1>a DEF Audit
      <4>2. Row(p, v)'
        BY <4>1 DEF Row
      <4> QED BY <4>2 DEF Settled
    <3>2. CASE p \notin DOMAIN points
      BY <1>5, <3>2, <1>b DEF Audit, Settled
    <3> QED BY <3>1, <3>2
  <2>2. CASE c # d
    <3>1. Becomes(c, Idle)
      BY <1>5 DEF Audit
    <3> QED BY <3>1, <2>2, <1>c, OnlyOne
  <2> QED BY <2>1, <2>2
<1>6. ASSUME NEW c \in Clients, AuditFails(c) PROVE Claims(d, p, v)' \/ Settled(p, v)'
  <2>1. Becomes(c, Idle) /\ lost' = lost \cup {req[c].point}
    BY <1>6 DEF AuditFails
  <2>2. CASE c = d
    BY <2>1, <2>2, <1>a DEF Settled
  <2>3. CASE c # d
    BY <2>1, <2>3, <1>c, OnlyOne
  <2> QED BY <2>2, <2>3
<1>7. ASSUME NEW c \in Clients, Merge(c) \/ ResetGraph(c) \/ Serialize(c) \/ Save(c) PROVE Claims(d, p, v)'
  <2>1. c # d /\ \E r : Becomes(c, r)
    BY <1>7, <1>a DEF Merge, ResetGraph, Serialize, Save, At
  <2> QED BY <2>1, <1>c, OnlyOne
<1>8. CASE Restart
  <2>1. p \in lost'
    BY <1>8, <1>a DEF Restart, At
  <2> QED BY <2>1 DEF Settled
<1>9. CASE ChangeNet
  <2>1. "current" \notin DOMAIN req[d] /\ "agrees" \notin DOMAIN req[d]
    BY <1>b DEF PointCalls, Audits
  <2>2. req'[d] = req[d]
    BY <1>9, <2>1 DEF ChangeNet
  <2> QED BY <2>2, <1>c
<1>10. CASE SyncLoop \/ PerformLate \/ DeletePoint \/ PutConfig \/ UNCHANGED vars
  <2>1. req' = req
    BY <1>10 DEF SyncLoop, PerformLate, DeletePoint, PutConfig, vars
  <2> QED BY <2>1, <1>c
<1> QED BY <1>1, <1>2, <1>3, <1>4, <1>5, <1>6, <1>7, <1>8, <1>9, <1>10 DEF Next, Handle

LEMMA StaysTraceable ==
  ASSUME Types, [Next]_vars
  PROVE  Traceable \subseteq Traceable'
<1> SUFFICES ASSUME NEW w \in Traceable PROVE w \in Traceable'
  OBVIOUS
<1> w \in Write
  BY DEF Traceable
<1>1. CASE Settled(w.by, w.value)
  <2>1. Settled(w.by, w.value)'
    BY <1>1, StaysSettled
  <2> QED BY <2>1 DEF Traceable, Write
<1>2. ASSUME NEW c \in Clients, Claims(c, w.by, w.value) PROVE w \in Traceable'
  <2>1. Claims(c, w.by, w.value)' \/ Settled(w.by, w.value)'
    BY <1>2, ClaimStays
  <2> QED BY <2>1 DEF Traceable, Write
<1> QED BY <1>1, <1>2 DEF Traceable

\* The write of a request is traceable while the request is under way.
LEMMA NewTraceable ==
  ASSUME Types, NEW c \in Clients, req[c] \in PointCalls \cup PropertyCalls
  PROVE  Written(req[c]) \in Traceable
<1> DEFINE w == Written(req[c])
<1>0. w \in Write
  BY WritesOfCalls
<1>1. CASE req[c] \in PointCalls
  <2>1. Claims(c, w.by, w.value)
    BY <1>1 DEF Claims, At, Written, PointCalls
  <2> QED BY <1>0, <2>1 DEF Traceable
<1>2. CASE req[c] \in PropertyCalls
  <2>1. w.by = Null
    BY <1>2 DEF Written, PropertyCalls
  <2>2. Settled(w.by, w.value)
    BY <2>1 DEF Settled
  <2> QED BY <1>0, <2>2 DEF Traceable
<1> QED BY <1>1, <1>2

LEMMA AccountedInit == Init => Accounted
  BY DEF Init, Accounted

LEMMA AccountedStep == Types /\ Accounted /\ [Next]_vars => Accounted'
<1> SUFFICES ASSUME Types, Accounted, [Next]_vars PROVE Accounted'
  OBVIOUS
<1> USE DEF Types
<1>s. Traceable \subseteq Traceable'
  BY StaysTraceable
<1>o. slot \in [Hosts -> [Objects -> Traceable' \cup {Null}]] /\ \A l \in late : l[3] \in Traceable'
  <2>1. slot \in [Hosts -> [Objects -> Traceable \cup {Null}]] /\ \A l \in late : l[3] \in Traceable
    BY DEF Accounted
  <2>2. \A S, T : S \subseteq T /\ slot \in [Hosts -> [Objects -> S \cup {Null}]]
                   => slot \in [Hosts -> [Objects -> T \cup {Null}]]
    OBVIOUS
  <2> QED BY <1>s, <2>1, <2>2
<1>p. ASSUME NEW h, NEW o, NEW w \in Traceable, Performed(h, o, w), late' \subseteq late PROVE Accounted'
  <2> DEFINE S == Traceable'
  <2>1. w \in S /\ slot \in [Hosts -> [Objects -> S \cup {Null}]] /\ \A l \in late : l[3] \in S
    BY <1>o, <1>s
  <2>2. slot' \in [Hosts -> [Objects -> S \cup {Null}]]
    <3>1. slot' = [slot EXCEPT ![h][o] = IF w.value = Null THEN Null ELSE w]
      BY <1>p DEF Performed
    <3>2. (IF w.value = Null THEN Null ELSE w) \in S \cup {Null}
      BY <2>1
    <3> HIDE DEF S
    <3> QED BY <2>1, <3>1, <3>2
  <2>3. \A l \in late' : l[3] \in S
    BY <2>1, <1>p
  <2> QED BY <2>2, <2>3 DEF Accounted
<1>q. ASSUME UNCHANGED slot, \A l \in late' : l[3] \in Traceable' PROVE Accounted'
  BY <1>q, <1>o DEF Accounted
<1>1. ASSUME NEW c \in Clients, Answer(c) PROVE Accounted'
  <2>1. CASE req[c].op = "discover"
    <3>1. UNCHANGED <<slot, late>>
      BY <1>1, <2>1 DEF Answer
    <3> QED BY <3>1, <1>o, <1>q
  <2>2. CASE req[c].op # "discover"
    <3>1. req[c] \in PointCalls \cup PropertyCalls
      BY <1>1, <2>2, Kinds DEF Answer, Sending, At
    <3>2. Performed(Gateway(c), req[c].obj, Written(req[c])) /\ UNCHANGED late
      BY <1>1, <2>2 DEF Answer
    <3> QED BY <3>1, <3>2, NewTraceable, <1>p
  <2> QED BY <2>1, <2>2
<1>2. ASSUME NEW c \in Clients, Unanswered(c) PROVE Accounted'
  <2> DEFINE h == Gateway(c)
             w == Written(req[c])
  <2>1. CASE UNCHANGED <<slot, late>>
    BY <2>1, <1>o, <1>q
  <2>2. CASE Takes(h, req[c])
    <3>1. req[c] \in PointCalls \cup PropertyCalls
      BY <1>2, <2>2, Kinds DEF Unanswered, Takes, Sending, At
    <3>2. w \in Traceable
      BY <3>1, NewTraceable
    <3>3. CASE Performed(h, req[c].obj, w) /\ UNCHANGED late
      BY <3>2, <3>3, <1>p
    <3>4. CASE late' = late \cup {<<h, req[c].obj, w>>} /\ UNCHANGED slot
      <4>1. \A l \in late' : l \in late \/ l[3] = w
        BY <3>4
      <4>2. \A l \in late' : l[3] \in Traceable'
        BY <4>1, <3>2, <1>s, <1>o
      <4> QED BY <3>4, <4>2, <1>q
    <3> QED BY <1>2, <2>1, <3>3, <3>4 DEF Unanswered
  <2> QED BY <1>2, <2>1, <2>2 DEF Unanswered
<1>3. CASE PerformLate
  <2>1. PICK l \in late : Performed(l[1], l[2], l[3]) /\ late' = late \ {l}
    BY <1>3 DEF PerformLate
  <2>2. l[3] \in Traceable
    BY DEF Accounted
  <2> QED BY <2>1, <2>2, <1>p
<1>4. CASE UNCHANGED <<slot, late>>
  BY <1>4, <1>o, <1>q
<1> QED BY <1>1, <1>2, <1>3, <1>4
     DEF Next, Handle, vars, StartWritePoint, StartWriteProperty, StartDiscovery, StartDiscoveryJob, Refuse,
         Audit, AuditFails, Merge, StartReset, ResetGraph, Serialize, Save, SyncLoop, Restart,
         DeletePoint, PutConfig, ChangeNet, model, world

LEMMA AccountedTraced == Types /\ Accounted => Traced
<1> SUFFICES ASSUME Types, Accounted, NEW h \in Hosts, NEW o \in Objects, slot[h][o] # Null
             PROVE  LET w == slot[h][o]
                    IN  w.by \in {Null} \cup lost \cup (Points \ DOMAIN points) \/ Row(w.by, w.value) \/ Pending(w.by, w.value)
  BY DEF Traced
<1>1. slot[h][o] \in Traceable
  BY DEF Accounted
<1> QED BY <1>1 DEF Traceable, Settled, Claims, Pending

\* Every write through a point that exists, performed at once or late, and over
\* whichever address, has its row, will have it, or lost it to a fault.
THEOREM WritesTraced == Spec => []Traced
<1>1. Init => Types /\ Accounted
  BY TypesInit, AccountedInit
<1>2. Types /\ Accounted /\ [Next]_vars => (Types /\ Accounted)'
  BY TypesStep, AccountedStep
<1>3. Types /\ Accounted => Traced
  BY AccountedTraced
<1> QED BY <1>1, <1>2, <1>3, PTL DEF Spec

------------------------------------------------------------------------------
\* The first address of a list of parts: that of the first part there is one in.
LEMMA FirstOfTwo ==
  ASSUME NEW s \in Seq(Urls), NEW t \in Seq(Urls), Len(s \o t) > 0
  PROVE  Head(s \o t) = IF Len(s) > 0 THEN Head(s) ELSE Head(t)
<1>1. CASE Len(s) > 0
  BY <1>1
<1>2. CASE ~ (Len(s) > 0)
  <2>1. s = <<>> /\ s \o t = t
    BY <1>2
  <2> QED BY <1>2, <2>1
<1> QED BY <1>1, <1>2

\* Whatever an address stands for, the first way tried leads to its gateway.
LEMMA FirstWayLeadsThere ==
  ASSUME NEW u \in Urls
  PROVE  Behind[Head(Paths(u))] = Behind[u]
<1> DEFINE A == If(LanFirst(u), Lan)
           B == If(u = DockerHost, Caddy)
           C == If(~ LanFirst(u) /\ u # Lan, Lan)
           D == If(u = DockerHost /\ Route # Lan, Route)
           E == If(u \in {DockerHost, Caddy, Lan}, Exec)
           U == <<u>>
<1>1. \A cond, v : v \in Urls \cup {Null} =>
        If(cond, v) \in Seq(Urls) /\ (Len(If(cond, v)) > 0 => cond /\ v # Null /\ Head(If(cond, v)) = v)
  BY DEF If
<1>2. A \in Seq(Urls) /\ B \in Seq(Urls) /\ C \in Seq(Urls) /\ D \in Seq(Urls) /\ E \in Seq(Urls)
  <2>1. {Lan, Caddy, Route, Exec} \subseteq Urls \cup {Null}
    BY Addresses
  <2> QED BY <1>1, <2>1
<1>3. /\ Len(A) > 0 => LanFirst(u) /\ Lan # Null /\ Head(A) = Lan
      /\ Len(B) > 0 => u = DockerHost /\ Head(B) = Caddy
  BY <1>1, Addresses
<1>4. U \in Seq(Urls) /\ Len(U) = 1 /\ Head(U) = u
  OBVIOUS
<1>5. Paths(u) = ((((A \o B) \o U) \o C) \o D) \o E
  BY DEF Paths, Candidates
<1> HIDE DEF A, B, C, D, E, U
<1>6. \A s, t \in Seq(Urls) : s \o t \in Seq(Urls) /\ Len(s \o t) = Len(s) + Len(t) /\ Len(s) \in Nat
  OBVIOUS
<1> DEFINE AB == A \o B
           ABU == AB \o U
           ABUC == ABU \o C
           ABUCD == ABUC \o D
<1>7. AB \in Seq(Urls) /\ ABU \in Seq(Urls) /\ ABUC \in Seq(Urls) /\ ABUCD \in Seq(Urls)
  BY <1>2, <1>4, <1>6
<1>8. Len(ABU) > 0 /\ Len(ABUC) > 0 /\ Len(ABUCD) > 0 /\ Len(ABUCD \o E) > 0
  <2>1. Len(ABU) = Len(AB) + 1 /\ Len(AB) \in Nat
    <3>1. AB \in Seq(Urls)
      BY <1>7
    <3> HIDE DEF AB
    <3> QED BY <1>4, <1>6, <3>1
  <2>2. /\ Len(ABUC) = Len(ABU) + Len(C) /\ Len(ABUCD) = Len(ABUC) + Len(D)
        /\ Len(ABUCD \o E) = Len(ABUCD) + Len(E)
        /\ Len(C) \in Nat /\ Len(D) \in Nat /\ Len(E) \in Nat
    BY <1>2, <1>6, <1>7
  <2> HIDE DEF ABU, ABUC, ABUCD
  <2> QED BY <2>1, <2>2
<1>9. Head(Paths(u)) = Head(ABU)
  <2> HIDE DEF ABU
  <2>1. Head(ABUC) = Head(ABU)
    BY <1>2, <1>7, <1>8, FirstOfTwo
  <2> HIDE DEF ABUC
  <2>2. Head(ABUCD) = Head(ABUC)
    BY <1>2, <1>7, <1>8, FirstOfTwo
  <2> HIDE DEF ABUCD
  <2>3. Head(ABUCD \o E) = Head(ABUCD)
    BY <1>2, <1>7, <1>8, FirstOfTwo
  <2> USE DEF ABUCD, ABUC, ABU
  <2> QED BY <1>5, <2>1, <2>2, <2>3
<1>10. Head(ABU) = IF Len(A) > 0 THEN Head(A) ELSE IF Len(B) > 0 THEN Head(B) ELSE u
  <2>1. Head(ABU) = IF Len(AB) > 0 THEN Head(AB) ELSE u
    <3> HIDE DEF AB
    <3> QED BY <1>4, <1>7, <1>8, FirstOfTwo
  <2>2. Len(AB) = Len(A) + Len(B) /\ Len(A) \in Nat /\ Len(B) \in Nat
    BY <1>2, <1>6
  <2>3. Len(AB) > 0 => Head(AB) = IF Len(A) > 0 THEN Head(A) ELSE Head(B)
    BY <1>2, FirstOfTwo
  <2> HIDE DEF AB, ABU
  <2> QED BY <2>1, <2>2, <2>3
<1>11. LanFirst(u) => u \in {DockerHost, Caddy}
  BY DEF LanFirst
<1> HIDE DEF ABU
<1>12. Behind[DockerHost] = Home /\ Behind[Caddy] = Home /\ (Lan # Null => Behind[Lan] = Home)
  BY ThisHost, Addresses, NullIsNoData DEF Home
<1> QED BY <1>3, <1>9, <1>10, <1>11, <1>12

\* Addresses of the gateway of an address, or of this host's.
Near(u) == {v \in Urls : Behind[v] \in {Behind[u], Home}}

\* Whatever an address stands for, every way tried is to its gateway or this host's.
LEMMA WaysAreNear == \A u \in Urls : Paths(u) \in Seq(Near(u))
<1> TAKE u \in Urls
<1> DEFINE N == Near(u)
<1>1. \A cond, v : v \in N \cup {Null} => If(cond, v) \in Seq(N)
  BY DEF If
<1>2. u \in N /\ {Lan, Caddy, Route, Exec} \subseteq N \cup {Null}
  BY Addresses, ThisHost DEF Near
<1> HIDE DEF N
<1>3. If(LanFirst(u), Lan) \in Seq(N)
  BY <1>1, <1>2
<1>4. If(u = DockerHost, Caddy) \in Seq(N)
  BY <1>1, <1>2
<1>5. If(~ LanFirst(u) /\ u # Lan, Lan) \in Seq(N)
  BY <1>1, <1>2
<1>6. If(u = DockerHost /\ Route # Lan, Route) \in Seq(N)
  BY <1>1, <1>2
<1>7. If(u \in {DockerHost, Caddy, Lan}, Exec) \in Seq(N)
  BY <1>1, <1>2
<1>8. <<u>> \in Seq(N)
  BY <1>2
<1>9. \A s, t \in Seq(N) : s \o t \in Seq(N)
  OBVIOUS
<1>10. Paths(u) \in Seq(N)
  BY <1>3, <1>4, <1>5, <1>6, <1>7, <1>8, <1>9 DEF Paths, Candidates
<1> QED BY <1>10 DEF N

\* Where a write may be performed; and that every call not yet answered, and every
\* write a gateway took without an answer, is on its way there and nowhere else.
Allowed(h, w) == h = Behind[w.url] \/ (w.onward /\ h = Home)
OnItsWay(r) ==
  r.at = "send" =>
    /\ r.left \in Seq(Near(r.url))
    /\ ~ r.onward => Behind[Head(r.left)] = Behind[r.url]
OnTheirWay ==
  /\ \A c \in Clients : OnItsWay(req[c])
  /\ \A l \in late : Allowed(l[1], l[3])
  /\ StaysAtGateway

LEMMA OnTheirWayInit == Init => OnTheirWay
  BY DEF Init, OnTheirWay, OnItsWay, Idle, StaysAtGateway

\* A new request starts at an address of its gateway.
LEMMA NewOnItsWay ==
  /\ \A op, p, o, v : \A u \in Urls : OnItsWay(ToSend(op, p, o, v, u))
  /\ \A body : \A u \in Urls : OnItsWay(ToDiscover(body, u))
  /\ \A p, v, ok : OnItsWay(ToAudit(p, v, ok))
  /\ \A r, s, h : OnItsWay(ToMerge(r, s, h))
  /\ OnItsWay(Idle) /\ OnItsWay([at |-> "save"]) /\ OnItsWay([at |-> "reset"])
  /\ OnItsWay([at |-> "write", text |-> graph])
  BY FirstWayLeadsThere, WaysAreNear DEF OnItsWay, ToSend, ToDiscover, ToAudit, ToMerge, Idle

LEMMA AnsweredOnItsWay == \A r : \A ok \in BOOLEAN : OnItsWay(Answered(r, ok))
  BY NewOnItsWay DEF Answered

\* The gateway a call has reached is one its write may be performed at.
LEMMA ReachesAllowed ==
  ASSUME Types, OnTheirWay, NEW c \in Clients, Sending(c), req[c].op # "discover"
  PROVE  Allowed(Gateway(c), Written(req[c]))
<1>1. req[c] \in PointCalls \cup PropertyCalls
  BY Kinds DEF Types, Sending, At
<1>2. req[c].left \in Ways /\ req[c].onward \in BOOLEAN /\ OnItsWay(req[c]) /\ req[c].at = "send"
  BY <1>1 DEF PointCalls, PropertyCalls, OnTheirWay, Sending, At
<1>3. Head(req[c].left) \in Near(req[c].url)
  BY <1>2 DEF OnItsWay, Ways
<1>4. Written(req[c]).url = req[c].url /\ Written(req[c]).onward = req[c].onward
  BY DEF Written
<1> QED BY <1>2, <1>3, <1>4 DEF Allowed, Near, OnItsWay, Gateway

\* A step in which at most one client moves and no write is performed.
LEMMA QuietlyOnTheirWay ==
  ASSUME OnTheirWay, UNCHANGED <<slot, late>>, \A c \in Clients : OnItsWay(req[c]) => OnItsWay(req'[c])
  PROVE  OnTheirWay'
<1>1. \A c \in Clients : OnItsWay(req[c])'
  BY DEF OnTheirWay, OnItsWay, Near
<1> QED BY <1>1 DEF OnTheirWay, StaysAtGateway, Allowed

\* A step that performs a write where it may be.
LEMMA PerformedOnTheirWay ==
  ASSUME Types, OnTheirWay, NEW h, NEW o, NEW w, Performed(h, o, w), Allowed(h, w), late' \subseteq late,
         \A c \in Clients : OnItsWay(req[c]) => OnItsWay(req'[c])
  PROVE  OnTheirWay'
<1>1. \A c \in Clients : OnItsWay(req[c])'
  BY DEF OnTheirWay, OnItsWay, Near
<1>2. StaysAtGateway'
  <2> SUFFICES ASSUME NEW g \in Hosts, NEW x \in Objects, slot'[g][x] # Null
               PROVE  Allowed(g, slot'[g][x])
    BY DEF StaysAtGateway, Allowed
  <2>1. slot \in [Hosts -> [Objects -> Write \cup {Null}]]
    BY DEF Types, TypeOK
  <2>2. slot'[g][x] = slot[g][x] \/ (g = h /\ slot'[g][x] = w)
    BY <2>1 DEF Performed
  <2> QED BY <2>2 DEF OnTheirWay, StaysAtGateway, Allowed
<1>3. \A l \in late' : Allowed(l[1], l[3])'
  BY DEF OnTheirWay, Allowed
<1> QED BY <1>1, <1>2, <1>3 DEF OnTheirWay

LEMMA OnTheirWayStep == Types /\ OnTheirWay /\ [Next]_vars => OnTheirWay'
<1> SUFFICES ASSUME Types, OnTheirWay, [Next]_vars PROVE OnTheirWay'
  OBVIOUS
<1> USE DEF Types
<1>b. ASSUME NEW c \in Clients, NEW r, Becomes(c, r), OnItsWay(r)
      PROVE  \A d \in Clients : OnItsWay(req[d]) => OnItsWay(req'[d])
  BY <1>b, OnlyOne
<1>1. ASSUME NEW c \in Clients, StartWritePoint(c) \/ StartWriteProperty(c) \/ StartDiscovery(c) \/ StartDiscoveryJob(c)
      PROVE  OnTheirWay'
  <2>1. UNCHANGED <<slot, late>>
    BY <1>1 DEF StartWritePoint, StartWriteProperty, StartDiscovery, StartDiscoveryJob
  <2>2. \A id \in Ids : UrlOf(id) # Null => UrlOf(id) \in Urls
    BY UrlsKnown
  <2>3. PICK r : Becomes(c, r) /\ OnItsWay(r)
    <3>1. CASE StartWritePoint(c)
      <4>1. PICK p \in Points, v \in Values, id \in Ids :
              Becomes(c, IF p \notin DOMAIN points THEN Idle
                         ELSE IF points[p] = Null \/ UrlOf(id) = Null THEN ToAudit(p, v, FALSE)
                         ELSE ToSend("point", p, points[p], v, UrlOf(id)))
        BY <3>1 DEF StartWritePoint
      <4> QED BY <4>1, <2>2, NewOnItsWay
    <3>2. CASE StartWriteProperty(c)
      <4>1. PICK o \in Objects, v \in PropertyValues, id \in Ids :
              Becomes(c, IF UrlOf(id) = Null THEN Idle ELSE ToSend("property", Null, o, v, UrlOf(id)))
        BY <3>2 DEF StartWriteProperty
      <4> QED BY <4>1, <2>2, NewOnItsWay
    <3>3. CASE StartDiscovery(c)
      <4>1. PICK body \in DiscoveryBody, id \in Ids :
              Becomes(c, IF UrlOf(id) = Null THEN Idle ELSE ToDiscover(body, UrlOf(id)))
        BY <3>3 DEF StartDiscovery
      <4> QED BY <4>1, <2>2, NewOnItsWay
    <3>4. CASE StartDiscoveryJob(c)
      <4>1. PICK d \in Devices, id \in Ids : Becomes(c, ToDiscover([dev |-> d, writes |-> TRUE], JobUrl(id)))
        BY <3>4 DEF StartDiscoveryJob
      <4>2. JobUrl(id) \in Urls
        BY <2>2, Addresses DEF JobUrl
      <4> QED BY <4>1, <4>2, NewOnItsWay
    <3> QED BY <1>1, <3>1, <3>2, <3>3, <3>4
  <2> QED BY <2>1, <2>3, <1>b, QuietlyOnTheirWay
<1>2. ASSUME NEW c \in Clients, Answer(c) PROVE OnTheirWay'
  <2> DEFINE r == req[c]
             h == Gateway(c)
  <2>1. CASE r.op = "discover"
    <3>1. UNCHANGED <<slot, late>>
      BY <1>2, <2>1 DEF Answer
    <3>2. \E n : Becomes(c, n) /\ OnItsWay(n)
      BY <1>2, <2>1, NewOnItsWay DEF Answer
    <3> QED BY <3>1, <3>2, <1>b, QuietlyOnTheirWay
  <2>2. CASE r.op # "discover"
    <3>1. /\ Performed(h, r.obj, Written(r)) /\ Becomes(c, Answered(r, TRUE))
          /\ UNCHANGED late /\ Sending(c)
      BY <1>2, <2>2 DEF Answer
    <3>2. \A d \in Clients : OnItsWay(req[d]) => OnItsWay(req'[d])
      BY <3>1, <1>b, AnsweredOnItsWay
    <3>3. Allowed(h, Written(r))
      BY <2>2, <3>1, ReachesAllowed
    <3> QED BY <3>1, <3>2, <3>3, PerformedOnTheirWay
  <2> QED BY <2>1, <2>2
<1>3. ASSUME NEW c \in Clients, Refuse(c) PROVE OnTheirWay'
  <2>1. \E n : Becomes(c, n) /\ OnItsWay(n)
    BY <1>3, NewOnItsWay, AnsweredOnItsWay DEF Refuse
  <2> QED BY <1>3, <2>1, <1>b, QuietlyOnTheirWay DEF Refuse
<1>4. ASSUME NEW c \in Clients,
             Audit(c) \/ AuditFails(c) \/ Merge(c) \/ StartReset(c) \/ ResetGraph(c) \/ Serialize(c) \/ Save(c)
      PROVE  OnTheirWay'
  <2>1. UNCHANGED <<slot, late>>
    BY <1>4 DEF Audit, AuditFails, Merge, StartReset, ResetGraph, Serialize, Save
  <2>2. \E n : Becomes(c, n) /\ OnItsWay(n)
    BY <1>4, NewOnItsWay DEF Audit, AuditFails, Merge, StartReset, ResetGraph, Serialize, Save
  <2> QED BY <2>1, <2>2, <1>b, QuietlyOnTheirWay
<1>5. ASSUME NEW c \in Clients, Unanswered(c) PROVE OnTheirWay'
  <2> DEFINE r == req[c]
             h == Gateway(c)
             n == IF Len(r.left) > 1 THEN [r EXCEPT !.left = Tail(@), !.onward = TRUE] ELSE Answered(r, FALSE)
  <2>1. Becomes(c, n) /\ Sending(c)
    BY <1>5 DEF Unanswered
  <2>2. OnItsWay(n)
    <3>1. CASE Len(r.left) > 1
      <4>1. r \in Calls /\ OnItsWay(r) /\ r.at = "send"
        BY <2>1, Kinds DEF Sending, At, OnTheirWay
      <4>2. Tail(r.left) \in Seq(Near(r.url))
        <5>1. \A S : \A s \in Seq(S) : Len(s) > 1 => Tail(s) \in Seq(S)
          OBVIOUS
        <5>2. r.left \in Seq(Near(r.url))
          BY <4>1 DEF OnItsWay
        <5> QED BY <3>1, <5>1, <5>2
      <4>3. n.left = Tail(r.left) /\ n.onward = TRUE /\ n.url = r.url
        BY <3>1, <4>1 DEF Calls, PointCalls, PropertyCalls, DiscoverCalls
      <4> HIDE DEF n
      <4> QED BY <4>2, <4>3 DEF OnItsWay
    <3>2. CASE ~ Len(r.left) > 1
      BY <3>2, AnsweredOnItsWay
    <3> QED BY <3>1, <3>2
  <2>3. \A d \in Clients : OnItsWay(req[d]) => OnItsWay(req'[d])
    <3> HIDE DEF n
    <3> QED BY <2>1, <2>2, <1>b
  <2>4. CASE UNCHANGED <<slot, late>>
    BY <2>3, <2>4, QuietlyOnTheirWay
  <2>5. CASE Takes(h, r)
    <3>1. Allowed(h, Written(r))
      BY <2>1, <2>5, ReachesAllowed DEF Takes
    <3>2. CASE Performed(h, r.obj, Written(r)) /\ UNCHANGED late
      BY <2>3, <3>1, <3>2, PerformedOnTheirWay
    <3>3. CASE late' = late \cup {<<h, r.obj, Written(r)>>} /\ UNCHANGED slot
      <4>1. \A l \in late' : Allowed(l[1], l[3])'
        BY <3>1, <3>3 DEF OnTheirWay, Allowed
      <4>2. \A d \in Clients : OnItsWay(req[d])'
        BY <2>3 DEF OnTheirWay, OnItsWay, Near
      <4> QED BY <3>3, <4>1, <4>2 DEF OnTheirWay, StaysAtGateway
    <3> QED BY <1>5, <2>4, <3>2, <3>3 DEF Unanswered
  <2> QED BY <1>5, <2>4, <2>5 DEF Unanswered
<1>6. CASE PerformLate
  <2>1. PICK l \in late : Performed(l[1], l[2], l[3]) /\ late' = late \ {l} /\ UNCHANGED req
    BY <1>6 DEF PerformLate
  <2>2. Allowed(l[1], l[3])
    BY DEF OnTheirWay
  <2> QED BY <2>1, <2>2, PerformedOnTheirWay
<1>7. CASE SyncLoop \/ DeletePoint \/ PutConfig \/ UNCHANGED vars
  <2>1. UNCHANGED <<slot, late, req>>
    BY <1>7 DEF SyncLoop, DeletePoint, PutConfig, vars
  <2> QED BY <2>1, QuietlyOnTheirWay
<1>8. CASE Restart
  <2>1. UNCHANGED <<slot, late>> /\ \A c \in Clients : req'[c] = Idle
    BY <1>8 DEF Restart
  <2> QED BY <2>1, NewOnItsWay, QuietlyOnTheirWay
<1>9. CASE ChangeNet
  <2>1. UNCHANGED <<slot, late>>
    BY <1>9 DEF ChangeNet
  <2>2. \A c \in Clients : OnItsWay(req[c]) => OnItsWay(req'[c])
    <3> TAKE c \in Clients
    <3>1. req'[c] = IF "current" \in DOMAIN req[c] THEN [req[c] EXCEPT !.current = FALSE]
                    ELSE IF "agrees" \in DOMAIN req[c] THEN [req[c] EXCEPT !.agrees = Null] ELSE req[c]
      BY <1>9 DEF ChangeNet
    <3>2. req[c] \in Requests
      OBVIOUS
    <3>3. CASE req[c] \in DiscoverCalls
      BY <3>1, <3>3 DEF DiscoverCalls, OnItsWay
    <3>4. CASE req[c] \in Merging
      BY <3>1, <3>4 DEF Merging, OnItsWay
    <3>5. CASE req[c] \in PointCalls \cup PropertyCalls \cup Audits \cup Idles \cup Saving
      BY <3>1, <3>5 DEF PointCalls, PropertyCalls, Audits, Idles, Saving
    <3> QED BY <3>2, <3>3, <3>4, <3>5 DEF Requests, Calls
  <2> QED BY <2>1, <2>2, QuietlyOnTheirWay
<1> QED BY <1>1, <1>2, <1>3, <1>4, <1>5, <1>6, <1>7, <1>8, <1>9 DEF Next, Handle

\* A write is performed at the gateway it was addressed to, over whichever of its
\* addresses, or at this host's when an address before did not answer, whatever
\* fails and however late (_post_rpc, bacnet_rpc_base_candidates): for any
\* addresses, provided that those of this host lead to its gateway.
THEOREM WritesStay == Spec => []StaysAtGateway
<1>1. Init => Types /\ OnTheirWay
  BY TypesInit, OnTheirWayInit
<1>2. Types /\ OnTheirWay /\ [Next]_vars => (Types /\ OnTheirWay)'
  BY TypesStep, OnTheirWayStep
<1>3. OnTheirWay => StaysAtGateway
  BY DEF OnTheirWay
<1> QED BY <1>1, <1>2, <1>3, PTL DEF Spec

------------------------------------------------------------------------------
\* What a discovery is about to put into the graph is what the network it is
\* said to agree with has.
Agrees(r) == r.at = "merge" /\ r.agrees # Null => r.objects = ObjectsAt(r.agrees, r.dev)
Found == \A c \in Clients : Agrees(req[c])

\* A step over the same networks.
LEMMA FoundOver ==
  ASSUME Found, net' = net, NEW c \in Clients,
         Agrees(req'[c]) \/ req'[c] = req[c]
  PROVE  Agrees(req[c])'
  BY DEF Found, Agrees, ObjectsAt

LEMMA FoundStep ==
  ASSUME Types, Found, [Next]_vars
  PROVE  Found'
<1> USE DEF Types
<1> SUFFICES ASSUME NEW d \in Clients PROVE Agrees(req[d])'
  BY DEF Found
<1>b. ASSUME net' = net, NEW c \in Clients, NEW r, Becomes(c, r), r.at # "merge"
      PROVE  Agrees(req[d])'
  <2>1. req'[d] = req[d] \/ req'[d].at # "merge"
    BY <1>b, OnlyOne
  <2>2. req'[d] = req[d] \/ Agrees(req'[d])
    BY <2>1 DEF Agrees
  <2> QED BY <1>b, <2>2, FoundOver
<1>i. /\ Idle.at # "merge"
      /\ \A op, p, o, v, u : ToSend(op, p, o, v, u).at # "merge"
      /\ \A body, u : ToDiscover(body, u).at # "merge"
      /\ \A p, v, ok : ToAudit(p, v, ok).at # "merge"
      /\ \A r, ok : Answered(r, ok).at # "merge"
  BY DEF Idle, ToSend, ToDiscover, ToAudit, Answered
<1>1. ASSUME NEW c \in Clients, StartWritePoint(c) PROVE Agrees(req[d])'
  <2>1. net' = net /\ \E r : Becomes(c, r) /\ r.at # "merge"
    BY <1>1, <1>i DEF StartWritePoint, world
  <2> QED BY <2>1, <1>b
<1>2. ASSUME NEW c \in Clients, StartWriteProperty(c) PROVE Agrees(req[d])'
  <2>1. net' = net /\ \E r : Becomes(c, r) /\ r.at # "merge"
    BY <1>2, <1>i DEF StartWriteProperty, world
  <2> QED BY <2>1, <1>b
<1>3. ASSUME NEW c \in Clients, StartDiscovery(c) \/ StartDiscoveryJob(c) \/ StartReset(c) PROVE Agrees(req[d])'
  <2>1. net' = net /\ \E r : Becomes(c, r) /\ r.at # "merge"
    <3>1. CASE StartDiscovery(c) \/ StartDiscoveryJob(c)
      BY <3>1, <1>i DEF StartDiscovery, StartDiscoveryJob, world
    <3>2. CASE StartReset(c)
      BY <3>2 DEF StartReset, world
    <3> QED BY <1>3, <3>1, <3>2
  <2> QED BY <2>1, <1>b
<1>4. ASSUME NEW c \in Clients, Answer(c) PROVE Agrees(req[d])'
  <2> DEFINE r == req[c]
             h == Gateway(c)
  <2>0. net' = net
    BY <1>4 DEF Answer, world
  <2>1. CASE r.op # "discover"
    BY <2>0, <2>1, <1>4, <1>i, <1>b DEF Answer
  <2>2. CASE r.op = "discover"
    <3> DEFINE n == ToMerge(r, ObjectsAt(h, r.dev), IF h = Behind[r.url] /\ r.current THEN h ELSE Null)
    <3>1. Becomes(c, n)
      BY <1>4, <2>2 DEF Answer
    <3>2. Agrees(n)
      BY DEF Agrees, ToMerge
    <3> HIDE DEF n
    <3>3. req'[d] = req[d] \/ Agrees(req'[d])
      BY <3>1, <3>2, OnlyOne
    <3> QED BY <2>0, <3>3, FoundOver
  <2> QED BY <2>1, <2>2
<1>5. ASSUME NEW c \in Clients, Refuse(c) PROVE Agrees(req[d])'
  <2> DEFINE n == IF req[c].op = "discover" THEN ToMerge(req[c], {}, Null) ELSE Answered(req[c], TRUE)
  <2>1. net' = net /\ Becomes(c, n)
    BY <1>5 DEF Refuse, world
  <2>2. Agrees(n)
    BY <1>i DEF Agrees, ToMerge
  <2> HIDE DEF n
  <2>3. req'[d] = req[d] \/ Agrees(req'[d])
    BY <2>1, <2>2, OnlyOne
  <2> QED BY <2>1, <2>3, FoundOver
<1>6. ASSUME NEW c \in Clients, Unanswered(c) PROVE Agrees(req[d])'
  <2> DEFINE n == IF Len(req[c].left) > 1 THEN [req[c] EXCEPT !.left = Tail(@), !.onward = TRUE] ELSE Answered(req[c], FALSE)
  <2>1. net' = net /\ Becomes(c, n) /\ req[c].at = "send"
    BY <1>6 DEF Unanswered, Sending, At, world
  <2>2. req[c] \in Calls
    BY <2>1, Kinds
  <2>3. n.at # "merge"
    BY <2>2, <1>i DEF Calls, PointCalls, PropertyCalls, DiscoverCalls
  <2> HIDE DEF n
  <2> QED BY <2>1, <2>3, <1>b
<1>7. ASSUME NEW c \in Clients, Audit(c) \/ AuditFails(c) \/ Merge(c) \/ ResetGraph(c) \/ Serialize(c) \/ Save(c)
      PROVE  Agrees(req[d])'
  <2>1. net' = net /\ \E r : Becomes(c, r) /\ r.at # "merge"
    BY <1>7, <1>i DEF Audit, AuditFails, Merge, ResetGraph, Serialize, Save, world
  <2> QED BY <2>1, <1>b
<1>8. CASE Restart
  BY <1>8, <1>i DEF Restart, Agrees
<1>9. CASE SyncLoop \/ PerformLate \/ DeletePoint \/ PutConfig \/ UNCHANGED vars
  <2>1. net' = net /\ req' = req
    BY <1>9 DEF SyncLoop, PerformLate, DeletePoint, PutConfig, vars, world
  <2> QED BY <2>1, FoundOver
<1>10. CASE ChangeNet
  <2>1. req'[d] = IF "current" \in DOMAIN req[d] THEN [req[d] EXCEPT !.current = FALSE]
                  ELSE IF "agrees" \in DOMAIN req[d] THEN [req[d] EXCEPT !.agrees = Null] ELSE req[d]
    BY <1>10 DEF ChangeNet
  <2>2. CASE req[d] \in Merging
    BY <2>1, <2>2 DEF Merging, Agrees
  <2>3. CASE req[d] \in DiscoverCalls
    BY <2>1, <2>3 DEF DiscoverCalls, Agrees
  <2>4. CASE req[d] \in PointCalls \cup PropertyCalls \cup Audits \cup Idles \cup Saving
    BY <2>1, <2>4 DEF PointCalls, PropertyCalls, Audits, Idles, Saving, Agrees
  <2>5. req[d] \in Requests
    OBVIOUS
  <2> QED BY <2>2, <2>3, <2>4, <2>5 DEF Requests, Calls
<1> QED BY <1>1, <1>2, <1>3, <1>4, <1>5, <1>6, <1>7, <1>8, <1>9, <1>10 DEF Next, Handle

\* Merging a device takes its own former objects away, and those of every
\* device whose number begins with its number.
LEMMA OwnNumberIsPrefix == \A d \in Devices : IsPrefix(d, d)
  BY DeviceNumbers DEF IsPrefix

LEMMA MergeShows ==
  ASSUME Types, Found, DiscoveryShown, NEW c \in Clients, Merge(c)
  PROVE  DiscoveryShown'
<1> DEFINE d == req[c].dev
<1>1. req[c] \in Merging /\ d \in Devices /\ net' = net
  BY Kinds DEF Types, Merge, At, Merging
<1>2. graph \in Graphs /\ Removed(d)[d] = Null
  BY <1>1, OwnNumberIsPrefix DEF Types, TypeOK, Removed
<1>3. ASSUME NEW e \in Devices, e # d, shown'[e] # Null
      PROVE  shown'[e] = shown[e] /\ graph'[e] = graph[e]
  <2>1. ~ IsPrefix(d, e) /\ shown'[e] = shown[e]
    BY <1>3 DEF Merge, Agreeing
  <2>2. Removed(d)[e] = graph[e]
    BY <2>1 DEF Removed
  <2>3. graph' = Merged(d, req[c].objects) \/ graph' = Removed(d)
    BY DEF Merge
  <2>4. Merged(d, req[c].objects)[e] = Removed(d)[e]
    BY <1>1, <1>3 DEF Merged, Removed
  <2> HIDE DEF d
  <2> QED BY <2>1, <2>2, <2>3, <2>4
<1>4. ASSUME shown'[d] # Null
      PROVE  shown'[d] = req[c].agrees /\ graph'[d] = req[c].objects
  <2>1. graph' = Merged(d, req[c].objects) /\ shown' = Agreeing(d, req[c].agrees)
    BY <1>1, <1>4 DEF Merge, Agreeing
  <2>2. Merged(d, req[c].objects)[d] = Known(Removed(d)[d]) \cup req[c].objects
    BY <1>1 DEF Merged, Removed
  <2>3. shown'[d] = req[c].agrees
    BY <1>1, <2>1 DEF Agreeing
  <2> QED BY <1>2, <2>1, <2>2, <2>3 DEF Known
<1>5. req[c].agrees # Null => req[c].objects = ObjectsAt(req[c].agrees, d)
  BY DEF Found, Agrees, Merge, At
<1> SUFFICES ASSUME NEW e \in Devices, shown'[e] \in Hosts \cup {Gone}
             PROVE  /\ shown'[e] \in Hosts => graph'[e] = ObjectsAt(shown[e], e)'
                    /\ shown'[e] = Gone => graph'[e] = Null
  BY DEF DiscoveryShown
<1>n. shown'[e] # Null
  BY NullIsNoData, GoneIsNoHost
<1>6. CASE e = d
  <2>1. shown'[d] # Gone
    BY <1>1, <1>4, <1>6, <1>n, GoneIsNoHost DEF Merging
  <2> QED BY <1>1, <1>4, <1>5, <1>6, <1>n, <2>1 DEF ObjectsAt
<1>7. CASE e # d
  BY <1>1, <1>3, <1>7, <1>n DEF DiscoveryShown, ObjectsAt
<1> QED BY <1>6, <1>7

\* A device discovered since its network last changed is in the graph as it is,
\* whichever other discoveries, saves, resets and kills come between
\* (update_bacnet_from_point_discovery, load_from_file), and none is after a reset
\* (reset_graph_to_db_only).  "shown" forgets a device whose number a merged one
\* begins, and one an older or a torn file has otherwise.
THEOREM DiscoveriesShow == Spec => []DiscoveryShown
<1>1. Init => Found /\ DiscoveryShown
  BY NullIsNoData, GoneIsNoHost DEF Init, Found, Agrees, Idle, DiscoveryShown
<1>2. Types /\ Found /\ DiscoveryShown /\ [Next]_vars => DiscoveryShown'
  <2> SUFFICES ASSUME Types, Found, DiscoveryShown, [Next]_vars PROVE DiscoveryShown'
    OBVIOUS
  <2>1. CASE Restart
    BY <2>1, NullIsNoData, GoneIsNoHost DEF Restart, DiscoveryShown, ObjectsAt
  <2>2. CASE ChangeNet
    BY <2>2, NullIsNoData, GoneIsNoHost DEF ChangeNet, DiscoveryShown, model
  <2>3. CASE UNCHANGED <<graph, shown, net>>
    BY <2>3 DEF DiscoveryShown, ObjectsAt
  <2>4. ASSUME NEW c \in Clients, ResetGraph(c) PROVE DiscoveryShown'
    BY <2>4, GoneIsNoHost DEF ResetGraph, Cleared, DiscoveryShown
  <2> QED BY <2>1, <2>2, <2>3, <2>4, MergeShows
       DEF Next, Handle, vars, StartWritePoint, StartWriteProperty, StartDiscovery, StartDiscoveryJob, Answer, Refuse,
           Unanswered, Audit, AuditFails, StartReset, Serialize, Save, SyncLoop, PerformLate, DeletePoint, PutConfig,
           model, world
<1>3. Types /\ Found /\ [Next]_vars => Found'
  BY FoundStep
<1> QED BY <1>1, <1>2, <1>3, TypesAlways, PTL DEF Spec
===============================================================================
