---------------------------- MODULE BacnetGateway ----------------------------
(***************************************************************************)
(* What the API asks of BACnet gateways: api/bacnet.py.  Three requests    *)
(* change something.  POST /bacnet/write_point writes the address of a     *)
(* point and leaves a row in bacnet_write_audit; /bacnet/write_property    *)
(* writes any object, without a row; /bacnet/point_discovery_to_graph asks *)
(* what a device has and puts it into the graph in memory and the file, as *)
(* the thread of a job of jobs.py does.                                    *)
(* All of them go through _post_rpc, which tries one address after another *)
(* until one answers.  Beside them POST /data-model/reset clears the graph,*)
(* and timers and the periodic thread write the file.                      *)
(***************************************************************************)
EXTENDS Integers, Sequences, SequencesExt, FiniteSets

CONSTANTS
  Null, Gone,
  Clients,      \* requests of the API, and threads of jobs
  Points, Devices, Names, \* device numbers are sequences of digits
  Values,
  Hosts,        \* gateways, each with a network of devices
  Urls, Behind, \* addresses, and the gateway each leads to
  Default,      \* OFDD_BACNET_SERVER_URL
  DockerHost, Caddy, \* host.docker.internal and Caddy's address
  Lan,          \* the address made of OFDD_BACNET_ADDRESS, or Null
  Route,        \* host.docker.internal through the default route, or Null
  Exec,         \* docker exec in the gateway's container, or Null if not enabled
  Points0, Gateways0, GatewayLists, Nets, \* at the start; settings; networks
  MaxRequests, MaxFaults, MaxChanges \* bounds

Objects == Devices \X Names
ASSUME NullIsNoData == Null \notin Points \cup Values \cup Urls \cup Hosts \cup Objects
ASSUME GoneIsNoHost == Gone \notin Hosts \cup {Null}
ASSUME Addresses ==
  /\ {Default, DockerHost, Caddy} \subseteq Urls
  /\ {Lan, Route, Exec} \subseteq Urls \cup {Null}
  /\ Behind \in [Urls -> Hosts]
\* Caddy, the LAN address, the default route of a container and a command in the
\* gateway's container are other ways to the gateway of this host.
Home == Behind[DockerHost]
ASSUME ThisHost == \A u \in {Caddy, Lan, Route, Exec} \ {Null} : Behind[u] = Home
ASSUME DeviceNumbers == Devices \subseteq Seq(0 .. 9)
ASSUME Surroundings ==
  /\ DOMAIN Points0 \subseteq Points /\ Points0 \in [DOMAIN Points0 -> Objects \cup {Null}]
  /\ Gateways0 \in Seq(Urls) /\ GatewayLists \subseteq Seq(Urls)
  /\ Nets \subseteq [Hosts -> SUBSET Objects]

VARIABLES
  points,    \* the database: the address of each point, Null without one
  audit,     \* rows of bacnet_write_audit
  gateways,  \* bacnet_gateways: urls; the id of one is its place
  graph,     \* the graph in memory: objects by device, Null when unknown
  file,      \* the graph as data_model.ttl has it
  text,      \* the graph as a timer or the periodic thread is to write it, or Null
  net,       \* the objects every gateway can reach
  slot,      \* what a device holds at priority 8, and who wrote it
  late,      \* writes a gateway took but has not performed yet
  req,       \* the request each client waits for
  lost,      \* history: points with a write whose row a fault prevented
  shown,     \* history: by device, the gateway the graph should agree with, or Gone
  requests, faults, changes

vars == <<points, audit, gateways, graph, file, text, net, slot, late, req, lost, shown, requests, faults, changes>>

Idle == [at |-> "idle"]
Init ==
  /\ points = Points0 /\ gateways = Gateways0
  /\ net \in Nets
  /\ audit = {} /\ late = {} /\ lost = {}
  /\ graph = [d \in Devices |-> Null] /\ file = graph /\ text = Null /\ shown = graph
  /\ slot = [h \in Hosts |-> [o \in Objects |-> Null]]
  /\ req = [c \in Clients |-> Idle]
  /\ requests = 0 /\ faults = 0 /\ changes = 0

Fault == faults < MaxFaults /\ faults' = faults + 1
Becomes(c, r) == req' = [req EXCEPT ![c] = r]
Free(c) == req[c] = Idle /\ requests < MaxRequests /\ requests' = requests + 1
world == <<gateways, net, shown, changes>>
model == <<graph, file, text>>

------------------------------------------------------------------------------
\* _get_gateways_list: "default", then the entries of bacnet_gateways by place.
UrlOf(id) == IF id = 0 THEN Default ELSE IF id \in DOMAIN gateways THEN gateways[id] ELSE Null
Ids == 0 .. Cardinality(Urls)

If(cond, u) == IF cond /\ u # Null THEN <<u>> ELSE <<>>
\* bacnet_rpc_base_candidates: for an address of this host, the one of the LAN
\* first; for any other, that of the LAN after it.
LanAlways(u) == u # Lan                                  \* mutant: first for all
LanFirst(u) == u \in {DockerHost, Caddy}
Candidates(u) ==
  If(LanFirst(u), Lan)
    \o If(u = DockerHost, Caddy)
    \o <<u>>
    \o If(~ LanFirst(u) /\ u # Lan, Lan)
    \o If(u = DockerHost /\ Route # Lan, Route)
\* The last resort, for addresses of this host only.
Paths(u) == Candidates(u) \o If(u \in {DockerHost, Caddy, Lan}, Exec)

------------------------------------------------------------------------------
\* Requests.

ToAudit(p, v, ok) == [at |-> "audit", op |-> "point", point |-> p, value |-> v, ok |-> ok]
ToSend(op, p, o, v, u) ==
  [at |-> "send", op |-> op, point |-> p, obj |-> o, value |-> v,
   url |-> u, left |-> Paths(u), onward |-> FALSE]
ToDiscover(body, u) ==
  [at |-> "send", op |-> "discover", dev |-> body.dev, writes |-> body.writes, current |-> TRUE,
   url |-> u, left |-> Paths(u), onward |-> FALSE]
ToMerge(r, objects, h) ==
  [at |-> "merge", dev |-> r.dev, writes |-> r.writes, objects |-> objects, agrees |-> h]

\* The point is read in a transaction of its own.  A point that is not there is
\* answered at once; one without an address, or an unknown gateway, gets a row.
StartWritePoint(c) ==
  /\ Free(c)
  /\ \E p \in Points, v \in Values, id \in Ids :
       Becomes(c, IF p \notin DOMAIN points THEN Idle
                  ELSE IF points[p] = Null \/ UrlOf(id) = Null THEN ToAudit(p, v, FALSE)
                  ELSE ToSend("point", p, points[p], v, UrlOf(id)))
  /\ UNCHANGED <<points, audit, model, world, slot, late, lost, faults>>

\* A value, or Null to release the priority.
PropertyValues == Values \cup {Null}
StartWriteProperty(c) ==
  /\ Free(c)
  /\ \E o \in Objects, v \in PropertyValues, id \in Ids :
       Becomes(c, IF UrlOf(id) = Null THEN Idle
                  ELSE ToSend("property", Null, o, v, UrlOf(id)))
  /\ UNCHANGED <<points, audit, model, world, slot, late, lost, faults>>

\* The device, and write_file.  (Without update_graph it is a read.)
DiscoveryBody == [dev : Devices, writes : BOOLEAN]
StartDiscovery(c) ==
  /\ Free(c)
  /\ \E body \in DiscoveryBody, id \in Ids :
       Becomes(c, IF UrlOf(id) = Null THEN Idle
                  ELSE ToDiscover(body, UrlOf(id)))
  /\ UNCHANGED <<points, audit, model, world, slot, late, lost, faults>>

\* POST /jobs/bacnet/discovery: a thread does the same after the answer.  For a
\* gateway that is unknown it asks the first of the list, and it writes the file.
JobUrl(id) == IF UrlOf(id) = Null THEN Default ELSE UrlOf(id)
StartDiscoveryJob(c) ==
  /\ Free(c)
  /\ \E d \in Devices, id \in Ids :
       Becomes(c, ToDiscover([dev |-> d, writes |-> TRUE], JobUrl(id)))
  /\ UNCHANGED <<points, audit, model, world, slot, late, lost, faults>>

\* The answer of a request without or with a row to write.
AnsweredQuietly(r, ok) == IF r.op = "point" /\ ok THEN ToAudit(r.point, r.value, ok) ELSE Idle \* mutant: rows for successes only
Answered(r, ok) == IF r.op = "point" THEN ToAudit(r.point, r.value, ok) ELSE Idle

\* What is written; onward, when another address of the request was tried before.
Written(r) == [value |-> r.value, by |-> r.point, url |-> r.url, onward |-> r.onward]
\* A write to an object the network has not is refused; Null releases.
Performed(h, o, w) ==
  slot' = [slot EXCEPT ![h][o] = IF w.value = Null THEN Null ELSE w]
Takes(h, r) == r.op # "discover" /\ r.obj \in net[h]

------------------------------------------------------------------------------
\* _post_rpc: one call to the next address.

ObjectsAt(h, d) == {o \in net[h] : o[1] = d}
At(c) == req[c].at
Sending(c) == At(c) = "send"
Gateway(c) == Behind[Head(req[c].left)]

\* It answers, having performed the write or listed the device's objects.
Answer(c) ==
  /\ Sending(c)
  /\ LET r == req[c] h == Gateway(c)
     IN IF r.op = "discover"
        THEN /\ Becomes(c, ToMerge(r, ObjectsAt(h, r.dev), IF h = Behind[r.url] /\ r.current THEN h ELSE Null))
             /\ UNCHANGED slot
        ELSE /\ Takes(h, r) /\ Performed(h, r.obj, Written(r)) /\ Becomes(c, Answered(r, TRUE))
  /\ UNCHANGED <<points, audit, model, world, late, lost, requests, faults>>

\* A JSON-RPC error comes with status 200, which is all that is looked at: a
\* write counts as done, a discovery as one of no objects.
Refuse(c) ==
  /\ Sending(c)
  /\ IF req[c].op = "discover" \/ Takes(Gateway(c), req[c]) THEN Fault ELSE UNCHANGED faults
  /\ Becomes(c, IF req[c].op = "discover"
                THEN ToMerge(req[c], {}, Null)
                ELSE Answered(req[c], TRUE))
  /\ UNCHANGED <<points, audit, model, world, slot, late, lost, requests>>

\* No answer in time, or an error status: the next address is tried.  The write
\* may have been performed, and may still be.
Unanswered(c) ==
  /\ Sending(c) /\ Fault
  /\ LET r == req[c] h == Gateway(c)
     IN /\ \/ UNCHANGED <<slot, late>>
           \/ Takes(h, r) /\ Performed(h, r.obj, Written(r)) /\ UNCHANGED late
           \/ Takes(h, r) /\ late' = late \cup {<<h, r.obj, Written(r)>>} /\ UNCHANGED slot
        /\ Becomes(c, IF Len(r.left) > 1 THEN [r EXCEPT !.left = Tail(@), !.onward = TRUE] ELSE Answered(r, FALSE))
  /\ UNCHANGED <<points, audit, model, world, lost, requests>>

PerformLate ==
  /\ \E l \in late : Performed(l[1], l[2], l[3]) /\ late' = late \ {l}
  /\ UNCHANGED <<points, audit, model, world, req, lost, requests, faults>>

------------------------------------------------------------------------------
\* The row, in a transaction of its own.  The foreign key fails when the point
\* is gone meanwhile.
Audit(c) ==
  /\ At(c) = "audit" /\ Becomes(c, Idle)
  /\ IF req[c].point \in DOMAIN points
     THEN audit' = audit \cup {[point |-> req[c].point, value |-> req[c].value, ok |-> req[c].ok]}
     ELSE UNCHANGED audit
  /\ UNCHANGED <<points, model, world, slot, late, lost, requests, faults>>
AuditFails(c) ==
  /\ At(c) = "audit" /\ Becomes(c, Idle) /\ Fault
  /\ lost' = lost \cup {req[c].point}
  /\ UNCHANGED <<points, audit, model, world, slot, late, requests>>

\* update_bacnet_from_point_discovery: everything whose URI begins with this
\* device's goes, that of device 12 when 1 is merged too; then the objects come,
\* unless the Turtle made of them does not parse.
RemovedNone(d) == graph                                  \* mutant: nothing goes
Removed(d) == [e \in Devices |-> IF IsPrefix(d, e) THEN Null ELSE graph[e]]
Known(old) == IF old = Null THEN {} ELSE old
Merged(d, objects) == LET kept == Removed(d) IN [kept EXCEPT ![d] = Known(@) \cup objects]
Agreeing(d, h) == [e \in Devices |-> IF e = d THEN h ELSE IF IsPrefix(d, e) THEN Null ELSE shown[e]]
Merge(c) ==
  /\ At(c) = "merge"
  /\ LET d == req[c].dev
     IN \/ /\ graph' = Merged(d, req[c].objects) /\ UNCHANGED faults
           /\ shown' = Agreeing(d, req[c].agrees)
           /\ Becomes(c, IF req[c].writes THEN [at |-> "save"] ELSE Idle)
        \/ /\ graph' = Removed(d) /\ Fault
           /\ shown' = Agreeing(d, Null)
           /\ Becomes(c, Idle)
  /\ UNCHANGED <<points, audit, gateways, net, changes, file, text, slot, late, lost, requests>>

\* POST /data-model/reset: with clear_model_db all sites go in a transaction of
\* their own, and their points and audit rows with them.
StartReset(c) ==
  /\ Free(c) /\ Becomes(c, [at |-> "reset"])
  /\ \/ points' = [p \in {} |-> Null] /\ audit' = {}
     \/ UNCHANGED <<points, audit>>
  /\ UNCHANGED <<model, world, slot, late, lost, faults>>
\* reset_graph_to_db_only: every triple goes, and those of the database come
\* back.  When that fails, or the transaction after it, the file is not written.
Cleared == [d \in Devices |-> Null]
ResetGraph(c) ==
  /\ At(c) = "reset"
  /\ graph' = Cleared /\ shown' = [d \in Devices |-> Gone]
  /\ \/ Becomes(c, [at |-> "save"]) /\ UNCHANGED faults
     \/ Becomes(c, Idle) /\ Fault
  /\ UNCHANGED <<points, audit, gateways, net, changes, file, text, slot, late, lost, requests>>

\* write_ttl_to_file, as TtlSync has it step by step: a text of the graph, and
\* the file written with it, or not.
Serialize(c) ==
  /\ At(c) = "save" /\ Becomes(c, [at |-> "write", text |-> graph])
  /\ UNCHANGED <<points, audit, model, world, slot, late, lost, requests, faults>>
Save(c) ==
  /\ At(c) = "write" /\ Becomes(c, Idle)
  /\ \/ file' = req[c].text /\ UNCHANGED faults
     \/ UNCHANGED file /\ Fault
  /\ UNCHANGED <<points, audit, graph, text, world, slot, late, lost, requests>>
\* A timer after some other change, or the periodic thread.
SyncLoop ==
  /\ \/ text = Null /\ text' = graph /\ UNCHANGED <<file, faults>>
     \/ text # Null /\ text' = Null /\ file' = text /\ UNCHANGED faults
     \/ text # Null /\ text' = Null /\ UNCHANGED file /\ Fault
  /\ UNCHANGED <<points, audit, graph, world, slot, late, req, lost, requests>>

\* The API is killed and started: requests are gone, the graph is the file's, of
\* which a write under way leaves any part; the start writes what it read.
Texts == ({text} \cup {req[c].text : c \in {x \in Clients : At(x) = "write"}}) \ {Null}
Parts(t) ==
  {[d \in Devices |-> IF d \in ds /\ t[d] # Null THEN t[d] \cap os ELSE Null] :
     ds \in SUBSET Devices, os \in SUBSET (UNION {Known(t[d]) : d \in Devices})}
Restart ==
  /\ Fault
  /\ req' = [c \in Clients |-> Idle] /\ text' = Null
  /\ lost' = lost \cup {req[c].point : c \in {x \in Clients : At(x) \in {"send", "audit"} /\ req[x].op = "point"}}
  /\ \/ UNCHANGED file
     \/ \E t \in Texts : file' \in Parts(t)
  /\ graph' = file'
  /\ shown' = [d \in Devices |-> IF graph'[d] = graph[d] THEN shown[d] ELSE Null]
  /\ UNCHANGED <<points, audit, gateways, net, changes, slot, late, requests>>

------------------------------------------------------------------------------
\* Meanwhile: a point is deleted, its rows with it; the settings change; a
\* network gains or loses objects.
Change == changes < MaxChanges /\ changes' = changes + 1
CascadeNone(p) == audit                                  \* mutant: rows stay
Cascade(p) == {row \in audit : row.point # p}
DeletePoint ==
  /\ Change
  /\ \E p \in DOMAIN points :
       /\ points' = [q \in DOMAIN points \ {p} |-> points[q]]
       /\ audit' = Cascade(p)
  /\ UNCHANGED <<model, gateways, net, shown, slot, late, req, lost, requests, faults>>
PutConfig ==
  /\ Change
  /\ gateways' \in GatewayLists \ {gateways}
  /\ UNCHANGED <<points, audit, model, net, shown, slot, late, req, lost, requests, faults>>
ChangeNet ==
  /\ Change
  /\ net' \in Nets \ {net}
  /\ shown' = [d \in Devices |-> IF shown[d] = Gone THEN Gone ELSE Null]
  /\ req' = [c \in Clients |-> IF "current" \in DOMAIN req[c] THEN [req[c] EXCEPT !.current = FALSE]
                               ELSE IF "agrees" \in DOMAIN req[c] THEN [req[c] EXCEPT !.agrees = Null] ELSE req[c]]
  /\ UNCHANGED <<points, audit, model, gateways, slot, late, lost, requests, faults>>

Handle(c) ==
  \/ StartWritePoint(c) \/ StartWriteProperty(c) \/ StartDiscovery(c) \/ StartDiscoveryJob(c)
  \/ Answer(c) \/ Refuse(c) \/ Unanswered(c)
  \/ Audit(c) \/ AuditFails(c) \/ Merge(c)
  \/ StartReset(c) \/ ResetGraph(c) \/ Serialize(c) \/ Save(c)
Next ==
  \/ \E c \in Clients : Handle(c)
  \/ SyncLoop \/ PerformLate \/ Restart \/ DeletePoint \/ PutConfig \/ ChangeNet
Spec == Init /\ [][Next]_vars

------------------------------------------------------------------------------
Write == [value : PropertyValues, by : Points \cup {Null}, url : Urls, onward : BOOLEAN]
Graphs == [Devices -> (SUBSET Objects) \cup {Null}]
TypeOK ==
  /\ DOMAIN points \subseteq Points /\ points \in [DOMAIN points -> Objects \cup {Null}]
  /\ audit \subseteq [point : DOMAIN points, value : Values, ok : BOOLEAN]
  /\ graph \in Graphs /\ file \in Graphs /\ text \in Graphs \cup {Null}
  /\ slot \in [Hosts -> [Objects -> Write \cup {Null}]]
  /\ late \subseteq Hosts \X Objects \X Write
  /\ lost \subseteq Points

\* What a device holds from a write through a point is in the audit, whether the
\* gateway answered in time or not and however late it was performed, as long as
\* the point is there and the row did not itself fail; or the request is under
\* way and will write it.
Pending(p, v) == \E c \in Clients : At(c) \in {"send", "audit"} /\ req[c].op = "point" /\ req[c].point = p /\ req[c].value = v
Row(p, v) == \E row \in audit : row.point = p /\ row.value = v
Traced ==
  \A h \in Hosts, o \in Objects :
    LET w == slot[h][o]
    IN w # Null => w.by \in {Null} \cup lost \cup (Points \ DOMAIN points) \/ Row(w.by, w.value) \/ Pending(w.by, w.value)

\* A write is performed at the gateway it was addressed to, over whichever
\* address, at once or late; or at this host's, when an address before it did not
\* answer.  It comes to no third gateway.  (So the write of another site whose
\* gateway does not answer is taken by a device of that number of this host.)
StaysAtGateway ==
  \A h \in Hosts, o \in Objects :
    LET w == slot[h][o] IN w # Null => h = Behind[w.url] \/ (w.onward /\ h = Home)

\* A device discovered since its network last changed is in the graph as it is;
\* after a reset of the model no device is, until it is discovered again.  Either
\* holds until a device whose number begins its own is merged, the discovery's
\* Turtle does not parse, or a restart brings back a file that says otherwise.
DiscoveryShown ==
  \A d \in Devices :
    /\ shown[d] \in Hosts => graph[d] = ObjectsAt(shown[d], d)
    /\ shown[d] = Gone => graph[d] = Null
==============================================================================
