------------------------------ MODULE DataModel ------------------------------
(***************************************************************************)
(* Sites, equipment and points: the requests of api/sites.py,              *)
(* api/equipment.py, api/points.py and site_resolver.py, each with the     *)
(* places where another request may come between its check and its write,  *)
(* and the export and import of api/data_model.py.                         *)
(*                                                                         *)
(* A body of PUT /data-model/import is two sequences of rows.  A row may   *)
(* be refused, and may find several sites of one name, so that importing   *)
(* is a function from a database to the set of databases it may lead to,   *)
(* empty when the transaction is rolled back.                              *)
(***************************************************************************)
EXTENDS Integers, Sequences, SequencesExt, FiniteSets, TLC

CONSTANTS
  Null,
  Placeholder, \* "<site-uuid>", the site of an example row: text that is no id
  Clients,     \* users of the API, and the drivers that resolve a site
  Names,       \* names of sites and equipment, as typed
  Trim,        \* what str.strip makes of each
  Alike,       \* the sites' names that ILIKE finds for each, descriptions counted with the names
  Exts,        \* external ids
  Objects,     \* BACnet objects, in the order of the graph: <<device, object>>
  ObjName,     \* the external id an export proposes for each
  Keys,        \* keys of equipment metadata
  Modbus,      \* modbus_config values as clients send them
  Normal,      \* normalize_modbus_config: a stored configuration, or Null
  Tags,        \* brick type, rule input, unit and description, as one value
  Bodies,      \* bodies of PUT /data-model/import that somebody wrote
  Patches,     \* bodies of PATCH /points/{id}
  Seeds,       \* databases to start from
  MaxRequests  \* bound: requests

\* Without it names need not be unique later either: nothing in the schema checks.
ASSUME NamedOnce ==
  \A d \in Seeds : \A s, t \in DOMAIN d.sites : s # t /\ d.sites[s] = d.sites[t] => Trim[d.sites[s]] # d.sites[s]

\* modbus_config is not in the row at all.
Omit == "omit"

VARIABLES
  sites,   \* id -> name; ids grow with created_at
  equip,   \* id -> [site, name, feeds, fedBy, meta]
  points,  \* id -> [site, ext, bac, equip, polling, mb, tag]
  fresh,   \* the next id; ids are never used again
  disc,    \* the BACnet objects in the graph
  pc, arg, \* the request each client is in, and what it holds
  requests,
  acked,   \* history: metadata stored by requests that answered 200: <<id, key>>
  races    \* history: which read-then-write requests were seen to overlap

db == [sites |-> sites, equip |-> equip, points |-> points, fresh |-> fresh]
rows == <<sites, equip, points, fresh>>
vars == <<rows, disc, pc, arg, requests, acked, races>>

Only(f, S) == [x \in S |-> f[x]]
Idle == [c \in Clients |-> "idle"]
\* Requests between a check of a site's name and the write it allows, and those
\* between reading an equipment's metadata and storing them.
NamesSites == {"insert_site", "rename_site"}
Merges == {"update_equipment", "import"}

Init ==
  /\ \E d \in Seeds : /\ sites = d.sites /\ equip = d.equip
                      /\ points = d.points /\ fresh = d.fresh
  /\ disc = {}
  /\ pc = Idle /\ arg = [c \in Clients |-> Null]
  /\ requests = 0
  /\ acked = {}
  /\ races = {}

------------------------------------------------------------------------------
\* The schema: foreign keys, cascades and unique constraints.

NewId(d, row, table) ==
  [d EXCEPT ![table] = [x \in DOMAIN d[table] \cup {d.fresh} |-> IF x = d.fresh THEN row ELSE d[table][x]],
            !.fresh = @ + 1]

EquipmentFits(d, id, e) ==
  /\ e.site \in DOMAIN d.sites
  /\ {e.feeds, e.fedBy} \subseteq (DOMAIN d.equip \cup {id, Null})
  /\ \A x \in DOMAIN d.equip \ {id} : ~ (d.equip[x].site = e.site /\ d.equip[x].name = e.name)

TakenBy(d, s, ext) == {p \in DOMAIN d.points : d.points[p].site = s /\ d.points[p].ext = ext}
PointFits(d, id, p) ==
  /\ p.site \in DOMAIN d.sites
  /\ p.equip \in DOMAIN d.equip \cup {Null}
  /\ TakenBy(d, p.site, p.ext) \subseteq {id}

EquipmentRow(e) == DOMAIN e = {"site", "name", "feeds", "fedBy", "meta"} /\ e.meta \subseteq Keys
\* A database that the schema allows.
Fits(d) ==
  /\ DOMAIN d = {"sites", "equip", "points", "fresh"}
  /\ d.sites \in [DOMAIN d.sites -> Names]
  /\ \A e \in DOMAIN d.equip : EquipmentFits(d, e, d.equip[e]) /\ EquipmentRow(d.equip[e])
  /\ \A p \in DOMAIN d.points : PointFits(d, p, d.points[p])
  /\ d.fresh \in Nat \ {0}
  /\ DOMAIN d.sites \cup DOMAIN d.equip \cup DOMAIN d.points \subseteq 1..(d.fresh - 1)

\* What is stored as modbus_config stays as it is when it is normalized again.
NormalModbus == {m \in Modbus : Normal[m] = m}
PointFields == {"site", "ext", "bac", "equip", "polling", "mb", "tag"}
Point(p) == p = [f \in PointFields |-> p[f]] /\ p.mb \in NormalModbus \cup {Null}
PointTable(t) == t = [p \in DOMAIN t |-> t[p]] /\ \A p \in DOMAIN t : Point(t[p])

\* Ids are numbers, and what a row may leave out is not a value of it.
ASSUME NullIsNoId == Null \notin Nat
ASSUME PlaceholderIsNoId == Placeholder \notin Nat \cup {Null}
ASSUME NullIsNoValue == Null \notin BOOLEAN /\ \A o \in Range(Objects) : o # Null /\ ObjName[o] # Null
ASSUME SeedsFit == \A d \in Seeds : Fits(d) /\ PointTable(d.points)
\* A label of more than 512 characters aside: stripped, then cut.
ASSUME NormalStays == \A m \in Modbus : Normal[m] \in NormalModbus \cup {Null}
\* PointUpdate normalizes what it is sent.
ASSUME PatchesFit ==
  \A b \in Patches : "mb" \in DOMAIN b => b.mb \in NormalModbus \cup {Null}
\* A body is two lists of rows.
Lists(b) ==
  /\ DOMAIN b = {"points", "equipment"}
  /\ Len(b.points) \in Nat /\ DOMAIN b.points = 1..Len(b.points)
  /\ Len(b.equipment) \in Nat /\ DOMAIN b.equipment = 1..Len(b.equipment)
  /\ \A i \in DOMAIN b.equipment : b.equipment[i].meta \subseteq Keys
ASSUME BodiesAreLists == \A b \in Bodies : Lists(b)
SendsModbus(b) == \A i \in DOMAIN b.points : b.points[i].mb \in Modbus \cup {Omit, Null}
ASSUME BodiesSendModbus == \A b \in Bodies : SendsModbus(b)
ASSUME ObjectsAreListed == Objects \in Seq(Range(Objects))

\* UPDATE points of one row, if the constraints allow it.
StorePoint(d, id, p) == IF PointFits(d, id, p) THEN {[d EXCEPT !.points[id] = p]} ELSE {}

\* Mutant: the links of other equipment are left.
WithoutUnit(d, gone) ==
  [d EXCEPT !.equip = Only(@, DOMAIN @ \ gone),
            !.points = Only(@, {p \in DOMAIN @ : d.points[p].equip \notin gone})]
\* Points of a deleted equipment go with it, links to it become null.
WithoutEquipment(d, gone) ==
  LET kept == DOMAIN d.equip \ gone
      Link(x) == IF x \in gone THEN Null ELSE x
  IN [d EXCEPT !.equip = [e \in kept |-> [d.equip[e] EXCEPT !.feeds = Link(@), !.fedBy = Link(@)]],
               !.points = Only(@, {p \in DOMAIN @ : d.points[p].equip \notin gone})]
WithoutSite(d, s) ==
  LET e == WithoutEquipment(d, {x \in DOMAIN d.equip : d.equip[x].site = s})
  IN [e EXCEPT !.sites = Only(@, DOMAIN @ \ {s}),
               !.points = Only(@, {p \in DOMAIN @ : e.points[p].site # s})]

Becomes(d) == sites' = d.sites /\ equip' = d.equip /\ points' = d.points /\ fresh' = d.fresh

------------------------------------------------------------------------------
\* Import: the points.

IsUuid(x) == x \in Nat
\* _parse_uuid_or_400: a field that is there and no id refuses the import.
Parses(x) == x = Null \/ IsUuid(x)

\* The sites of the rows; what is no id is passed over.
InPayload(body) ==
  {s \in {body.points[i].site : i \in DOMAIN body.points} \cup
         {body.equipment[i].site : i \in DOMAIN body.equipment} : IsUuid(s)}

TheOnly(S) == IF Cardinality(S) = 1 THEN CHOOSE s \in S : TRUE ELSE Null
\* The site of rows that name none: the one the payload names, or the only one.
Fallback(body, known) ==
  IF TheOnly(InPayload(body)) # Null THEN TheOnly(InPayload(body)) ELSE TheOnly(known)

\* _resolve_site_id_by_name: name or description, LIMIT 1 without an order.
ByName(d, n) ==
  LET hits == {s \in DOMAIN d.sites : d.sites[s] \in Alike[n]}
  IN IF hits = {} THEN {Null} ELSE hits

SitesFor(d, row, fallback) ==
  IF row.site # Null THEN {row.site}
  ELSE IF fallback # Null THEN {fallback}
  ELSE IF row.sname # Null THEN ByName(d, row.sname) ELSE {Null}

Named(d, s, n) == {e \in DOMAIN d.equip : d.equip[e].site = s /\ d.equip[e].name = Trim[n]}

\* _ensure_equipment: databases that hold it, none when the site is gone.
EnsureEquipment(d, s, n) ==
  IF Named(d, s, n) # {} THEN {d}
  ELSE IF s \in DOMAIN d.sites
       THEN {NewId(d, [site |-> s, name |-> Trim[n], feeds |-> Null, fedBy |-> Null, meta |-> {}], "equip")}
       ELSE {}
EquipmentNamed(d, s, n) == CHOOSE e \in Named(d, s, n) : TRUE

\* The equipment a row points at: given by id, by name under s, or none.
Linked(d, row, s) ==
  IF row.equip # Null THEN {<<d, row.equip>>}
  ELSE IF row.ename = Null THEN {<<d, Null>>}
  ELSE {<<e, EquipmentNamed(e, s, row.ename)>> : e \in EnsureEquipment(d, s, row.ename)}

Polled(row) == IF row.polling = Null THEN TRUE ELSE row.polling
BadModbus(row) == row.mb \notin {Omit, Null} /\ Normal[row.mb] = Null
ModbusOf(row) == IF row.mb \in {Omit, Null} THEN Null ELSE Normal[row.mb]

\* On a Modbus row the BACnet fields stay, on a BACnet row the Modbus ones.
Overwritten(p, row, e) ==
  LET q == [p EXCEPT !.equip = e, !.tag = row.tag, !.polling = Polled(row)]
  IN IF ModbusOf(row) # Null THEN [q EXCEPT !.mb = ModbusOf(row)] ELSE [q EXCEPT !.bac = row.bac]

Created(row, s, e) ==
  [site |-> s, ext |-> row.ext, bac |-> IF ModbusOf(row) # Null THEN Null ELSE row.bac,
   equip |-> e, polling |-> Polled(row), mb |-> ModbusOf(row), tag |-> row.tag]

\* Mutant: a key that is taken refuses the import.
InsertOnly(d, row, s, e) ==
  IF PointFits(d, d.fresh, Created(row, s, e)) THEN {NewId(d, Created(row, s, e), "points")} ELSE {}
\* INSERT; when (site_id, external_id) is taken, UPDATE that row.
Upsert(d, row, s, e) ==
  IF TakenBy(d, s, row.ext) = {}
  THEN IF PointFits(d, d.fresh, Created(row, s, e)) THEN {NewId(d, Created(row, s, e), "points")} ELSE {}
  ELSE LET p == CHOOSE p \in TakenBy(d, s, row.ext) : TRUE
       IN StorePoint(d, p, Overwritten(d.points[p], row, e))

Complete(row, s) == IsUuid(s) /\ row.ext # Null /\ (ModbusOf(row) # Null \/ row.bac # Null)

\* _create_or_upsert_without_point_id.
ByIdentity(d, row, fallback) ==
  UNION {IF BadModbus(row) \/ ~ Complete(row, s) THEN {}
         ELSE UNION {Upsert(w[1], row, s, w[2]) : w \in Linked(d, row, s)}
         : s \in SitesFor(d, row, fallback)}

\* The site a name of equipment is looked up in; the point's own at last.
SitesOfUpdate(d, row, fallback) ==
  UNION {IF s = Null /\ row.pid \in DOMAIN d.points THEN {d.points[row.pid].site} ELSE {s}
         : s \in SitesFor(d, row, fallback)}

Pick(new, old) == IF new = Null THEN old ELSE new
Changed(p, row, e) ==
  [p EXCEPT !.site = Pick(row.site, @), !.equip = Pick(e, @), !.ext = Pick(row.ext, @),
            !.tag = Pick(row.tag, @), !.polling = Pick(row.polling, @),
            !.mb = IF row.mb = Omit THEN @ ELSE ModbusOf(row)]
Says(row, e) ==
  row.site # Null \/ e # Null \/ row.ext # Null \/ row.tag # Null \/ row.polling # Null \/ row.mb # Omit

\* A row with point_id.  When no row has that id, the fields identify the point.
ById(d, row, fallback) ==
  UNION {IF BadModbus(row) \/ ~ Parses(row.site) THEN {}
         ELSE UNION {IF ~ Says(row, w[2]) THEN {w[1]}
                     ELSE IF row.pid \in DOMAIN d.points
                          THEN StorePoint(w[1], row.pid, Changed(d.points[row.pid], row, w[2]))
                          ELSE ByIdentity(w[1], row, fallback)
                     : w \in IF s = Null /\ row.equip = Null THEN {<<d, Null>>} ELSE Linked(d, row, s)}
         : s \in SitesOfUpdate(d, row, fallback)}

ImportPoint(d, row, fallback) ==
  IF row.pid # Null THEN ById(d, row, fallback) ELSE ByIdentity(d, row, fallback)

------------------------------------------------------------------------------
\* Import: the equipment.

\* An id as it stands, a name looked up under s: no such name refuses the import.
LinkTo(d, s, x) ==
  IF x = Null \/ IsUuid(x) THEN {x} ELSE IF s = Null THEN {} ELSE Named(d, s, x)

MergeTop(old, new) == new                               \* mutant: the row is replaced
Merge(old, new) == old \cup new

\* The merge starts from the row, or, as long as nothing in the import, which
\* began with `before`, has changed it, from what it was when it was read.
Bases(d, id, row, seen, before) ==
  {d.equip[id].meta} \cup
  (IF /\ row.feeds = Null /\ row.fedBy = Null
      /\ id \in DOMAIN seen \cap DOMAIN before /\ before[id].meta = d.equip[id].meta
   THEN {seen[id]} ELSE {})

Relinked(d, id, row, f, b, base) ==
  [d EXCEPT !.equip[id].feeds = Pick(f, @), !.equip[id].fedBy = Pick(b, @),
            !.equip[id].meta = IF row.meta = {} THEN @ ELSE Merge(base, row.meta)]
UpdateLinks(d, id, row, s, seen, before) ==
  {Relinked(d, id, row, f, b, base)
   : f \in LinkTo(d, s, row.feeds), b \in LinkTo(d, s, row.fedBy), base \in Bases(d, id, row, seen, before)}

ImportEquipment(d, row, fallback, seen, before) ==
  LET s == Pick(row.site, fallback)
      Apply(e, id) ==
        IF ~ Parses(s) \/ LinkTo(e, s, row.feeds) = {} \/ LinkTo(e, s, row.fedBy) = {} THEN {}
        ELSE IF id \notin DOMAIN e.equip THEN {e}
        ELSE {f \in UpdateLinks(e, id, row, s, seen, before) : EquipmentFits(f, id, f.equip[id])}
  IN IF row.eid # Null THEN Apply(d, row.eid)
     ELSE IF row.name = Null \/ s = Null THEN {d}
     ELSE UNION {Apply(e, EquipmentNamed(e, s, row.name)) : e \in EnsureEquipment(d, s, row.name)}

Unknown(body, known) == InPayload(body) \ known

RowsOf(body) == Len(body.points) + Len(body.equipment)
ImportRow(d, body, i, fallback, seen, before) ==
  IF i <= Len(body.points) THEN ImportPoint(d, body.points[i], fallback)
  ELSE ImportEquipment(d, body.equipment[i - Len(body.points)], fallback, seen, before)

\* The databases an import may commit, row after row: it read `known` sites and
\* the metadata `seen` before.
Import(d, body, known, seen) ==
  LET fallback == Fallback(body, known)
      After[i \in 0..RowsOf(body)] ==
        IF i = 0 THEN {d}
        ELSE UNION {ImportRow(x, body, i, fallback, seen, d.equip) : x \in After[i - 1]}
  IN After[RowsOf(body)]

Metadata(d) == [e \in DOMAIN d.equip |-> d.equip[e].meta]
\* Nobody else writes meanwhile.
ImportAlone(d, body) ==
  IF Unknown(body, DOMAIN d.sites) # {} THEN {} ELSE Import(d, body, DOMAIN d.sites, Metadata(d))

------------------------------------------------------------------------------
\* Export: GET /data-model/export/import-template.  (bacnet_only, which leaves
\* rows without an object out, aside.)

Blank == [pid |-> Null, site |-> Null, sname |-> Null, equip |-> Null, ename |-> Null,
          ext |-> Null, bac |-> Null, mb |-> Null, polling |-> FALSE, tag |-> Null]

\* Mutant: modbus_config is left out, and the import takes null for it.
PointRowOld(d, p) ==
  LET x == d.points[p] IN
  [Blank EXCEPT !.pid = p, !.site = x.site, !.equip = x.equip, !.ext = x.ext, !.bac = x.bac,
                !.polling = x.polling, !.tag = x.tag]
PointRow(d, p) ==
  LET x == d.points[p] IN
  [pid |-> p, site |-> x.site, sname |-> d.sites[x.site], equip |-> x.equip,
   ename |-> IF x.equip = Null THEN Null ELSE d.equip[x.equip].name, ext |-> x.ext,
   bac |-> x.bac, mb |-> x.mb, polling |-> x.polling, tag |-> x.tag]

\* An object without a point is proposed for the site asked for, or the only one.
ProposedRow(d, o, site) ==
  [Blank EXCEPT !.site = site, !.sname = IF site = Null THEN Null ELSE d.sites[site],
                !.ext = ObjName[o], !.bac = o]

\* The example that is returned when there are no rows.
Scaffold ==
  [Blank EXCEPT !.site = Placeholder, !.ext = "ZoneTemp", !.bac = <<3456789, "analog-input,1">>,
                !.polling = TRUE, !.tag = "Zone_Air_Temperature_Sensor"]

PointsAt(d, o) == {p \in DOMAIN d.points : d.points[p].bac = o}
\* The dictionary keeps one point of each object.
Overlays(d) == {f \in [{o \in disc : PointsAt(d, o) # {}} -> DOMAIN d.points] :
                  \A o \in DOMAIN f : f[o] \in PointsAt(d, o)}

\* The objects of S in the order of the graph.
Listed(S) ==
  LET Until[i \in 0..Len(Objects)] ==
        IF i = 0 THEN <<>>
        ELSE IF Objects[i] \in S THEN Append(Until[i - 1], Objects[i]) ELSE Until[i - 1]
  IN Until[Len(Objects)]

Template(d, filter, over) ==
  LET site == Pick(filter, TheOnly(DOMAIN d.sites))
      Of(p) == filter = Null \/ d.points[p].site = filter
      found == Listed({o \in disc : o \in DOMAIN over => Of(over[o])})
      fromGraph == [i \in DOMAIN found |-> IF found[i] \in DOMAIN over THEN PointRow(d, over[found[i]])
                                           ELSE ProposedRow(d, found[i], site)]
      others == {p \in DOMAIN d.points : Of(p) /\ \A o \in DOMAIN over : over[o] # p}
      fromDb == [i \in DOMAIN SetToSeq(others) |-> PointRow(d, SetToSeq(others)[i])]
      all == fromGraph \o fromDb
  IN [points |-> IF all = <<>> THEN <<Scaffold>> ELSE all, equipment |-> <<>>]

Templates(d, filter) == {Template(d, filter, over) : over \in Overlays(d)}

------------------------------------------------------------------------------
\* Requests.

Merging(l, a) ==
  \/ l = "update_equipment" /\ a.b.meta # {}
  \/ l = "import" /\ \E i \in DOMAIN a.body.equipment : a.body.equipment[i].meta # {}
Seen(c, l, a) ==
  races \cup
  (IF l \in NamesSites /\ \E o \in Clients \ {c} : pc[o] \in NamesSites THEN {"names"} ELSE {}) \cup
  (IF Merging(l, a) /\ \E o \in Clients \ {c} : Merging(pc[o], arg[o]) THEN {"merges"} ELSE {})

Request == requests < MaxRequests /\ requests' = requests + 1
\* The client is past the checks of its request and holds what it read.
Hold(c, l, a) ==
  /\ pc' = [pc EXCEPT ![c] = l] /\ arg' = [arg EXCEPT ![c] = a]
  /\ races' = Seen(c, l, a)
Start(c, l, a) == pc[c] = "idle" /\ Request /\ Hold(c, l, a) /\ UNCHANGED <<rows, disc, acked>>
Done(c) ==
  /\ pc' = [pc EXCEPT ![c] = "idle"] /\ arg' = [arg EXCEPT ![c] = Null]
  /\ UNCHANGED <<disc, requests, races>>
AtOnce == Request /\ UNCHANGED <<disc, pc, arg, acked, races>>

\* POST /sites: the check is for the stripped name, the name is stored as typed.
FreeUnchecked(n, own) == TRUE                          \* mutant: no check
FreeFor(n, own) == \A x \in DOMAIN sites \ own : sites[x] # Trim[n]
CreateSite(c, n) == FreeFor(n, {}) /\ Start(c, "insert_site", n)
\* resolve_site_uuid creates a site only when there is none.
ResolveSite(c, n) == DOMAIN sites = {} /\ Start(c, "insert_site", n)
InsertSite(c) ==
  /\ pc[c] = "insert_site"
  /\ sites' = [s \in DOMAIN sites \cup {fresh} |-> IF s = fresh THEN arg[c] ELSE sites[s]]
  /\ fresh' = fresh + 1
  /\ Done(c) /\ UNCHANGED <<equip, points, acked>>

\* PATCH /sites/{id}: checked in one connection, written in another.
UpdateSite(c, s, n) == FreeFor(n, {s}) /\ Start(c, "rename_site", [s |-> s, n |-> n])
RenameSite(c) ==
  /\ pc[c] = "rename_site"
  /\ sites' = [s \in DOMAIN sites |-> IF s = arg[c].s THEN arg[c].n ELSE sites[s]]
  /\ Done(c) /\ UNCHANGED <<equip, points, fresh, acked>>

DeleteSite(s) == s \in DOMAIN sites /\ AtOnce /\ Becomes(WithoutSite(db, s))

CreateEquipment(c, e) ==
  /\ Named(db, e.site, e.name) = {}
  /\ Start(c, "insert_equipment", e)
InsertEquipment(c) ==
  /\ pc[c] = "insert_equipment"
  /\ IF EquipmentFits(db, fresh, arg[c]) THEN Becomes(NewId(db, arg[c], "equip")) ELSE UNCHANGED rows
  /\ Done(c) /\ UNCHANGED acked

\* PATCH /equipment/{id}: a new name is checked in one connection; another reads
\* the metadata and stores the row with the merge.
Rivals(e, n) == IF n = Null \/ e \notin DOMAIN equip THEN {} ELSE Named(db, equip[e].site, n) \ {e}
UpdateEquipment(c, e, b) ==
  /\ Rivals(e, b.name) = {}
  /\ Start(c, "patch_equipment", [e |-> e, b |-> b, base |-> {}])
ReadMetadata(c) ==
  /\ pc[c] = "patch_equipment"
  /\ LET a == arg[c] IN
       Hold(c, "update_equipment", [a EXCEPT !.base = IF a.e \in DOMAIN equip THEN equip[a.e].meta ELSE {}])
  /\ UNCHANGED <<rows, disc, requests, acked>>
Patched(old, a) ==
  [old EXCEPT !.name = Pick(a.b.name, @), !.feeds = Pick(a.b.feeds, @),
              !.meta = IF a.b.meta = {} THEN @ ELSE Merge(a.base, a.b.meta)]
StoreEquipment(c) ==
  /\ pc[c] = "update_equipment"
  /\ LET a == arg[c]
         ok == a.e \in DOMAIN equip /\ EquipmentFits(db, a.e, Patched(equip[a.e], a))
     IN /\ equip' = IF ok THEN [equip EXCEPT ![a.e] = Patched(@, a)] ELSE equip
        /\ acked' = IF ok THEN acked \cup ({a.e} \X a.b.meta) ELSE acked
  /\ Done(c) /\ UNCHANGED <<sites, points, fresh>>

DeleteEquipment(e) == e \in DOMAIN equip /\ AtOnce /\ Becomes(WithoutEquipment(db, {e}))

CreatePoint(c, p) == TakenBy(db, p.site, p.ext) = {} /\ Start(c, "insert_point", p)
InsertPoint(c) ==
  /\ pc[c] = "insert_point"
  /\ IF PointFits(db, fresh, arg[c]) THEN Becomes(NewId(db, arg[c], "points")) ELSE UNCHANGED rows
  /\ Done(c) /\ UNCHANGED acked
\* The fields a body sets.
Updated(p, b) == [f \in DOMAIN p |-> IF f \in DOMAIN b THEN b[f] ELSE p[f]]
UpdatePoint(p, b) ==
  /\ p \in DOMAIN points /\ AtOnce
  /\ \E d \in StorePoint(db, p, Updated(points[p], b)) : Becomes(d)
DeletePoint(p) ==
  /\ p \in DOMAIN points /\ AtOnce
  /\ points' = Only(points, DOMAIN points \ {p})
  /\ UNCHANGED <<sites, equip, fresh>>

\* Discovery puts an object into the graph.
Discover(o) ==
  /\ o \notin disc /\ disc' = disc \cup {o}
  /\ UNCHANGED <<rows, pc, arg, requests, acked, races>>

\* POST /data-model/reset: the graph is rebuilt without objects; on a bench all
\* sites may be deleted before, and with them all there is.
Emptied(d) == [d EXCEPT !.sites = Only(@, {}), !.equip = Only(@, {}), !.points = Only(@, {})]
ClearModel(c) ==
  /\ pc[c] = "idle" /\ Request /\ Hold(c, "reset", Null)
  /\ Becomes(Emptied(db)) /\ UNCHANGED <<disc, acked>>
Reset(c) == Start(c, "reset", Null)
ResetGraph(c) ==
  /\ pc[c] = "reset" /\ disc' = {}
  /\ pc' = [pc EXCEPT ![c] = "idle"] /\ arg' = [arg EXCEPT ![c] = Null]
  /\ UNCHANGED <<rows, requests, acked, races>>

\* GET the template, tag its rows, send it some time later.
Tagged(body, t) ==
  [body EXCEPT !.points = [i \in DOMAIN body.points |-> [body.points[i] EXCEPT !.tag = Pick(t, @)]]]
HoldTemplate(c, filter, t) ==
  \E b \in Templates(db, filter) : Start(c, "holds", Tagged(b, t))

Sent(body) == [body |-> body, known |-> DOMAIN sites, seen |-> Metadata(db)]
\* PUT /data-model/import: the sites are read first.  (Ids are UUIDs: nobody
\* names one that was not given out.)
SendBody(c, body) ==
  /\ \A i \in DOMAIN body.equipment : body.equipment[i].eid \in {Null} \cup 1..(fresh - 1)
  /\ Unknown(body, DOMAIN sites) = {}
  /\ Start(c, "import", Sent(body))
SendTemplate(c) ==
  /\ pc[c] = "holds"
  /\ IF Unknown(arg[c], DOMAIN sites) = {}
     THEN Hold(c, "import", Sent(arg[c])) /\ UNCHANGED <<disc, requests>>
     ELSE Done(c)
  /\ UNCHANGED <<rows, acked>>

Merged(d, a, e) ==
  UNION {a.body.equipment[i].meta : i \in {i \in DOMAIN a.body.equipment :
    LET row == a.body.equipment[i]
        s == Pick(row.site, Fallback(a.body, a.known))
    IN row.eid = e \/ (row.eid = Null /\ row.name # Null /\ e \in Named(d, s, row.name))}}
CommitImport(c) ==
  /\ pc[c] = "import"
  /\ \E d \in Import(db, arg[c].body, arg[c].known, arg[c].seen) :
       /\ equip' = d.equip /\ points' = d.points /\ fresh' = d.fresh
       /\ acked' = acked \cup UNION {{e} \X Merged(d, arg[c], e) : e \in DOMAIN d.equip}
  /\ Done(c) /\ UNCHANGED sites
\* A row is refused, or the database fails: rollback.
RejectImport(c) == pc[c] = "import" /\ Done(c) /\ UNCHANGED <<rows, acked>>

NewEquipment == [site : DOMAIN sites, name : Names, feeds : {Null}, fedBy : {Null} \cup DOMAIN equip, meta : {{}}]
NewPoint == [site : DOMAIN sites, ext : Exts, bac : Range(Objects) \cup {Null},
             equip : {Null} \cup DOMAIN equip, polling : {TRUE}, mb : {Null}, tag : {Null}]
EquipmentPatch == [name : Names \cup {Null}, feeds : {Null} \cup DOMAIN equip, meta : {{}} \cup {{k} : k \in Keys}]

Next ==
  \/ \E c \in Clients :
       \/ \E n \in Names : CreateSite(c, n) \/ ResolveSite(c, n)
       \/ \E s \in DOMAIN sites, n \in Names : UpdateSite(c, s, n)
       \/ \E e \in NewEquipment : CreateEquipment(c, e)
       \/ \E e \in DOMAIN equip, b \in EquipmentPatch : UpdateEquipment(c, e, b)
       \/ \E p \in NewPoint : CreatePoint(c, p)
       \/ \E f \in DOMAIN sites \cup {Null}, t \in Tags \cup {Null} : HoldTemplate(c, f, t)
       \/ \E body \in Bodies : SendBody(c, body)
       \/ Reset(c) \/ ClearModel(c) \/ ResetGraph(c)
       \/ InsertSite(c) \/ RenameSite(c) \/ InsertEquipment(c) \/ ReadMetadata(c) \/ StoreEquipment(c)
       \/ InsertPoint(c) \/ SendTemplate(c) \/ CommitImport(c) \/ RejectImport(c)
  \/ \E s \in DOMAIN sites : DeleteSite(s)
  \/ \E e \in DOMAIN equip : DeleteEquipment(e)
  \/ \E p \in DOMAIN points : DeletePoint(p) \/ \E b \in Patches : UpdatePoint(p, b)
  \/ \E o \in Range(Objects) : Discover(o)

Spec == Init /\ [][Next]_vars

------------------------------------------------------------------------------
\* Every request, cascade and import leaves names and references that resolve.
TypeOK ==
  /\ Fits(db)
  /\ PointTable(points)
  /\ disc \subseteq Range(Objects)
  /\ acked \subseteq Nat \X Keys

\* sites.name has no unique constraint: two sites share a name only after two
\* requests checked it before either wrote, or when it ends in blanks.
SiteNamesUnique ==
  "names" \notin races =>
    \A s, t \in DOMAIN sites : s # t /\ sites[s] = sites[t] => Trim[sites[s]] # sites[s]

\* Metadata a PATCH or an import stored stay with the equipment, whatever is
\* merged later, unless two merges overlapped.
MergesKept ==
  "merges" \notin races => \A v \in acked : v[1] \in DOMAIN equip => v[2] \in equip[v[1]].meta

OncePerPoint(body) ==
  \A i, j \in DOMAIN body.points : i # j /\ body.points[i].pid # Null => body.points[i].pid # body.points[j].pid
EveryTemplate == UNION {Templates(db, f) : f \in DOMAIN sites \cup {Null}}

\* A client that never saw the answer may send the import again: the second time
\* it changes nothing.  (Requests in flight have written nothing yet.)
ImportIdempotent ==
  pc = Idle => \A body \in Bodies \cup EveryTemplate :
    OncePerPoint(body) /\ Cardinality(ImportAlone(db, body)) = 1 =>
      \A d \in ImportAlone(db, body) : ImportAlone(d, body) = {d}

\* The rows of a template that propose a point, and the point each would write
\* over: the one that has the external id at its site.
NewRows(body) == {row \in Range(body.points) : row.pid = Null}
SiteOfRow(body, row) == Pick(row.site, Fallback(body, DOMAIN sites))
Claims(body, p) == {row.bac : row \in {r \in NewRows(body) : p \in TakenBy(db, SiteOfRow(body, r), r.ext)}}
\* q is point p, moved to the object of a row that claims it.
Moved(body, p, q) ==
  /\ q.bac \in Claims(body, p)
  /\ \A f \in {"site", "ext", "mb"} : q[f] = points[p][f]
  /\ q.equip \in {points[p].equip, Null}
  /\ q.polling \in {points[p].polling, FALSE}
  /\ q.tag \in {points[p].tag, Null}

\* A template imported as it is changes no site and no equipment.  It adds only
\* discovered objects without a point, not polled.  It changes no point either,
\* unless an object is proposed under the external id the point has: that one
\* moves to the object.  It is refused when an object has no site to go to, as
\* the example has none, and only then.
RoundTrip ==
  pc = Idle => \A f \in DOMAIN sites \cup {Null} : \A body \in Templates(db, f) :
    /\ \A d \in ImportAlone(db, body) :
         /\ d.sites = sites /\ d.equip = equip
         /\ \A p \in DOMAIN points :
              p \in DOMAIN d.points /\ (d.points[p] = points[p] \/ Moved(body, p, d.points[p]))
         /\ \A p \in DOMAIN d.points \ DOMAIN points :
              d.points[p].bac \in disc /\ PointsAt(db, d.points[p].bac) = {} /\ ~ d.points[p].polling
    /\ ImportAlone(db, body) = {} <=> \E row \in NewRows(body) : ~ IsUuid(SiteOfRow(body, row))
==============================================================================
