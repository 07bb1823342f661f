---------------------------- MODULE DataModelProofs ----------------------------
(****************************************************************************)
(* Proofs about DataModel.  Without a unique constraint on sites.name, what *)
(* keeps names apart is that no two requests are between the check of a     *)
(* name and its write at once.  The schema holds in every state, whatever   *)
(* rows an import carries.  A template that is imported as it was exported  *)
(* changes nothing, because the row of a point puts the point back as it    *)
(* is, and a second import adds nothing to the first.  And what was         *)
(* acknowledged of an equipment's metadata stays: a merge only adds to what *)
(* it read, and what it read is still there unless another merge came       *)
(* between.                                                                 *)
(****************************************************************************)
EXTENDS DataModel, FiniteSetTheorems, SequenceTheorems, TLAPS

\* Functions of the clients, whatever the requests hold.
OfClients == pc = [c \in Clients |-> pc[c]] /\ arg = [c \in Clients |-> arg[c]]

\* Two names that are equal are as typed, not as stripped.
Distinct == \A s, t \in DOMAIN sites : s # t /\ sites[s] = sites[t] => Trim[sites[s]] # sites[s]
\* One request at most has checked a name it has not written yet,
OneNames == \A c, o \in Clients : pc[c] \in NamesSites /\ pc[o] \in NamesSites => c = o
\* and what it checked still holds: no site took the stripped name since.
StillFree ==
  \A c \in Clients :
    /\ pc[c] = "insert_site" => \A x \in DOMAIN sites : sites[x] # Trim[arg[c]]
    /\ pc[c] = "rename_site" => \A x \in DOMAIN sites \ {arg[c].s} : sites[x] # Trim[arg[c].n]

NamesInv == OfClients /\ ("names" \notin races => Distinct /\ OneNames /\ StillFree)

LEMMA NamesInit == Init => NamesInv
<1> SUFFICES ASSUME Init PROVE NamesInv
  OBVIOUS
<1>1. PICK d \in Seeds : sites = d.sites
  BY DEF Init
<1>2. Distinct
  BY <1>1, NamedOnce DEF Distinct
<1>3. pc = [c \in Clients |-> "idle"] /\ arg = [c \in Clients |-> Null]
  BY DEF Init, Idle
<1>4. OfClients /\ OneNames /\ StillFree
  BY <1>3 DEF OfClients, OneNames, StillFree, NamesSites
<1> QED BY <1>2, <1>4 DEF NamesInv

\* A request that starts, or goes on to its write, with what it read.
LEMMA Holding ==
  ASSUME OfClients, NEW c \in Clients, NEW l, NEW a, Hold(c, l, a)
  PROVE  /\ OfClients'
         /\ pc'[c] = l /\ arg'[c] = a
         /\ \A o \in Clients \ {c} : pc'[o] = pc[o] /\ arg'[o] = arg[o]
         /\ "names" \notin races' => /\ "names" \notin races
                                     /\ l \in NamesSites => \A o \in Clients \ {c} : pc[o] \notin NamesSites
  BY DEF OfClients, Hold, Seen

LEMMA Ending ==
  ASSUME OfClients, NEW c \in Clients, Done(c)
  PROVE  /\ OfClients' /\ races' = races
         /\ pc'[c] = "idle"
         /\ \A o \in Clients \ {c} : pc'[o] = pc[o] /\ arg'[o] = arg[o]
  BY DEF OfClients, Done

LEMMA Resetting ==
  ASSUME OfClients, NEW c \in Clients, ResetGraph(c)
  PROVE  /\ OfClients' /\ pc'[c] = "idle"
         /\ \A o \in Clients \ {c} : pc'[o] = pc[o] /\ arg'[o] = arg[o]
  BY DEF OfClients, ResetGraph

\* A step that leaves the names, or loses some, and starts no request for one.
LEMMA Fewer ==
  ASSUME NamesInv, OfClients',
         DOMAIN sites' \subseteq DOMAIN sites, \A x \in DOMAIN sites' : sites'[x] = sites[x],
         "names" \notin races' => "names" \notin races,
         \A o \in Clients : pc'[o] \in NamesSites => pc[o] = pc'[o] /\ arg[o] = arg'[o]
  PROVE  NamesInv'
<1> SUFFICES ASSUME "names" \notin races' PROVE (Distinct /\ OneNames /\ StillFree)'
  BY DEF NamesInv
<1>1. Distinct /\ OneNames /\ StillFree
  BY DEF NamesInv
<1>2. Distinct'
  BY <1>1 DEF Distinct
<1>3. OneNames'
  BY <1>1 DEF OneNames
<1>4. StillFree'
  BY <1>1 DEF StillFree, NamesSites
<1> QED BY <1>2, <1>3, <1>4

\* A request that checked a name, to insert or to rename.
LEMMA Checked ==
  ASSUME NamesInv, NEW c \in Clients, NEW l, NEW a, Hold(c, l, a), UNCHANGED sites, l \in NamesSites,
         l = "insert_site" => \A x \in DOMAIN sites : sites[x] # Trim[a],
         l = "rename_site" => \A x \in DOMAIN sites \ {a.s} : sites[x] # Trim[a.n]
  PROVE  NamesInv'
<1> SUFFICES ASSUME "names" \notin races' PROVE (Distinct /\ OneNames /\ StillFree)'
  BY Holding DEF NamesInv
<1>1. /\ Distinct /\ OneNames /\ StillFree /\ OfClients
      /\ \A o \in Clients \ {c} : pc[o] \notin NamesSites
  BY Holding DEF NamesInv
<1>2. pc'[c] = l /\ arg'[c] = a /\ \A o \in Clients \ {c} : pc'[o] = pc[o] /\ arg'[o] = arg[o]
  BY <1>1, Holding
<1>3. Distinct'
  BY <1>1 DEF Distinct
<1>4. OneNames'
  BY <1>1, <1>2 DEF OneNames
<1>5. StillFree'
  BY <1>1, <1>2 DEF StillFree, NamesSites
<1> QED BY <1>3, <1>4, <1>5

LEMMA NamesStep == NamesInv /\ [Next]_vars => NamesInv'
<1> SUFFICES ASSUME NamesInv, [Next]_vars PROVE NamesInv'
  OBVIOUS
<1>a. OfClients
  BY DEF NamesInv
<1>1. ASSUME NEW c \in Clients, NEW n \in Names, CreateSite(c, n) \/ ResolveSite(c, n) PROVE NamesInv'
  <2>1. Hold(c, "insert_site", n) /\ UNCHANGED sites /\ \A x \in DOMAIN sites : sites[x] # Trim[n]
    BY <1>1 DEF CreateSite, ResolveSite, FreeFor, Start, rows
  <2> QED BY <2>1, Checked DEF NamesSites
<1>2. ASSUME NEW c \in Clients, NEW s \in DOMAIN sites, NEW n \in Names, UpdateSite(c, s, n) PROVE NamesInv'
  <2> DEFINE a == [s |-> s, n |-> n]
  <2>1. Hold(c, "rename_site", a) /\ UNCHANGED sites /\ \A x \in DOMAIN sites \ {a.s} : sites[x] # Trim[a.n]
    BY <1>2 DEF UpdateSite, FreeFor, Start, rows
  <2> HIDE DEF a
  <2> QED BY <2>1, Checked DEF NamesSites
\* A write: the name is none of the others', and no other request holds one.
<1>3. ASSUME NEW c \in Clients, InsertSite(c) PROVE NamesInv'
  <2>1. /\ pc[c] = "insert_site" /\ Done(c)
        /\ sites' = [s \in DOMAIN sites \cup {fresh} |-> IF s = fresh THEN arg[c] ELSE sites[s]]
    BY <1>3 DEF InsertSite
  <2>2. /\ OfClients' /\ races' = races /\ pc'[c] = "idle"
        /\ \A o \in Clients \ {c} : pc'[o] = pc[o] /\ arg'[o] = arg[o]
    BY <2>1, <1>a, Ending
  <2> SUFFICES ASSUME "names" \notin races PROVE (Distinct /\ OneNames /\ StillFree)'
    BY <2>2 DEF NamesInv
  <2>3. Distinct /\ OneNames /\ \A x \in DOMAIN sites : sites[x] # Trim[arg[c]]
    BY <2>1 DEF NamesInv, StillFree
  <2>4. \A o \in Clients : pc'[o] \notin NamesSites
    BY <2>1, <2>2, <2>3 DEF OneNames, NamesSites
  <2>5. Distinct'
    BY <2>1, <2>3 DEF Distinct
  <2> QED BY <2>4, <2>5 DEF OneNames, StillFree, NamesSites
<1>4. ASSUME NEW c \in Clients, RenameSite(c) PROVE NamesInv'
  <2>1. /\ pc[c] = "rename_site" /\ Done(c)
        /\ sites' = [s \in DOMAIN sites |-> IF s = arg[c].s THEN arg[c].n ELSE sites[s]]
    BY <1>4 DEF RenameSite
  <2>2. /\ OfClients' /\ races' = races /\ pc'[c] = "idle"
        /\ \A o \in Clients \ {c} : pc'[o] = pc[o] /\ arg'[o] = arg[o]
    BY <2>1, <1>a, Ending
  <2> SUFFICES ASSUME "names" \notin races PROVE (Distinct /\ OneNames /\ StillFree)'
    BY <2>2 DEF NamesInv
  <2>3. Distinct /\ OneNames /\ \A x \in DOMAIN sites \ {arg[c].s} : sites[x] # Trim[arg[c].n]
    BY <2>1 DEF NamesInv, StillFree
  <2>4. \A o \in Clients : pc'[o] \notin NamesSites
    BY <2>1, <2>2, <2>3 DEF OneNames, NamesSites
  <2>5. Distinct'
    BY <2>1, <2>3 DEF Distinct
  <2> QED BY <2>4, <2>5 DEF OneNames, StillFree, NamesSites
\* The other requests hold no name of a site, and the sites stay or go.
<1>5. ASSUME NEW c \in Clients, NEW l, NEW a, Hold(c, l, a), UNCHANGED sites, l \notin NamesSites PROVE NamesInv'
  <2>1. /\ OfClients' /\ pc'[c] = l
        /\ \A o \in Clients \ {c} : pc'[o] = pc[o] /\ arg'[o] = arg[o]
        /\ "names" \notin races' => "names" \notin races
    BY <1>5, <1>a, Holding
  <2> QED BY <2>1, <1>5, Fewer
<1>6. ASSUME NEW c \in Clients, Done(c), UNCHANGED sites PROVE NamesInv'
  <2>1. /\ OfClients' /\ races' = races /\ pc'[c] = "idle"
        /\ \A o \in Clients \ {c} : pc'[o] = pc[o] /\ arg'[o] = arg[o]
    BY <1>6, <1>a, Ending
  <2> QED BY <2>1, <1>6, Fewer DEF NamesSites
<1>7. ASSUME UNCHANGED <<pc, arg, races>>, DOMAIN sites' \subseteq DOMAIN sites, \A x \in DOMAIN sites' : sites'[x] = sites[x]
      PROVE  NamesInv'
  <2>1. OfClients'
    BY <1>7, <1>a DEF OfClients
  <2> QED BY <2>1, <1>7, Fewer
<1>8. ASSUME NEW s, DeleteSite(s) PROVE NamesInv'
  <2>1. sites' = WithoutSite(db, s).sites /\ UNCHANGED <<pc, arg, races>>
    BY <1>8 DEF DeleteSite, AtOnce, Becomes
  <2>2. WithoutSite(db, s).sites = [x \in DOMAIN sites \ {s} |-> sites[x]]
    BY DEF WithoutSite, WithoutEquipment, Only, db
  <2> QED BY <2>1, <2>2, <1>7
<1>9. ASSUME NEW e, DeleteEquipment(e) PROVE NamesInv'
  <2>1. sites' = WithoutEquipment(db, {e}).sites /\ UNCHANGED <<pc, arg, races>>
    BY <1>9 DEF DeleteEquipment, AtOnce, Becomes
  <2>2. WithoutEquipment(db, {e}).sites = sites
    BY DEF WithoutEquipment, db
  <2> QED BY <2>1, <2>2, <1>7
<1>10. ASSUME NEW p, NEW b, UpdatePoint(p, b) PROVE NamesInv'
  <2>1. PICK d \in StorePoint(db, p, Updated(points[p], b)) : sites' = d.sites
    BY <1>10 DEF UpdatePoint, Becomes
  <2>2. d.sites = sites
    BY <2>1 DEF StorePoint, db
  <2> QED BY <1>10, <2>1, <2>2, <1>7 DEF UpdatePoint, AtOnce
<1>11. ASSUME NEW p, DeletePoint(p) \/ Discover(p) PROVE NamesInv'
  BY <1>11, <1>7 DEF DeletePoint, Discover, AtOnce, rows
<1>12. ASSUME NEW c \in Clients, NEW e, CreateEquipment(c, e) PROVE NamesInv'
  BY <1>12, <1>5 DEF CreateEquipment, Start, rows, NamesSites
<1>13. ASSUME NEW c \in Clients, NEW e, NEW b, UpdateEquipment(c, e, b) PROVE NamesInv'
  <2>1. Hold(c, "patch_equipment", [e |-> e, b |-> b, base |-> {}]) /\ UNCHANGED sites
    BY <1>13 DEF UpdateEquipment, Start, rows
  <2> QED BY <2>1, <1>5 DEF NamesSites
<1>14. ASSUME NEW c \in Clients, NEW p, CreatePoint(c, p) PROVE NamesInv'
  BY <1>14, <1>5 DEF CreatePoint, Start, rows, NamesSites
<1>15. ASSUME NEW c \in Clients, NEW f, NEW t, HoldTemplate(c, f, t) PROVE NamesInv'
  <2>1. PICK b : Start(c, "holds", Tagged(b, t))
    BY <1>15 DEF HoldTemplate
  <2>2. Hold(c, "holds", Tagged(b, t)) /\ UNCHANGED sites
    BY <2>1 DEF Start, rows
  <2> QED BY <2>2, <1>5 DEF NamesSites
<1>16. ASSUME NEW c \in Clients, NEW body, SendBody(c, body) PROVE NamesInv'
  BY <1>16, <1>5 DEF SendBody, Start, rows, NamesSites
<1>17. ASSUME NEW c \in Clients, ReadMetadata(c) PROVE NamesInv'
  <2>1. UNCHANGED sites /\ \E a : Hold(c, "update_equipment", a)
    BY <1>17 DEF ReadMetadata, rows
  <2> QED BY <2>1, <1>5 DEF NamesSites
<1>18. ASSUME NEW c \in Clients, SendTemplate(c) PROVE NamesInv'
  <2>1. UNCHANGED sites /\ (Done(c) \/ Hold(c, "import", Sent(arg[c])))
    BY <1>18 DEF SendTemplate, rows
  <2> QED BY <2>1, <1>5, <1>6 DEF NamesSites
<1>19. ASSUME NEW c \in Clients, InsertEquipment(c) PROVE NamesInv'
  <2>1. NewId(db, arg[c], "equip").sites = sites
    BY DEF NewId, db
  <2> QED BY <1>19, <2>1, <1>6 DEF InsertEquipment, Becomes, rows
<1>20. ASSUME NEW c \in Clients, InsertPoint(c) PROVE NamesInv'
  <2>1. NewId(db, arg[c], "points").sites = sites
    BY DEF NewId, db
  <2> QED BY <1>20, <2>1, <1>6 DEF InsertPoint, Becomes, rows
<1>21. ASSUME NEW c \in Clients, StoreEquipment(c) \/ CommitImport(c) \/ RejectImport(c) PROVE NamesInv'
  BY <1>21, <1>6 DEF StoreEquipment, CommitImport, RejectImport, rows
<1>22. CASE UNCHANGED vars
  BY <1>22, <1>7 DEF vars, rows
<1>23. ASSUME NEW c \in Clients, Reset(c) PROVE NamesInv'
  BY <1>23, <1>5 DEF Reset, Start, rows, NamesSites
<1>24. ASSUME NEW c \in Clients, ClearModel(c) PROVE NamesInv'
  <2>1. Hold(c, "reset", Null) /\ DOMAIN sites' = {}
    BY <1>24 DEF ClearModel, Becomes, Emptied, Only, db
  <2>2. /\ OfClients' /\ pc'[c] = "reset"
        /\ \A o \in Clients \ {c} : pc'[o] = pc[o] /\ arg'[o] = arg[o]
        /\ "names" \notin races' => "names" \notin races
    BY <2>1, <1>a, Holding
  <2> QED BY <2>1, <2>2, Fewer DEF NamesSites
<1>25. ASSUME NEW c \in Clients, ResetGraph(c) PROVE NamesInv'
  <2>1. /\ OfClients' /\ UNCHANGED <<sites, races>> /\ pc'[c] = "idle"
        /\ \A o \in Clients \ {c} : pc'[o] = pc[o] /\ arg'[o] = arg[o]
    BY <1>25, <1>a, Resetting DEF ResetGraph, rows
  <2> QED BY <2>1, Fewer DEF NamesSites
<1> QED BY <1>1, <1>2, <1>3, <1>4, <1>8, <1>9, <1>10, <1>11, <1>12, <1>13, <1>14, <1>15, <1>16, <1>17,
          <1>18, <1>19, <1>20, <1>21, <1>22, <1>23, <1>24, <1>25 DEF Next

\* Two sites share a name, as typed without blanks, only after two requests were
\* between their check and their write at once; whatever imports, cascades and
\* the drivers' resolve_site_uuid do.
THEOREM NamesUnique == Spec => []SiteNamesUnique
<1>1. NamesInv => SiteNamesUnique
  BY DEF NamesInv, SiteNamesUnique, Distinct
<1> QED BY <1>1, NamesInit, NamesStep, PTL DEF Spec

------------------------------------------------------------------------------
\* What the requests do to a database.

\* e is d with rows added: ids of new equipment are new, old equipment keeps its
\* site and name.
Grown(d, e) ==
  /\ e.sites = d.sites /\ d.fresh <= e.fresh
  /\ \A x \in DOMAIN d.equip : /\ x \in DOMAIN e.equip
                               /\ e.equip[x].site = d.equip[x].site /\ e.equip[x].name = d.equip[x].name
  /\ \A x \in DOMAIN e.equip : x \notin DOMAIN d.equip => x >= d.fresh
\* Metadata are not lost.
KeepsMeta(d, e) == \A x \in DOMAIN d.equip : d.equip[x].meta \subseteq e.equip[x].meta
SameMeta(d, e) == \A x \in DOMAIN d.equip : e.equip[x].meta = d.equip[x].meta
\* What a row of points does.
Safe(d, e) == Fits(e) /\ Grown(d, e) /\ SameMeta(d, e)

LEMMA SafeAlready ==
  ASSUME NEW d, Fits(d)
  PROVE  Safe(d, d)
  BY DEF Safe, Grown, SameMeta, Fits

LEMMA GrownTwice ==
  ASSUME NEW d, NEW e, NEW f, Fits(d), Fits(e), Fits(f), Grown(d, e), Grown(e, f)
  PROVE  Grown(d, f)
  BY DEF Grown, Fits

LEMMA SafeTwice ==
  ASSUME NEW d, NEW e, NEW f, Fits(d), Safe(d, e), Safe(e, f)
  PROVE  Safe(d, f)
  <1>1. Grown(d, f)
    BY GrownTwice DEF Safe
  <1>2. SameMeta(d, f)
    BY DEF Safe, SameMeta, Grown
  <1> QED BY <1>1, <1>2 DEF Safe

LEMMA KeptTwice ==
  ASSUME NEW d, NEW e, NEW f, Grown(d, e)
  PROVE  /\ SameMeta(d, e) => KeepsMeta(d, e)
         /\ SameMeta(d, e) /\ SameMeta(e, f) => SameMeta(d, f)
         /\ KeepsMeta(d, e) /\ KeepsMeta(e, f) => KeepsMeta(d, f)
  BY DEF SameMeta, KeepsMeta, Grown

\* An id that was never used, and the equipment or point that gets it.
LEMMA NewUnitIs ==
  ASSUME NEW d, Fits(d), NEW row
  PROVE  LET e == NewId(d, row, "equip") IN
         /\ DOMAIN e = {"sites", "equip", "points", "fresh"}
         /\ e.sites = d.sites /\ e.points = d.points /\ e.fresh = d.fresh + 1
         /\ DOMAIN e.equip = DOMAIN d.equip \cup {d.fresh}
         /\ e.equip[d.fresh] = row
         /\ \A x \in DOMAIN d.equip : e.equip[x] = d.equip[x] /\ x # d.fresh
  BY DEF NewId, Fits

LEMMA NewPointIs ==
  ASSUME NEW d, Fits(d), NEW row
  PROVE  LET e == NewId(d, row, "points") IN
         /\ DOMAIN e = {"sites", "equip", "points", "fresh"}
         /\ e.sites = d.sites /\ e.equip = d.equip /\ e.fresh = d.fresh + 1
         /\ DOMAIN e.points = DOMAIN d.points \cup {d.fresh}
         /\ e.points[d.fresh] = row
         /\ \A x \in DOMAIN d.points : e.points[x] = d.points[x] /\ x # d.fresh
  BY DEF NewId, Fits

LEMMA NextId ==
  ASSUME NEW n \in Nat \ {0}, NEW S, NEW T, NEW U, S \cup T \cup U \subseteq 1..(n - 1)
  PROVE  /\ n + 1 \in Nat \ {0}
         /\ (S \cup {n}) \cup T \cup U \subseteq 1..((n + 1) - 1)
         /\ S \cup (T \cup {n}) \cup U \subseteq 1..((n + 1) - 1)
         /\ S \cup T \cup (U \cup {n}) \subseteq 1..((n + 1) - 1)
  <1>1. n + 1 \in Nat \ {0} /\ n \in 1..((n + 1) - 1)
    OBVIOUS
  <1>2. \A x \in S \cup T \cup U : x \in 1..((n + 1) - 1)
    OBVIOUS
  <1> QED BY <1>1, <1>2

\* Points fit as long as their site and equipment stay and their keys differ.
LEMMA PointsStillFit ==
  ASSUME NEW d, NEW e, e.points = d.points, DOMAIN d.sites \subseteq DOMAIN e.sites,
         DOMAIN d.equip \subseteq DOMAIN e.equip, NEW p, NEW x, PointFits(d, p, x)
  PROVE  PointFits(e, p, x)
  BY DEF PointFits, TakenBy

LEMMA NewUnitFits ==
  ASSUME NEW d, Fits(d), NEW row, EquipmentFits(d, d.fresh, row), EquipmentRow(row)
  PROVE  Safe(d, NewId(d, row, "equip"))
  <1> DEFINE e == NewId(d, row, "equip")
  <1>1. /\ DOMAIN e = {"sites", "equip", "points", "fresh"}
        /\ e.sites = d.sites /\ e.points = d.points /\ e.fresh = d.fresh + 1
        /\ DOMAIN e.equip = DOMAIN d.equip \cup {d.fresh}
        /\ e.equip[d.fresh] = row
        /\ \A x \in DOMAIN d.equip : e.equip[x] = d.equip[x] /\ x # d.fresh
    BY NewUnitIs
  <1> HIDE DEF e
  <1>2. d.fresh \in Nat \ {0} /\ DOMAIN d.sites \cup DOMAIN d.equip \cup DOMAIN d.points \subseteq 1..(d.fresh - 1)
    BY DEF Fits
  <1>3. ASSUME NEW x \in DOMAIN e.equip
        PROVE  EquipmentFits(e, x, e.equip[x]) /\ EquipmentRow(e.equip[x])
    <2>1. CASE x = d.fresh
      BY <1>1, <2>1 DEF EquipmentFits
    <2>2. CASE x \in DOMAIN d.equip
      <3>1. EquipmentFits(d, x, d.equip[x]) /\ EquipmentRow(d.equip[x])
        BY <2>2 DEF Fits
      <3>2. ~ (row.site = d.equip[x].site /\ row.name = d.equip[x].name)
        BY <1>1, <2>2 DEF EquipmentFits
      <3> QED BY <1>1, <2>2, <3>1, <3>2 DEF EquipmentFits
    <2> QED BY <1>1, <2>1, <2>2
  <1>4. \A p \in DOMAIN e.points : PointFits(e, p, e.points[p])
    BY <1>1, PointsStillFit DEF Fits
  <1>5. e.sites \in [DOMAIN e.sites -> Names]
    BY <1>1 DEF Fits
  <1>6. DOMAIN e.sites \cup DOMAIN e.equip \cup DOMAIN e.points \subseteq 1..(e.fresh - 1) /\ e.fresh \in Nat \ {0}
    BY <1>1, <1>2, NextId
  <1>7. Fits(e)
    BY <1>1, <1>3, <1>4, <1>5, <1>6 DEF Fits
  <1>8. Grown(d, e) /\ SameMeta(d, e)
    BY <1>1, <1>2 DEF Grown, SameMeta
  <1> QED BY <1>7, <1>8 DEF Safe, e

LEMMA NewPointFits ==
  ASSUME NEW d, Fits(d), NEW row, PointFits(d, d.fresh, row)
  PROVE  Safe(d, NewId(d, row, "points"))
  <1> DEFINE e == NewId(d, row, "points")
  <1>1. /\ DOMAIN e = {"sites", "equip", "points", "fresh"}
        /\ e.sites = d.sites /\ e.equip = d.equip /\ e.fresh = d.fresh + 1
        /\ DOMAIN e.points = DOMAIN d.points \cup {d.fresh}
        /\ e.points[d.fresh] = row
        /\ \A x \in DOMAIN d.points : e.points[x] = d.points[x] /\ x # d.fresh
    BY NewPointIs
  <1> HIDE DEF e
  <1>2. d.fresh \in Nat \ {0} /\ DOMAIN d.sites \cup DOMAIN d.equip \cup DOMAIN d.points \subseteq 1..(d.fresh - 1)
    BY DEF Fits
  <1>3. \A x \in DOMAIN e.equip : EquipmentFits(e, x, e.equip[x]) /\ EquipmentRow(e.equip[x])
    BY <1>1 DEF Fits, EquipmentFits
  <1>4. ASSUME NEW p \in DOMAIN e.points PROVE PointFits(e, p, e.points[p])
    <2>1. CASE p = d.fresh
      BY <1>1, <2>1 DEF PointFits, TakenBy
    <2>2. CASE p \in DOMAIN d.points
      <3>1. PointFits(d, p, d.points[p])
        BY <2>2 DEF Fits
      <3>2. ~ (row.site = d.points[p].site /\ row.ext = d.points[p].ext)
        BY <1>1, <2>2 DEF PointFits, TakenBy
      <3> QED BY <1>1, <2>2, <3>1, <3>2 DEF PointFits, TakenBy
    <2> QED BY <1>1, <2>1, <2>2
  <1>5. e.sites \in [DOMAIN e.sites -> Names]
    BY <1>1 DEF Fits
  <1>6. DOMAIN e.sites \cup DOMAIN e.equip \cup DOMAIN e.points \subseteq 1..(e.fresh - 1) /\ e.fresh \in Nat \ {0}
    BY <1>1, <1>2, NextId
  <1>7. Fits(e)
    BY <1>1, <1>3, <1>4, <1>5, <1>6 DEF Fits
  <1>8. Grown(d, e) /\ SameMeta(d, e)
    BY <1>1, <1>2 DEF Grown, SameMeta
  <1> QED BY <1>7, <1>8 DEF Safe, e

\* UPDATE of a point, when the constraints allow it.
LEMMA StoredPointFits ==
  ASSUME NEW d, Fits(d), NEW id, NEW row, NEW e \in StorePoint(d, id, row)
  PROVE  Safe(d, e) /\ e.sites = d.sites /\ e.equip = d.equip /\ e.fresh = d.fresh
  <1>1. /\ DOMAIN e = {"sites", "equip", "points", "fresh"}
        /\ e.sites = d.sites /\ e.equip = d.equip /\ e.fresh = d.fresh
        /\ DOMAIN e.points = DOMAIN d.points
        /\ \A x \in DOMAIN d.points : e.points[x] = IF x = id THEN row ELSE d.points[x]
        /\ PointFits(d, id, row)
    BY DEF StorePoint, Fits
  <1>3. \A x \in DOMAIN e.equip : EquipmentFits(e, x, e.equip[x]) /\ EquipmentRow(e.equip[x])
    BY <1>1 DEF Fits, EquipmentFits
  <1>4. ASSUME NEW p \in DOMAIN e.points PROVE PointFits(e, p, e.points[p])
    <2>1. CASE p = id
      BY <1>1, <2>1 DEF PointFits, TakenBy
    <2>2. CASE p # id
      <3>1. PointFits(d, p, d.points[p])
        BY <1>1 DEF Fits
      <3>2. ~ (row.site = d.points[p].site /\ row.ext = d.points[p].ext)
        BY <1>1, <2>2 DEF PointFits, TakenBy
      <3> QED BY <1>1, <2>2, <3>1, <3>2 DEF PointFits, TakenBy
    <2> QED BY <2>1, <2>2
  <1>7. Fits(e)
    BY <1>1, <1>3, <1>4 DEF Fits
  <1>8. Grown(d, e) /\ SameMeta(d, e)
    BY <1>1 DEF Grown, SameMeta, Fits
  <1> QED BY <1>1, <1>7, <1>8 DEF Safe

------------------------------------------------------------------------------
\* The rows of points.

\* A name is found, or a unit of that name made: other units stay as they are.
LEMMA Ensured ==
  ASSUME NEW d, Fits(d), NEW s, NEW n, NEW e \in EnsureEquipment(d, s, n)
  PROVE  /\ Safe(d, e) /\ e.points = d.points
         /\ \A x \in DOMAIN d.equip : e.equip[x] = d.equip[x]
         /\ EquipmentNamed(e, s, n) \in Named(e, s, n)
  <1>1. CASE Named(d, s, n) # {}
    <2>1. e = d
      BY <1>1 DEF EnsureEquipment
    <2> QED BY <1>1, <2>1, SafeAlready DEF EquipmentNamed
  <1>2. CASE Named(d, s, n) = {}
    <2> DEFINE row == [site |-> s, name |-> Trim[n], feeds |-> Null, fedBy |-> Null, meta |-> {}]
    <2>1. s \in DOMAIN d.sites /\ e = NewId(d, row, "equip")
      BY <1>2 DEF EnsureEquipment
    <2>2. EquipmentFits(d, d.fresh, row) /\ EquipmentRow(row)
      BY <1>2, <2>1 DEF EquipmentFits, EquipmentRow, Named
    <2>3. row.site = s /\ row.name = Trim[n]
      OBVIOUS
    <2> HIDE DEF row
    <2>4. /\ e.points = d.points /\ e.equip[d.fresh] = row /\ d.fresh \in DOMAIN e.equip
          /\ \A x \in DOMAIN d.equip : e.equip[x] = d.equip[x]
      BY <2>1, NewUnitIs
    <2>5. d.fresh \in Named(e, s, n)
      BY <2>3, <2>4 DEF Named
    <2>6. Safe(d, e)
      BY <2>1, <2>2, NewUnitFits
    <2> QED BY <2>4, <2>5, <2>6 DEF EquipmentNamed
  <1> QED BY <1>1, <1>2

LEMMA LinkedSafe ==
  ASSUME NEW d, Fits(d), NEW row, NEW s, NEW w \in Linked(d, row, s)
  PROVE  Safe(d, w[1]) /\ w[1].points = d.points
  <1>1. CASE row.equip # Null \/ row.ename = Null
    <2>1. w[1] = d
      BY <1>1 DEF Linked
    <2> QED BY <2>1, SafeAlready
  <1>2. CASE row.equip = Null /\ row.ename # Null
    <2>1. PICK e \in EnsureEquipment(d, s, row.ename) : w = <<e, EquipmentNamed(e, s, row.ename)>>
      BY <1>2 DEF Linked
    <2> QED BY <2>1, Ensured
  <1> QED BY <1>1, <1>2

LEMMA UpsertSafe ==
  ASSUME NEW d, Fits(d), NEW row, NEW s, NEW e, NEW f \in Upsert(d, row, s, e)
  PROVE  Safe(d, f)
  <1>1. CASE TakenBy(d, s, row.ext) = {}
    <2>1. PointFits(d, d.fresh, Created(row, s, e)) /\ f = NewId(d, Created(row, s, e), "points")
      BY <1>1 DEF Upsert
    <2> QED BY <2>1, NewPointFits
  <1>2. CASE TakenBy(d, s, row.ext) # {}
    <2>1. PICK p, q : f \in StorePoint(d, p, q)
      BY <1>2 DEF Upsert
    <2> QED BY <2>1, StoredPointFits
  <1> QED BY <1>1, <1>2

LEMMA ByIdentitySafe ==
  ASSUME NEW d, Fits(d), NEW row, NEW fallback, NEW f \in ByIdentity(d, row, fallback)
  PROVE  Safe(d, f)
  <1>1. PICK s : \E w \in Linked(d, row, s) : f \in Upsert(w[1], row, s, w[2])
    BY DEF ByIdentity
  <1>2. PICK w \in Linked(d, row, s) : f \in Upsert(w[1], row, s, w[2])
    BY <1>1
  <1>3. Safe(d, w[1])
    BY LinkedSafe
  <1>4. Safe(w[1], f)
    BY <1>2, <1>3, UpsertSafe DEF Safe
  <1> QED BY <1>3, <1>4, SafeTwice

LEMMA ByIdSafe ==
  ASSUME NEW d, Fits(d), NEW row, NEW fallback, NEW f \in ById(d, row, fallback)
  PROVE  Safe(d, f)
  <1>1. PICK s : \E w \in IF s = Null /\ row.equip = Null THEN {<<d, Null>>} ELSE Linked(d, row, s) :
                   f \in IF ~ Says(row, w[2]) THEN {w[1]}
                         ELSE IF row.pid \in DOMAIN d.points
                              THEN StorePoint(w[1], row.pid, Changed(d.points[row.pid], row, w[2]))
                              ELSE ByIdentity(w[1], row, fallback)
    BY DEF ById
  <1>2. PICK w \in IF s = Null /\ row.equip = Null THEN {<<d, Null>>} ELSE Linked(d, row, s) :
               f \in IF ~ Says(row, w[2]) THEN {w[1]}
                     ELSE IF row.pid \in DOMAIN d.points
                          THEN StorePoint(w[1], row.pid, Changed(d.points[row.pid], row, w[2]))
                          ELSE ByIdentity(w[1], row, fallback)
    BY <1>1
  <1>3. Safe(d, w[1])
    BY LinkedSafe, SafeAlready
  <1>4. Fits(w[1])
    BY <1>3 DEF Safe
  <1>5. f = w[1] \/ f \in StorePoint(w[1], row.pid, Changed(d.points[row.pid], row, w[2]))
          \/ f \in ByIdentity(w[1], row, fallback)
    BY <1>2
  <1>6. Safe(w[1], f)
    BY <1>4, <1>5, SafeAlready, StoredPointFits, ByIdentitySafe
  <1> QED BY <1>3, <1>6, SafeTwice

LEMMA ImportPointSafe ==
  ASSUME NEW d, Fits(d), NEW row, NEW fallback, NEW f \in ImportPoint(d, row, fallback)
  PROVE  Safe(d, f)
  BY ByIdSafe, ByIdentitySafe DEF ImportPoint

------------------------------------------------------------------------------
\* The rows of equipment.

\* What an import read still holds of the units there are.
ReadKeys(seen) == \A x \in DOMAIN seen : seen[x] \subseteq Keys
Unread(before, seen) == \A x \in DOMAIN seen \cap DOMAIN before : seen[x] = before[x].meta

\* Only one unit's metadata change, to the row's on one of the bases.
Rewritten(d, f, id, row, bases) ==
  /\ \A x \in DOMAIN d.equip : x # id => f.equip[x] = d.equip[x]
  /\ \E base \in bases : f.equip[id].meta = IF row.meta = {} THEN d.equip[id].meta ELSE base \cup row.meta

LEMMA LinksUpdated ==
  ASSUME NEW d, Fits(d), NEW id \in DOMAIN d.equip, NEW row, NEW s, NEW seen, NEW before,
         NEW f \in UpdateLinks(d, id, row, s, seen, before), EquipmentFits(f, id, f.equip[id]),
         row.meta \subseteq Keys, ReadKeys(seen)
  PROVE  Fits(f) /\ Grown(d, f) /\ Rewritten(d, f, id, row, Bases(d, id, row, seen, before))
  <1>1. PICK l \in LinkTo(d, s, row.feeds), b \in LinkTo(d, s, row.fedBy), base \in Bases(d, id, row, seen, before) :
          f = Relinked(d, id, row, l, b, base)
    BY DEF UpdateLinks
  <1> DEFINE old == d.equip[id]
             new == f.equip[id]
  <1>2. EquipmentFits(d, id, old) /\ EquipmentRow(old)
    BY DEF Fits
  <1>3. /\ DOMAIN f = {"sites", "equip", "points", "fresh"}
        /\ f.sites = d.sites /\ f.points = d.points /\ f.fresh = d.fresh
        /\ DOMAIN f.equip = DOMAIN d.equip
        /\ \A x \in DOMAIN d.equip : x # id => f.equip[x] = d.equip[x]
    BY <1>1 DEF Relinked, Fits
  <1>4. /\ DOMAIN new = DOMAIN old /\ new.site = old.site /\ new.name = old.name
        /\ new.meta = IF row.meta = {} THEN old.meta ELSE base \cup row.meta
    BY <1>1, <1>2 DEF Relinked, Fits, EquipmentRow, Merge
  <1>5. old.meta \subseteq Keys /\ base \subseteq Keys
    BY <1>2 DEF Bases, EquipmentRow, ReadKeys
  <1>6. EquipmentRow(new)
    BY <1>2, <1>4, <1>5 DEF EquipmentRow
  <1> HIDE DEF old, new
  <1>7. ASSUME NEW x \in DOMAIN f.equip PROVE EquipmentFits(f, x, f.equip[x]) /\ EquipmentRow(f.equip[x])
    <2>1. CASE x = id
      BY <1>6, <2>1 DEF new
    <2>2. CASE x # id
      <3>1. EquipmentFits(d, x, d.equip[x]) /\ EquipmentRow(d.equip[x])
        BY <1>3 DEF Fits
      <3>2. \A y \in DOMAIN f.equip : f.equip[y].site = d.equip[y].site /\ f.equip[y].name = d.equip[y].name
        BY <1>3, <1>4 DEF old, new
      <3> QED BY <1>3, <2>2, <3>1, <3>2 DEF EquipmentFits
    <2> QED BY <2>1, <2>2
  <1>8. \A p \in DOMAIN f.points : PointFits(f, p, f.points[p])
    BY <1>3, PointsStillFit DEF Fits
  <1>9. f.sites \in [DOMAIN f.sites -> Names]
    BY <1>3 DEF Fits
  <1>10. DOMAIN f.sites \cup DOMAIN f.equip \cup DOMAIN f.points \subseteq 1..(f.fresh - 1) /\ f.fresh \in Nat \ {0}
    BY <1>3 DEF Fits
  <1>11. Fits(f)
    BY <1>3, <1>7, <1>8, <1>9, <1>10 DEF Fits
  <1>12. Grown(d, f)
    BY <1>3, <1>4, <1>10 DEF Grown, old, new
  <1> QED BY <1>3, <1>4, <1>11, <1>12 DEF old, new, Rewritten

\* The unit a row of equipment is about, and whether it has the row's metadata.
About(d, row, s, x) == row.eid = x \/ (row.eid = Null /\ row.name # Null /\ x \in Named(d, s, row.name))
Applied(d, row, s) ==
  /\ \A x \in DOMAIN d.equip : About(d, row, s, x) => row.meta \subseteq d.equip[x].meta
  /\ row.eid = Null /\ row.name # Null /\ s # Null => Named(d, s, row.name) # {}
\* A row stores metadata only onto what is there.
Fresh(row, seen, before) == row.meta = {} \/ Unread(before, seen)

\* Names are unique in a site.
LEMMA NamedUnique ==
  ASSUME NEW d, Fits(d), NEW s, NEW n, NEW x \in Named(d, s, n), NEW y \in Named(d, s, n)
  PROVE  x = y
  BY DEF Fits, EquipmentFits, Named

LEMMA NoSiteNull == ASSUME NEW d, Fits(d), NEW n PROVE Named(d, Null, n) = {}
  BY NullIsNoId DEF Fits, EquipmentFits, Named

LEMMA ImportEquipmentGrows ==
  ASSUME NEW d, Fits(d), NEW row, NEW fallback, NEW seen, NEW before,
         row.meta \subseteq Keys, ReadKeys(seen),
         NEW f \in ImportEquipment(d, row, fallback, seen, before)
  PROVE  /\ Fits(f) /\ Grown(d, f)
         /\ Fresh(row, seen, before) => KeepsMeta(d, f) /\ Applied(f, row, Pick(row.site, fallback))
         /\ row.meta = {} => SameMeta(d, f)
  <1> DEFINE s == Pick(row.site, fallback)
             Apply(e, id) ==
               IF ~ Parses(s) \/ LinkTo(e, s, row.feeds) = {} \/ LinkTo(e, s, row.fedBy) = {} THEN {}
               ELSE IF id \notin DOMAIN e.equip THEN {e}
               ELSE {g \in UpdateLinks(e, id, row, s, seen, before) : EquipmentFits(g, id, g.equip[id])}
  <1>1. ASSUME NEW e, Fits(e), NEW id, NEW g \in Apply(e, id)
        PROVE  /\ Fits(g) /\ Grown(e, g)
               /\ Fresh(row, seen, before) =>
                    KeepsMeta(e, g) /\ (id \in DOMAIN g.equip => row.meta \subseteq g.equip[id].meta)
               /\ row.meta = {} => SameMeta(e, g)
    <2>1. CASE id \notin DOMAIN e.equip
      <3>1. g = e
        BY <1>1, <2>1
      <3>2. Safe(e, e)
        BY <1>1, SafeAlready
      <3> QED BY <2>1, <3>1, <3>2, KeptTwice DEF Safe
    <2>2. CASE id \in DOMAIN e.equip
      <3>1. g \in UpdateLinks(e, id, row, s, seen, before) /\ EquipmentFits(g, id, g.equip[id])
        BY <1>1, <2>2
      <3> HIDE DEF s, Apply
      <3>2. Fits(g) /\ Grown(e, g) /\ Rewritten(e, g, id, row, Bases(e, id, row, seen, before))
        <4>1. Fits(e)
          BY <1>1
        <4> QED BY <2>2, <3>1, <4>1, LinksUpdated
      <3>3. ASSUME Unread(before, seen) PROVE Bases(e, id, row, seen, before) \subseteq {e.equip[id].meta}
        BY <3>3 DEF Bases, Unread
      <3>4. ASSUME Fresh(row, seen, before)
            PROVE  e.equip[id].meta \subseteq g.equip[id].meta /\ row.meta \subseteq g.equip[id].meta
        BY <3>2, <3>3, <3>4 DEF Fresh, Rewritten
      <3> QED BY <2>2, <3>2, <3>4 DEF KeepsMeta, SameMeta, Rewritten
    <2> QED BY <2>1, <2>2
  <1>2. CASE row.eid # Null
    <2>1. f \in Apply(d, row.eid)
      BY <1>2 DEF ImportEquipment
    <2> HIDE DEF s, Apply
    <2>2. /\ Fits(f) /\ Grown(d, f)
          /\ Fresh(row, seen, before) =>
               KeepsMeta(d, f) /\ (row.eid \in DOMAIN f.equip => row.meta \subseteq f.equip[row.eid].meta)
          /\ row.meta = {} => SameMeta(d, f)
      BY <1>1, <2>1
    <2> QED BY <1>2, <2>2 DEF Applied, About
  <1>3. CASE row.eid = Null /\ (row.name = Null \/ s = Null)
    <2>1. f = d
      BY <1>3 DEF ImportEquipment
    <2>2. \A x \in DOMAIN d.equip : ~ About(d, row, s, x)
      BY <1>3, NullIsNoId, NoSiteNull DEF About, Fits
    <2>3. Safe(d, d)
      BY SafeAlready
    <2> QED BY <1>3, <2>1, <2>2, <2>3, KeptTwice DEF Safe, Applied
  <1>4. CASE row.eid = Null /\ row.name # Null /\ s # Null
    <2>1. PICK e \in EnsureEquipment(d, s, row.name) : f \in Apply(e, EquipmentNamed(e, s, row.name))
      BY <1>4 DEF ImportEquipment
    <2> DEFINE id == EquipmentNamed(e, s, row.name)
    <2>2. Safe(d, e) /\ id \in Named(e, s, row.name)
      BY Ensured
    <2>3. Fits(e)
      BY <2>2 DEF Safe
    <2> HIDE DEF s, Apply, id
    <2>4. /\ Fits(f) /\ Grown(e, f)
          /\ Fresh(row, seen, before) =>
               KeepsMeta(e, f) /\ (id \in DOMAIN f.equip => row.meta \subseteq f.equip[id].meta)
          /\ row.meta = {} => SameMeta(e, f)
      BY <1>1, <2>1, <2>3 DEF id
    <2>5. Grown(d, f)
      BY <2>2, <2>3, <2>4, GrownTwice DEF Safe
    <2>6. id \in Named(f, s, row.name)
      BY <2>2, <2>4 DEF Named, Grown
    <2>7. ASSUME Fresh(row, seen, before) PROVE KeepsMeta(d, f) /\ Applied(f, row, s)
      <3>1. KeepsMeta(e, f)
        BY <2>4, <2>7
      <3>2. KeepsMeta(d, f)
        BY <2>2, <3>1, KeptTwice DEF Safe
      <3>3. ASSUME NEW x \in DOMAIN f.equip, About(f, row, s, x) PROVE row.meta \subseteq f.equip[x].meta
        <4>1. x \in Named(f, s, row.name)
          BY <1>4, <3>3, NullIsNoId, <2>4 DEF About, Fits
        <4>2. x = id
          BY <2>4, <2>6, <4>1, NamedUnique
        <4> QED BY <2>4, <2>7, <4>2
      <3> QED BY <2>6, <3>2, <3>3 DEF Applied
    <2>8. row.meta = {} => SameMeta(d, f)
      BY <2>2, <2>4, KeptTwice DEF Safe
    <2> QED BY <2>4, <2>5, <2>7, <2>8 DEF s
  <1> QED BY <1>2, <1>3, <1>4

------------------------------------------------------------------------------
\* Lists of rows.

\* A function over 0..n defined by recursion is there.
\* Induction over numbers, for a set of them.
LEMMA UpTo ==
  ASSUME NEW n \in Nat, NEW Good, 0 \in Good, \A i \in 1..n : i - 1 \in Good => i \in Good
  PROVE  n \in Good
<1> DEFINE Bad == (0..n) \ Good
<1>1. ASSUME Bad # {} PROVE FALSE
  <2>1. Bad \subseteq Nat
    OBVIOUS
  <2>2. PICK m \in Bad : \A k \in Bad : ~ (<<k, m>> \in OpToRel(<, Nat))
    BY <1>1, <2>1, WFMin, NatLessThanWellFounded, Zenon
  <2>3. m \in 1..n /\ m - 1 \in 0..n /\ m - 1 \in Nat /\ m \in Nat /\ m \notin Good
    OBVIOUS
  <2>4. m - 1 \in Bad
    BY <2>3
  <2>5. ~ (<<m - 1, m>> \in OpToRel(<, Nat))
    BY <2>2, <2>4
  <2> QED BY <2>3, <2>5 DEF OpToRel
<1>2. n \in 0..n
  OBVIOUS
<1> QED BY <1>1, <1>2

Listing(f, S, n) ==
  f = [i \in 0..n |-> IF i = 0 THEN <<>>
                     ELSE IF Objects[i] \in S THEN Append(f[i - 1], Objects[i]) ELSE f[i - 1]]
LEMMA ListingExists ==
  ASSUME NEW S, NEW n \in Nat
  PROVE  \E f : Listing(f, S, n)
  <1> DEFINE Bad == {m \in Nat : ~ \E f : Listing(f, S, m)}
  <1>1. ASSUME Bad # {} PROVE FALSE
    <2>1. PICK m \in Bad : \A k \in Bad : ~ (<<k, m>> \in OpToRel(<, Nat))
      BY <1>1, WFMin, NatLessThanWellFounded, Zenon
    <2>2. CASE m = 0
      <3> DEFINE f == [i \in 0..0 |-> <<>>]
      <3>1. Listing(f, S, 0)
        BY DEF Listing
      <3> HIDE DEF f
      <3> QED BY <2>1, <2>2, <3>1
    <2>3. CASE m # 0
      <3>1. m - 1 \in Nat /\ m \in Nat
        BY <2>3
      <3>2. m - 1 \notin Bad
        <4>1. ASSUME m - 1 \in Bad PROVE FALSE
          <5>1. ~ (<<m - 1, m>> \in OpToRel(<, Nat))
            BY <2>1, <4>1
          <5> QED BY <3>1, <5>1 DEF OpToRel
        <4> QED BY <4>1
      <3>3. PICK f : Listing(f, S, m - 1)
        BY <3>1, <3>2
      <3> DEFINE new == IF Objects[m] \in S THEN Append(f[m - 1], Objects[m]) ELSE f[m - 1]
                 g == [i \in 0..m |-> IF i = m THEN new ELSE f[i]]
      <3>4. ASSUME NEW i \in 0..m
            PROVE  g[i] = IF i = 0 THEN <<>>
                          ELSE IF Objects[i] \in S THEN Append(g[i - 1], Objects[i]) ELSE g[i - 1]
        <4>1. CASE i = m
          <5>1. g[m] = new /\ g[m - 1] = f[m - 1]
            BY <3>1
          <5> QED BY <2>3, <4>1, <5>1
        <4>2. CASE i # m
          <5>1. i \in 0..(m - 1)
            BY <3>1, <4>2
          <5>2. g[i] = f[i] /\ (i # 0 => g[i - 1] = f[i - 1])
            BY <3>1, <4>2
          <5> QED BY <3>3, <5>1, <5>2 DEF Listing
        <4> QED BY <4>1, <4>2
      <3>5. g = [i \in 0..m |-> g[i]]
        OBVIOUS
      <3> HIDE DEF g
      <3>6. Listing(g, S, m)
        BY <3>4, <3>5 DEF Listing
      <3> QED BY <2>1, <3>6
    <2> QED BY <2>2, <2>3
  <1>2. n \notin Bad
    BY <1>1
  <1> QED BY <1>2

LEMMA ListedIsSeq ==
  ASSUME NEW S
  PROVE  Listed(S) \in Seq(S \cap Range(Objects))
  <1> DEFINE n == Len(Objects)
             Kept == S \cap Range(Objects)
             Until == CHOOSE f : Listing(f, S, n)
  <1>1. n \in Nat /\ \A i \in 1..n : Objects[i] \in Range(Objects)
    BY ObjectsAreListed DEF Range
  <1>2. Listed(S) = Until[n]
    BY DEF Listed, Listing
  <1>3. Listing(Until, S, n)
    <2>1. \E f : Listing(f, S, n)
      BY <1>1, ListingExists
    <2> QED BY <2>1
  <1> HIDE DEF Until, n
  <1> DEFINE Bad == {m \in 0..n : Until[m] \notin Seq(Kept)}
  <1>4. ASSUME Bad # {} PROVE FALSE
    <2>1. Bad \subseteq Nat
      BY <1>1
    <2>2. PICK m \in Bad : \A k \in Bad : ~ (<<k, m>> \in OpToRel(<, Nat))
      BY <1>4, <2>1, WFMin, NatLessThanWellFounded, Zenon
    <2>3. m \in 0..n /\ Until[m] \notin Seq(Kept)
      BY <2>2
    <2>4. m # 0
      <3>1. ASSUME m = 0 PROVE Until[m] = <<>>
        BY <1>1, <1>3, <2>3, <3>1 DEF Listing
      <3>2. <<>> \in Seq(Kept)
        OBVIOUS
      <3> QED BY <2>3, <3>1, <3>2
    <2>5. m - 1 \in 0..n /\ m - 1 \in Nat /\ m \in Nat /\ m \in 1..n
      BY <1>1, <2>3, <2>4
    <2>6. m - 1 \notin Bad
      <3>1. ASSUME m - 1 \in Bad PROVE FALSE
        <4>1. ~ (<<m - 1, m>> \in OpToRel(<, Nat))
          BY <2>2, <3>1
        <4> QED BY <2>5, <4>1 DEF OpToRel
      <3> QED BY <3>1
    <2>7. Until[m - 1] \in Seq(Kept)
      BY <2>5, <2>6
    <2>8. Until[m] = IF Objects[m] \in S THEN Append(Until[m - 1], Objects[m]) ELSE Until[m - 1]
      BY <1>3, <2>3, <2>4 DEF Listing
    <2>9. Objects[m] \in S => Objects[m] \in Kept
      BY <1>1, <2>5
    <2> HIDE DEF Bad, Kept
    <2> QED BY <2>3, <2>7, <2>8, <2>9
  <1> QED BY <1>1, <1>2, <1>4

\* Row after row: a function over 0..n again.
Running(f, d, body, fallback, seen, n) ==
  f = [i \in 0..n |-> IF i = 0 THEN {d}
                     ELSE UNION {ImportRow(x, body, i, fallback, seen, d.equip) : x \in f[i - 1]}]
LEMMA RunExists ==
  ASSUME NEW d, NEW body, NEW fallback, NEW seen, NEW n \in Nat
  PROVE  \E f : Running(f, d, body, fallback, seen, n)
  <1> DEFINE Bad == {m \in Nat : ~ \E f : Running(f, d, body, fallback, seen, m)}
  <1>1. ASSUME Bad # {} PROVE FALSE
    <2>1. PICK m \in Bad : \A k \in Bad : ~ (<<k, m>> \in OpToRel(<, Nat))
      BY <1>1, WFMin, NatLessThanWellFounded, Zenon
    <2>2. CASE m = 0
      <3> DEFINE f == [i \in 0..0 |-> {d}]
      <3>1. Running(f, d, body, fallback, seen, 0)
        BY DEF Running
      <3> HIDE DEF f
      <3> QED BY <2>1, <2>2, <3>1
    <2>3. CASE m # 0
      <3>1. m - 1 \in Nat /\ m \in Nat
        BY <2>3
      <3>2. m - 1 \notin Bad
        <4>1. ASSUME m - 1 \in Bad PROVE FALSE
          <5>1. ~ (<<m - 1, m>> \in OpToRel(<, Nat))
            BY <2>1, <4>1
          <5> QED BY <3>1, <5>1 DEF OpToRel
        <4> QED BY <4>1
      <3>3. PICK f : Running(f, d, body, fallback, seen, m - 1)
        BY <3>1, <3>2
      <3> DEFINE new == UNION {ImportRow(x, body, m, fallback, seen, d.equip) : x \in f[m - 1]}
                 g == [i \in 0..m |-> IF i = m THEN new ELSE f[i]]
      <3>4. ASSUME NEW i \in 0..m
            PROVE  g[i] = IF i = 0 THEN {d}
                          ELSE UNION {ImportRow(x, body, i, fallback, seen, d.equip) : x \in g[i - 1]}
        <4>1. CASE i = m
          <5>1. g[m] = new /\ g[m - 1] = f[m - 1]
            BY <3>1
          <5> QED BY <2>3, <4>1, <5>1
        <4>2. CASE i # m
          <5>1. i \in 0..(m - 1)
            BY <3>1, <4>2
          <5>2. g[i] = f[i] /\ (i # 0 => g[i - 1] = f[i - 1])
            BY <3>1, <4>2
          <5> QED BY <3>3, <5>1, <5>2 DEF Running
        <4> QED BY <4>1, <4>2
      <3>5. g = [i \in 0..m |-> g[i]]
        OBVIOUS
      <3> HIDE DEF g
      <3>6. Running(g, d, body, fallback, seen, m)
        BY <3>4, <3>5 DEF Running
      <3> QED BY <2>1, <3>6
    <2> QED BY <2>2, <2>3
  <1>2. n \notin Bad
    BY <1>1
  <1> QED BY <1>2

\* The databases after each row of an import.
AfterRow(S, d, body, i, known, seen) ==
  UNION {ImportRow(x, body, i, Fallback(body, known), seen, d.equip) : x \in S}
Runs(After, d, body, known, seen) ==
  /\ After[0] = {d}
  /\ \A i \in 1..RowsOf(body) : After[i] = AfterRow(After[i - 1], d, body, i, known, seen)
  /\ Import(d, body, known, seen) = After[RowsOf(body)]
LEMMA ImportRuns ==
  ASSUME NEW d, NEW body, Lists(body), NEW known, NEW seen
  PROVE  \E After : Runs(After, d, body, known, seen)
<1> DEFINE n == RowsOf(body)
           fallback == Fallback(body, known)
           After == CHOOSE f : Running(f, d, body, fallback, seen, n)
<1>1. n \in Nat
  BY DEF RowsOf, Lists
<1>2. Import(d, body, known, seen) = After[n]
  BY DEF Import, Running
<1>3. Running(After, d, body, fallback, seen, n)
  <2>1. \E f : Running(f, d, body, fallback, seen, n)
    BY <1>1, RunExists
  <2> QED BY <2>1
<1> HIDE DEF After, n, fallback
<1>4. After[0] = {d}
  BY <1>1, <1>3 DEF Running
<1>5. ASSUME NEW i \in 1..n PROVE After[i] = UNION {ImportRow(x, body, i, fallback, seen, d.equip) : x \in After[i - 1]}
  <2>1. i \in 0..n /\ i # 0
    BY <1>1
  <2> QED BY <1>3, <2>1 DEF Running
<1>6. \A i \in 1..n : After[i] = AfterRow(After[i - 1], d, body, i, known, seen)
  BY <1>5 DEF AfterRow, fallback
<1>7. Runs(After, d, body, known, seen)
  BY <1>2, <1>4, <1>6 DEF Runs, n
<1> QED BY <1>7

\* What a row stored stays, whatever the rows after it do.
LEMMA AppliedStays ==
  ASSUME NEW d, Fits(d), NEW e, Fits(e), NEW f, Fits(f), Grown(d, e), Grown(e, f), KeepsMeta(e, f),
         NEW row, NEW s, Applied(e, row, s), row.eid \in {Null} \cup 1..(d.fresh - 1)
  PROVE  Applied(f, row, s)
  <1>1. ASSUME NEW x \in Named(e, s, row.name) PROVE x \in Named(f, s, row.name)
    BY DEF Named, Grown
  <1>2. ASSUME NEW x \in DOMAIN f.equip, About(f, row, s, x) PROVE x \in DOMAIN e.equip /\ About(e, row, s, x)
    <2>1. CASE row.eid = x
      <3>1. x \in 1..(d.fresh - 1) /\ d.fresh \in Nat /\ e.fresh \in Nat /\ d.fresh <= e.fresh
        BY <2>1, NullIsNoId DEF Fits, Grown
      <3>2. ~ (x >= e.fresh)
        BY <3>1
      <3>3. x \in DOMAIN e.equip
        BY <3>2 DEF Grown
      <3> QED BY <2>1, <3>3 DEF About
    <2>2. CASE row.eid # x
      <3>1. row.eid = Null /\ row.name # Null /\ x \in Named(f, s, row.name)
        BY <1>2, <2>2 DEF About
      <3>2. s # Null
        BY <3>1, NoSiteNull
      <3>3. PICK y : y \in Named(e, s, row.name)
        BY <3>1, <3>2 DEF Applied
      <3>4. x = y
        BY <1>1, <3>1, <3>3, NamedUnique
      <3> QED BY <3>1, <3>3, <3>4 DEF About, Named
    <2> QED BY <2>1, <2>2
  <1>3. ASSUME NEW x \in DOMAIN f.equip, About(f, row, s, x) PROVE row.meta \subseteq f.equip[x].meta
    BY <1>2, <1>3 DEF Applied, KeepsMeta
  <1>4. row.eid = Null /\ row.name # Null /\ s # Null => Named(f, s, row.name) # {}
    BY <1>1 DEF Applied
  <1> QED BY <1>3, <1>4 DEF Applied

\* The sites of rows of equipment, and a body whose merges find what was read.
SiteOf(body, fallback, j) == Pick(body.equipment[j].site, fallback)
NoMeta(body) == \A j \in DOMAIN body.equipment : body.equipment[j].meta = {}
Mergeable(d, body, seen) ==
  /\ \A j \in DOMAIN body.equipment : body.equipment[j].eid \in {Null} \cup 1..(d.fresh - 1)
  /\ NoMeta(body) \/ Unread(d.equip, seen)
\* After i rows of it, d may have become e.
Reached(d, e, body, fallback, seen, i) ==
  /\ Fits(e) /\ Grown(d, e)
  /\ Mergeable(d, body, seen) =>
       /\ KeepsMeta(d, e)
       /\ \A j \in DOMAIN body.equipment :
            Len(body.points) + j <= i => Applied(e, body.equipment[j], SiteOf(body, fallback, j))
  /\ NoMeta(body) => SameMeta(d, e)
AllReached(d, S, body, fallback, seen, i) == \A x \in S : Reached(d, x, body, fallback, seen, i)

LEMMA RowReaches ==
  ASSUME NEW d, Fits(d), NEW body, Lists(body), NEW fallback, NEW seen, ReadKeys(seen),
         NEW i \in 1..RowsOf(body), NEW e, Reached(d, e, body, fallback, seen, i - 1),
         NEW f \in ImportRow(e, body, i, fallback, seen, d.equip)
  PROVE  Reached(d, f, body, fallback, seen, i)
  <1> DEFINE n == Len(body.points)
             m == Len(body.equipment)
  <1>1. Fits(e) /\ Grown(d, e) /\ n \in Nat /\ m \in Nat /\ DOMAIN body.equipment = 1..m /\ i \in 1..(n + m)
    BY DEF Reached, Lists, RowsOf
  <1>2. \A j \in DOMAIN body.equipment : body.equipment[j].meta \subseteq Keys
    BY DEF Lists
  <1>3. ASSUME Fits(f), Grown(e, f),
               Mergeable(d, body, seen) =>
                 KeepsMeta(e, f) /\ \A j \in 1..m : n + j = i => Applied(f, body.equipment[j], SiteOf(body, fallback, j)),
               NoMeta(body) => SameMeta(e, f)
        PROVE  Reached(d, f, body, fallback, seen, i)
    <2>1. Grown(d, f)
      BY <1>1, <1>3, GrownTwice
    <2>2. ASSUME Mergeable(d, body, seen)
          PROVE  /\ KeepsMeta(d, f)
                 /\ \A j \in DOMAIN body.equipment :
                      n + j <= i => Applied(f, body.equipment[j], SiteOf(body, fallback, j))
      <3>1. KeepsMeta(d, e) /\ KeepsMeta(e, f)
        BY <1>3, <2>2 DEF Reached
      <3>2. KeepsMeta(d, f) /\ KeepsMeta(e, f)
        BY <1>1, <3>1, KeptTwice
      <3>3. ASSUME NEW j \in DOMAIN body.equipment, n + j <= i
            PROVE  Applied(f, body.equipment[j], SiteOf(body, fallback, j))
        <4>1. CASE n + j = i
          BY <1>1, <1>3, <2>2, <4>1
        <4>2. CASE n + j # i
          <5>1. n + j <= i - 1
            BY <1>1, <3>3, <4>2
          <5>2. Applied(e, body.equipment[j], SiteOf(body, fallback, j))
            BY <2>2, <5>1 DEF Reached
          <5>3. body.equipment[j].eid \in {Null} \cup 1..(d.fresh - 1)
            BY <2>2 DEF Mergeable
          <5> QED BY <1>1, <1>3, <3>2, <5>2, <5>3, AppliedStays
        <4> QED BY <4>1, <4>2
      <3> QED BY <3>2, <3>3
    <2>3. NoMeta(body) => SameMeta(d, f)
      BY <1>1, <1>3, KeptTwice DEF Reached
    <2> QED BY <1>3, <2>1, <2>2, <2>3 DEF Reached
  <1>4. CASE i <= n
    <2>1. f \in ImportPoint(e, body.points[i], fallback)
      BY <1>4 DEF ImportRow
    <2>2. Safe(e, f)
      BY <1>1, <2>1, ImportPointSafe
    <2>3. \A j \in 1..m : n + j # i
      BY <1>1, <1>4
    <2> QED BY <1>3, <2>2, <2>3, KeptTwice DEF Safe
  <1>5. CASE ~ (i <= n)
    <2> DEFINE j == i - n
               row == body.equipment[j]
    <2>1. j \in 1..m /\ \A k \in 1..m : n + k = i => k = j
      <3> HIDE DEF n, m, row
      <3> QED BY <1>1, <1>5
    <2>2. f \in ImportEquipment(e, row, fallback, seen, d.equip)
      BY <1>5 DEF ImportRow
    <2>3. row.meta \subseteq Keys
      BY <1>1, <1>2, <2>1
    <2>4. Mergeable(d, body, seen) => Fresh(row, seen, d.equip)
      BY <1>1, <2>1 DEF Mergeable, NoMeta, Fresh
    <2>6. NoMeta(body) => row.meta = {}
      BY <1>1, <2>1 DEF NoMeta
    <2> HIDE DEF j, row
    <2>5. /\ Fits(f) /\ Grown(e, f)
          /\ Fresh(row, seen, d.equip) => KeepsMeta(e, f) /\ Applied(f, row, Pick(row.site, fallback))
          /\ row.meta = {} => SameMeta(e, f)
      BY <1>1, <2>2, <2>3, ImportEquipmentGrows
    <2> QED BY <1>3, <2>1, <2>4, <2>5, <2>6 DEF row, SiteOf
  <1> QED BY <1>4, <1>5

LEMMA ImportReaches ==
  ASSUME NEW d, Fits(d), NEW body, Lists(body), NEW known, NEW seen, ReadKeys(seen),
         NEW e \in Import(d, body, known, seen)
  PROVE  Reached(d, e, body, Fallback(body, known), seen, RowsOf(body))
  <1> DEFINE n == RowsOf(body)
             fallback == Fallback(body, known)
             After == CHOOSE f : Running(f, d, body, fallback, seen, n)
             Bad == {i \in 0..n : ~ AllReached(d, After[i], body, fallback, seen, i)}
  <1>1. n \in Nat
    BY DEF RowsOf, Lists
  <1>2. e \in After[n]
    BY DEF Import, Running
  <1>3. Running(After, d, body, fallback, seen, n)
    <2>1. \E f : Running(f, d, body, fallback, seen, n)
      BY <1>1, RunExists
    <2> QED BY <2>1
  <1> HIDE DEF After, n, fallback
  <1>4. ASSUME Bad # {} PROVE FALSE
    <2>1. Bad \subseteq Nat
      BY <1>1
    <2>2. PICK i \in Bad : \A k \in Bad : ~ (<<k, i>> \in OpToRel(<, Nat))
      BY <1>4, <2>1, WFMin, NatLessThanWellFounded, Zenon
    <2>3. i \in 0..n /\ i \in Nat /\ ~ AllReached(d, After[i], body, fallback, seen, i)
      BY <1>1
    <2>4. CASE i = 0
      <3>1. After[i] = {d}
        BY <1>1, <1>3, <2>3, <2>4 DEF Running
      <3>2. Grown(d, d) /\ KeepsMeta(d, d) /\ SameMeta(d, d)
        BY SafeAlready, KeptTwice DEF Safe
      <3>3. \A j \in DOMAIN body.equipment : ~ (Len(body.points) + j <= 0)
        BY DEF Lists
      <3>4. Reached(d, d, body, fallback, seen, 0)
        BY <3>2, <3>3 DEF Reached
      <3> QED BY <2>3, <2>4, <3>1, <3>4 DEF AllReached
    <2>5. CASE i # 0
      <3>1. i - 1 \in 0..n /\ i - 1 \in Nat /\ i \in 1..n
        BY <1>1, <2>3, <2>5
      <3>2. i - 1 \notin Bad
        <4>1. ASSUME i - 1 \in Bad PROVE FALSE
          <5>1. ~ (<<i - 1, i>> \in OpToRel(<, Nat))
            BY <2>2, <4>1
          <5> QED BY <2>3, <3>1, <5>1 DEF OpToRel
        <4> QED BY <4>1
      <3>3. \A x \in After[i - 1] : Reached(d, x, body, fallback, seen, i - 1)
        BY <3>1, <3>2 DEF AllReached
      <3>4. After[i] = UNION {ImportRow(x, body, i, fallback, seen, d.equip) : x \in After[i - 1]}
        BY <1>3, <2>3, <2>5 DEF Running
      <3>5. ASSUME NEW f \in After[i] PROVE Reached(d, f, body, fallback, seen, i)
        <4>1. PICK x \in After[i - 1] : f \in ImportRow(x, body, i, fallback, seen, d.equip)
          BY <3>4
        <4>2. Reached(d, x, body, fallback, seen, i - 1)
          BY <3>3
        <4> QED BY <3>1, <4>1, <4>2, RowReaches DEF n
      <3> QED BY <2>3, <3>5 DEF AllReached
    <2> QED BY <2>4, <2>5
  <1> QED BY <1>1, <1>2, <1>4 DEF n, fallback, AllReached

\* A request that goes takes rows, units and points with it.
LEMMA WithoutUnitsFits ==
  ASSUME NEW d, Fits(d), NEW gone
  PROVE  LET e == WithoutEquipment(d, gone) IN
         /\ Fits(e) /\ e.sites = d.sites /\ e.fresh = d.fresh
         /\ DOMAIN e.equip = DOMAIN d.equip \ gone
         /\ \A x \in DOMAIN e.equip : e.equip[x].meta = d.equip[x].meta /\ e.equip[x].site = d.equip[x].site
         /\ DOMAIN e.points = {p \in DOMAIN d.points : d.points[p].equip \notin gone}
         /\ \A p \in DOMAIN e.points : e.points[p] = d.points[p]
<1> DEFINE e == WithoutEquipment(d, gone)
           Link(x) == IF x \in gone THEN Null ELSE x
<1>1. /\ DOMAIN e = {"sites", "equip", "points", "fresh"} /\ e.sites = d.sites /\ e.fresh = d.fresh
      /\ e.equip = [x \in DOMAIN d.equip \ gone |-> [d.equip[x] EXCEPT !.feeds = Link(@), !.fedBy = Link(@)]]
      /\ e.points = [p \in {p \in DOMAIN d.points : d.points[p].equip \notin gone} |-> d.points[p]]
  BY DEF WithoutEquipment, Only, Fits
<1> HIDE DEF e
<1>2. ASSUME NEW x \in DOMAIN e.equip
      PROVE  /\ x \in DOMAIN d.equip /\ x \notin gone
             /\ DOMAIN e.equip[x] = DOMAIN d.equip[x]
             /\ e.equip[x].site = d.equip[x].site /\ e.equip[x].name = d.equip[x].name
             /\ e.equip[x].meta = d.equip[x].meta
             /\ e.equip[x].feeds = Link(d.equip[x].feeds) /\ e.equip[x].fedBy = Link(d.equip[x].fedBy)
  <2>1. x \in DOMAIN d.equip /\ x \notin gone
    BY <1>1
  <2>2. DOMAIN d.equip[x] = {"site", "name", "feeds", "fedBy", "meta"}
    BY <2>1 DEF Fits, EquipmentRow
  <2>3. e.equip[x] = [d.equip[x] EXCEPT !.feeds = Link(@), !.fedBy = Link(@)]
    BY <1>1, <2>1
  <2> HIDE DEF Link
  <2> QED BY <2>1, <2>2, <2>3
<1>3. ASSUME NEW x \in DOMAIN e.equip PROVE EquipmentFits(e, x, e.equip[x]) /\ EquipmentRow(e.equip[x])
  <2>1. x \in DOMAIN d.equip /\ EquipmentFits(d, x, d.equip[x]) /\ EquipmentRow(d.equip[x])
    BY <1>2 DEF Fits
  <2>2. DOMAIN e.equip = DOMAIN d.equip \ gone
    BY <1>1
  <2>3. {e.equip[x].feeds, e.equip[x].fedBy} \subseteq DOMAIN e.equip \cup {x, Null}
    BY <1>2, <2>1, <2>2 DEF EquipmentFits
  <2>4. \A y \in DOMAIN e.equip \ {x} : ~ (e.equip[y].site = e.equip[x].site /\ e.equip[y].name = e.equip[x].name)
    BY <1>2, <2>1 DEF EquipmentFits
  <2>5. e.equip[x].site \in DOMAIN e.sites
    BY <1>1, <1>2, <2>1 DEF EquipmentFits
  <2>6. EquipmentRow(e.equip[x])
    BY <1>2, <2>1 DEF EquipmentRow
  <2> QED BY <2>3, <2>4, <2>5, <2>6 DEF EquipmentFits
<1>4. ASSUME NEW p \in DOMAIN e.points PROVE PointFits(e, p, e.points[p])
  <2>1. p \in DOMAIN d.points /\ PointFits(d, p, d.points[p]) /\ d.points[p].equip \notin gone /\ e.points[p] = d.points[p]
    BY <1>1 DEF Fits
  <2>2. TakenBy(e, d.points[p].site, d.points[p].ext) \subseteq TakenBy(d, d.points[p].site, d.points[p].ext)
    BY <1>1 DEF TakenBy
  <2> QED BY <1>1, <2>1, <2>2 DEF PointFits
<1>5. e.sites \in [DOMAIN e.sites -> Names] /\ e.fresh \in Nat \ {0}
  BY <1>1 DEF Fits
<1>6. DOMAIN e.sites \cup DOMAIN e.equip \cup DOMAIN e.points \subseteq 1..(e.fresh - 1)
  <2>1. DOMAIN e.equip \subseteq DOMAIN d.equip /\ DOMAIN e.points \subseteq DOMAIN d.points
    BY <1>1
  <2> QED BY <1>1, <2>1 DEF Fits
<1>7. Fits(e)
  BY <1>1, <1>3, <1>4, <1>5, <1>6 DEF Fits
<1>8. DOMAIN e.equip = DOMAIN d.equip \ gone
  BY <1>1
<1>9. \A x \in DOMAIN e.equip : e.equip[x].meta = d.equip[x].meta /\ e.equip[x].site = d.equip[x].site
  BY <1>2
<1>10. /\ DOMAIN e.points = {p \in DOMAIN d.points : d.points[p].equip \notin gone}
       /\ \A p \in DOMAIN e.points : e.points[p] = d.points[p]
  BY <1>1
<1> QED BY <1>1, <1>7, <1>8, <1>9, <1>10 DEF e

LEMMA WithoutSiteFits ==
  ASSUME NEW d, Fits(d), NEW s
  PROVE  LET e == WithoutSite(d, s) IN
         /\ Fits(e) /\ e.fresh = d.fresh
         /\ DOMAIN e.equip \subseteq DOMAIN d.equip
         /\ \A x \in DOMAIN e.equip : e.equip[x].meta = d.equip[x].meta
<1> DEFINE gone == {x \in DOMAIN d.equip : d.equip[x].site = s}
           e == WithoutEquipment(d, gone)
           f == WithoutSite(d, s)
<1>1. /\ Fits(e) /\ e.sites = d.sites /\ e.fresh = d.fresh
      /\ DOMAIN e.equip = DOMAIN d.equip \ gone
      /\ \A x \in DOMAIN e.equip : e.equip[x].meta = d.equip[x].meta /\ e.equip[x].site = d.equip[x].site
      /\ DOMAIN e.points = {p \in DOMAIN d.points : d.points[p].equip \notin gone}
      /\ \A p \in DOMAIN e.points : e.points[p] = d.points[p]
  BY WithoutUnitsFits
<1>2. f = [e EXCEPT !.sites = Only(@, DOMAIN @ \ {s}), !.points = Only(@, {p \in DOMAIN @ : e.points[p].site # s})]
  BY DEF WithoutSite
<1> HIDE DEF e, f
<1>3. /\ DOMAIN f = {"sites", "equip", "points", "fresh"} /\ f.equip = e.equip /\ f.fresh = e.fresh
      /\ f.sites = [x \in DOMAIN e.sites \ {s} |-> e.sites[x]]
      /\ f.points = [p \in {p \in DOMAIN e.points : e.points[p].site # s} |-> e.points[p]]
  BY <1>1, <1>2 DEF Only, Fits
<1>4. ASSUME NEW x \in DOMAIN f.equip PROVE EquipmentFits(f, x, f.equip[x]) /\ EquipmentRow(f.equip[x])
  <2>1. EquipmentFits(e, x, e.equip[x]) /\ EquipmentRow(e.equip[x]) /\ e.equip[x].site # s
    BY <1>1, <1>3 DEF Fits
  <2> QED BY <1>3, <2>1 DEF EquipmentFits
<1>5. ASSUME NEW p \in DOMAIN f.points PROVE PointFits(f, p, f.points[p])
  <2>1. PointFits(e, p, e.points[p]) /\ f.points[p] = e.points[p] /\ e.points[p].site # s
    BY <1>1, <1>3 DEF Fits
  <2>2. TakenBy(f, e.points[p].site, e.points[p].ext) \subseteq TakenBy(e, e.points[p].site, e.points[p].ext)
    BY <1>3 DEF TakenBy
  <2> QED BY <1>3, <2>1, <2>2 DEF PointFits
<1>6. f.sites \in [DOMAIN f.sites -> Names] /\ f.fresh \in Nat \ {0}
  BY <1>1, <1>3 DEF Fits
<1>7. DOMAIN f.sites \cup DOMAIN f.equip \cup DOMAIN f.points \subseteq 1..(f.fresh - 1)
  <2>1. DOMAIN f.sites \subseteq DOMAIN e.sites /\ DOMAIN f.points \subseteq DOMAIN e.points
    BY <1>3
  <2> QED BY <1>1, <1>3, <2>1 DEF Fits
<1>8. Fits(f)
  BY <1>3, <1>4, <1>5, <1>6, <1>7 DEF Fits
<1> QED BY <1>1, <1>3, <1>8 DEF f

\* Nothing is left.
LEMMA EmptiedFits ==
  ASSUME NEW d, Fits(d)
  PROVE  LET e == Emptied(d) IN
         Fits(e) /\ e.fresh = d.fresh /\ DOMAIN e.equip = {} /\ e.points = Only(d.points, {})
<1> DEFINE e == Emptied(d)
<1>1. /\ DOMAIN e = {"sites", "equip", "points", "fresh"} /\ e.fresh = d.fresh
      /\ e.sites = Only(d.sites, {}) /\ e.equip = Only(d.equip, {}) /\ e.points = Only(d.points, {})
  BY DEF Emptied, Fits
<1> HIDE DEF e
<1>2. /\ DOMAIN e.sites = {} /\ DOMAIN e.equip = {} /\ DOMAIN e.points = {}
      /\ e.sites \in [DOMAIN e.sites -> Names]
  BY <1>1 DEF Only
<1>3. Fits(e)
  BY <1>1, <1>2 DEF Fits
<1> QED BY <1>1, <1>2, <1>3 DEF e

------------------------------------------------------------------------------
\* What requests in flight hold.

\* Names, rows and metadata of the schema, and ids below n, the next one.
Carries(l, a, n) ==
  /\ l = "insert_site" => a \in Names
  /\ l = "rename_site" => a.n \in Names
  /\ l = "insert_equipment" => EquipmentRow(a)
  /\ l \in {"patch_equipment", "update_equipment"} =>
       /\ DOMAIN a = {"e", "b", "base"} /\ a.e \in 1..(n - 1)
       /\ a.b.meta \subseteq Keys /\ a.base \subseteq Keys
  /\ l = "holds" => Lists(a) /\ a.equipment = <<>>
  /\ l = "import" =>
       /\ Lists(a.body) /\ ReadKeys(a.seen)
       /\ \A j \in DOMAIN a.body.equipment : a.body.equipment[j].eid \in {Null} \cup 1..(n - 1)
       /\ DOMAIN a.seen \subseteq 1..(n - 1)
\* The type invariant without the points.
Tables == Fits(db) /\ disc \subseteq Range(Objects) /\ acked \subseteq Nat \X Keys
RowsInv == OfClients /\ Tables /\ \A c \in Clients : Carries(pc[c], arg[c], fresh)

LEMMA BelowToo ==
  ASSUME NEW n \in Nat, NEW m \in Nat, n <= m
  PROVE  1..(n - 1) \subseteq 1..(m - 1)
OBVIOUS

LEMMA CarriesOn ==
  ASSUME NEW l, NEW a, NEW n \in Nat, NEW m \in Nat, n <= m, Carries(l, a, n)
  PROVE  Carries(l, a, m)
<1>1. 1..(n - 1) \subseteq 1..(m - 1)
  BY BelowToo
<1> QED BY <1>1 DEF Carries

\* Databases are equal when their tables are.
LEMMA FitsAlso ==
  ASSUME NEW d, Fits(d), NEW e, DOMAIN e = {"sites", "equip", "points", "fresh"},
         e.sites = d.sites, e.equip = d.equip, e.points = d.points, e.fresh = d.fresh
  PROVE  Fits(e)
<1>1. \A x \in DOMAIN e.equip : EquipmentFits(e, x, e.equip[x]) /\ EquipmentRow(e.equip[x])
  BY DEF Fits, EquipmentFits
<1>2. \A p \in DOMAIN e.points : PointFits(e, p, e.points[p])
  BY DEF Fits, PointFits, TakenBy
<1> QED BY <1>1, <1>2 DEF Fits

LEMMA NowFits ==
  ASSUME NEW d, Fits(d), Becomes(d)
  PROVE  Fits(db)'
<1> DEFINE e == [sites |-> sites', equip |-> equip', points |-> points', fresh |-> fresh']
<1>1. /\ DOMAIN e = {"sites", "equip", "points", "fresh"}
      /\ e.sites = d.sites /\ e.equip = d.equip /\ e.points = d.points /\ e.fresh = d.fresh
  BY DEF Becomes
<1>2. Fits(e)
  <2> HIDE DEF e
  <2> QED BY <1>1, FitsAlso
<1>3. db' = e
  BY DEF db
<1> QED BY <1>2, <1>3

LEMMA StillFits ==
  ASSUME Fits(db), UNCHANGED rows
  PROVE  Fits(db)'
<1>1. Becomes(db)
  BY DEF Becomes, rows, db
<1> QED BY <1>1, NowFits

LEMMA DbIs ==
  /\ DOMAIN db = {"sites", "equip", "points", "fresh"}
  /\ db.sites = sites /\ db.equip = equip /\ db.points = points /\ db.fresh = fresh
  BY DEF db

LEMMA IdsFit ==
  ASSUME Fits(db)
  PROVE  /\ fresh \in Nat \ {0}
         /\ DOMAIN sites \subseteq 1..(fresh - 1) /\ DOMAIN equip \subseteq 1..(fresh - 1)
         /\ \A e \in DOMAIN equip : EquipmentRow(equip[e]) /\ equip[e].meta \subseteq Keys
  BY DbIs DEF Fits, EquipmentRow

\* A request that starts or goes on, one that ends, and one done at once.
LEMMA RowsHolding ==
  ASSUME RowsInv, NEW c \in Clients, NEW l, NEW a, Hold(c, l, a), Carries(l, a, fresh),
         UNCHANGED <<rows, disc, acked>>
  PROVE  RowsInv'
<1>1. Fits(db)'
  BY StillFits DEF RowsInv, Tables
<1>2. Tables'
  BY <1>1 DEF RowsInv, Tables
<1>3. /\ OfClients' /\ pc'[c] = l /\ arg'[c] = a
      /\ \A o \in Clients \ {c} : pc'[o] = pc[o] /\ arg'[o] = arg[o]
  BY Holding DEF RowsInv
<1>4. fresh' = fresh
  BY DEF rows
<1>5. ASSUME NEW o \in Clients PROVE Carries(pc'[o], arg'[o], fresh')
  BY <1>3, <1>4 DEF RowsInv
<1> QED BY <1>2, <1>3, <1>5 DEF RowsInv

LEMMA RowsEnding ==
  ASSUME RowsInv, NEW c \in Clients, Done(c), Fits(db)', fresh <= fresh', acked' \subseteq Nat \X Keys
  PROVE  RowsInv'
<1>1. Tables'
  BY DEF RowsInv, Tables, Done
<1>2. /\ OfClients' /\ pc'[c] = "idle"
      /\ \A o \in Clients \ {c} : pc'[o] = pc[o] /\ arg'[o] = arg[o]
  BY Ending DEF RowsInv
<1>3. fresh \in Nat /\ fresh' \in Nat
  BY DEF RowsInv, Tables, Fits, db
<1>4. ASSUME NEW o \in Clients PROVE Carries(pc'[o], arg'[o], fresh')
  <2>1. CASE o = c
    BY <1>2, <2>1 DEF Carries
  <2>2. CASE o # c
    BY <1>2, <1>3, <2>2, CarriesOn DEF RowsInv
  <2> QED BY <2>1, <2>2
<1> QED BY <1>1, <1>2, <1>4 DEF RowsInv

LEMMA RowsAtOnce ==
  ASSUME RowsInv, AtOnce, Fits(db)', fresh' = fresh
  PROVE  RowsInv'
  BY DEF RowsInv, Tables, AtOnce, OfClients

\* A template is a list of rows of points, no equipment.
LEMMA SetIsListed ==
  ASSUME NEW S, IsFiniteSet(S)
  PROVE  Cardinality(S) \in Nat /\ SetToSeq(S) \in [1..Cardinality(S) -> S]
<1>1. Cardinality(S) \in Nat /\ ExistsBijection(1..Cardinality(S), S)
  BY FS_CardinalityType
<1>2. PICK f \in Bijection(1..Cardinality(S), S) : TRUE
  BY <1>1 DEF ExistsBijection
<1>3. f \in [1..Cardinality(S) -> S] /\ IsInjective(f)
  BY <1>2 DEF Bijection, Injection
<1> QED BY <1>1, <1>3 DEF SetToSeq

\* The rows of a template: of points that exist, and of objects without one, or
\* the example.
TemplateRows(d, filter) ==
  {Scaffold} \cup {PointRow(d, p) : p \in DOMAIN d.points} \cup
  {ProposedRow(d, o, Pick(filter, TheOnly(DOMAIN d.sites))) : o \in {o \in disc \cap Range(Objects) : PointsAt(d, o) = {}}}

LEMMA TemplateIs ==
  ASSUME NEW d, Fits(d), NEW filter, NEW over \in Overlays(d)
  PROVE  LET b == Template(d, filter, over) IN
         /\ DOMAIN b = {"points", "equipment"} /\ b.equipment = <<>>
         /\ b.points \in Seq(TemplateRows(d, filter))
<1> DEFINE Of(p) == filter = Null \/ d.points[p].site = filter
           site == Pick(filter, TheOnly(DOMAIN d.sites))
           chosen == {o \in disc : o \in DOMAIN over => Of(over[o])}
           found == Listed(chosen)
           others == {p \in DOMAIN d.points : Of(p) /\ \A o \in DOMAIN over : over[o] # p}
           fromGraph == [i \in DOMAIN found |-> IF found[i] \in DOMAIN over THEN PointRow(d, over[found[i]])
                                                ELSE ProposedRow(d, found[i], site)]
           fromDb == [i \in DOMAIN SetToSeq(others) |-> PointRow(d, SetToSeq(others)[i])]
           Rows == TemplateRows(d, filter)
           all == fromGraph \o fromDb
           b == Template(d, filter, over)
<1>1. b = [points |-> IF all = <<>> THEN <<Scaffold>> ELSE all, equipment |-> <<>>]
  BY DEF Template
<1>2. found \in Seq(chosen \cap Range(Objects))
  BY ListedIsSeq
<1>3. IsFiniteSet(others)
  <2>1. others \subseteq 1..(d.fresh - 1) /\ d.fresh \in Nat
    BY DEF Fits
  <2>2. IsFiniteSet(1..(d.fresh - 1))
    BY <2>1, FS_Interval
  <2> QED BY <2>1, <2>2, FS_Subset
<1>4. Cardinality(others) \in Nat /\ SetToSeq(others) \in [1..Cardinality(others) -> others]
  BY <1>3, SetIsListed
<1>5. /\ DOMAIN over = {o \in disc : PointsAt(d, o) # {}}
      /\ \A o \in DOMAIN over : over[o] \in DOMAIN d.points
  BY DEF Overlays
<1>6. others \subseteq DOMAIN d.points /\ chosen \subseteq disc
  OBVIOUS
<1> HIDE DEF found, others, chosen
<1>7. \A i \in DOMAIN found : found[i] \in chosen \cap Range(Objects)
  BY <1>2
<1>8. ASSUME NEW i \in DOMAIN found PROVE fromGraph[i] \in Rows
  <2>1. CASE found[i] \in DOMAIN over
    <3>1. over[found[i]] \in DOMAIN d.points /\ fromGraph[i] = PointRow(d, over[found[i]])
      BY <1>5, <2>1
    <3> QED BY <3>1 DEF TemplateRows
  <2>2. CASE found[i] \notin DOMAIN over
    <3>1. found[i] \in {o \in disc \cap Range(Objects) : PointsAt(d, o) = {}} /\ fromGraph[i] = ProposedRow(d, found[i], site)
      BY <1>5, <1>6, <1>7, <2>2
    <3> QED BY <3>1 DEF TemplateRows
  <2> QED BY <2>1, <2>2
<1>9. ASSUME NEW i \in DOMAIN SetToSeq(others) PROVE fromDb[i] \in Rows
  <2>1. SetToSeq(others)[i] \in DOMAIN d.points
    BY <1>4, <1>6
  <2>2. fromDb[i] = PointRow(d, SetToSeq(others)[i])
    OBVIOUS
  <2> QED BY <2>1, <2>2 DEF TemplateRows
<1>10. /\ DOMAIN fromGraph = 1..Len(found) /\ Len(found) \in Nat
       /\ DOMAIN fromDb = 1..Cardinality(others) /\ Cardinality(others) \in Nat
  BY <1>2, <1>4
<1>11. fromGraph \in [1..Len(found) -> Rows] /\ fromDb \in [1..Cardinality(others) -> Rows]
  <2>1. DOMAIN found = 1..Len(found) /\ DOMAIN SetToSeq(others) = 1..Cardinality(others)
    BY <1>2, <1>4
  <2>2. fromGraph = [i \in 1..Len(found) |-> fromGraph[i]] /\ fromDb = [i \in 1..Cardinality(others) |-> fromDb[i]]
    BY <2>1
  <2> HIDE DEF fromGraph, fromDb, Rows
  <2> QED BY <1>8, <1>9, <2>1, <2>2
<1>12. Scaffold \in Rows
  BY DEF TemplateRows
<1> HIDE DEF fromGraph, fromDb, Rows, b
<1>13. fromGraph \in Seq(Rows) /\ fromDb \in Seq(Rows)
  BY <1>10, <1>11, SeqDef
<1>14. all \in Seq(Rows) /\ <<Scaffold>> \in Seq(Rows)
  BY <1>12, <1>13
<1> HIDE DEF all
<1> QED BY <1>1, <1>14 DEF b, Rows

LEMMA TaggedTemplate ==
  ASSUME NEW d, Fits(d), NEW filter, NEW over \in Overlays(d), NEW t
  PROVE  LET b == Tagged(Template(d, filter, over), t) IN
         /\ Lists(b) /\ b.equipment = <<>>
         /\ PointTable(d.points) => SendsModbus(b)
<1> DEFINE body == Template(d, filter, over)
           b == Tagged(body, t)
           tagged == [i \in DOMAIN body.points |-> [body.points[i] EXCEPT !.tag = Pick(t, @)]]
           New == {tagged[i] : i \in DOMAIN tagged}
<1>1. /\ DOMAIN body = {"points", "equipment"} /\ body.equipment = <<>>
      /\ body.points \in Seq(TemplateRows(d, filter))
  BY TemplateIs
<1>2. b = [body EXCEPT !.points = tagged]
  BY DEF Tagged
<1> HIDE DEF body, b
<1>3. DOMAIN b = {"points", "equipment"} /\ b.points = tagged /\ b.equipment = <<>>
  BY <1>1, <1>2
<1>4. /\ Len(body.points) \in Nat /\ DOMAIN body.points = 1..Len(body.points)
      /\ \A i \in DOMAIN body.points : body.points[i] \in TemplateRows(d, filter)
  BY <1>1
<1>5. tagged \in [1..Len(body.points) -> New]
  BY <1>4
<1>6. tagged \in Seq(New)
  <2> HIDE DEF tagged, New
  <2> QED BY <1>4, <1>5, SeqDef
<1>7. Len(tagged) \in Nat /\ DOMAIN tagged = 1..Len(tagged)
  <2> HIDE DEF tagged, New
  <2> QED BY <1>6
<1>8. Len(<<>>) = 0 /\ DOMAIN <<>> = 1..0
  OBVIOUS
<1>9. ASSUME PointTable(d.points), NEW i \in DOMAIN tagged PROVE tagged[i].mb \in Modbus \cup {Omit, Null}
  <2>1. body.points[i] \in TemplateRows(d, filter) /\ tagged[i] = [body.points[i] EXCEPT !.tag = Pick(t, @)]
    BY <1>4
  <2> HIDE DEF tagged
  <2>2. ASSUME NEW p \in DOMAIN d.points, body.points[i] = PointRow(d, p) PROVE tagged[i].mb \in Modbus \cup {Omit, Null}
    <3>1. d.points[p].mb \in Modbus \cup {Null}
      BY <1>9 DEF PointTable, Point, NormalModbus
    <3>2. tagged[i].mb = d.points[p].mb
      BY <2>1, <2>2 DEF PointRow
    <3> QED BY <3>1, <3>2
  <2>3. ASSUME NEW o, NEW site, body.points[i] = ProposedRow(d, o, site) PROVE tagged[i].mb \in Modbus \cup {Omit, Null}
    <3>1. tagged[i].mb = Null
      BY <2>1, <2>3 DEF ProposedRow, Blank
    <3> QED BY <3>1
  <2>4. ASSUME body.points[i] = Scaffold PROVE tagged[i].mb \in Modbus \cup {Omit, Null}
    <3>1. tagged[i].mb = Null
      BY <2>1, <2>4 DEF Scaffold, Blank
    <3> QED BY <3>1
  <2> QED BY <2>1, <2>2, <2>3, <2>4 DEF TemplateRows
<1> HIDE DEF tagged
<1>10. Lists(b)
  BY <1>3, <1>7, <1>8 DEF Lists
<1>11. PointTable(d.points) => SendsModbus(b)
  BY <1>3, <1>9 DEF SendsModbus
<1> QED BY <1>3, <1>10, <1>11 DEF b, body

LEMMA RowsInit == Init => RowsInv
<1> SUFFICES ASSUME Init PROVE RowsInv
  OBVIOUS
<1>1. PICK d \in Seeds : sites = d.sites /\ equip = d.equip /\ points = d.points /\ fresh = d.fresh
  BY DEF Init
<1>2. Fits(db)
  BY <1>1, SeedsFit, DbIs, FitsAlso
<1>3. disc = {} /\ acked = {} /\ pc = [c \in Clients |-> "idle"] /\ arg = [c \in Clients |-> Null]
  BY DEF Init, Idle
<1>4. \A c \in Clients : Carries(pc[c], arg[c], fresh)
  BY <1>3 DEF Carries
<1> QED BY <1>2, <1>3, <1>4 DEF RowsInv, OfClients, Tables

\* The writes, by what they write.
LEMMA SiteWritten ==
  ASSUME NEW d, Fits(d), NEW e, DOMAIN e = {"sites", "equip", "points", "fresh"},
         e.equip = d.equip, e.points = d.points, e.fresh \in Nat, d.fresh <= e.fresh,
         e.sites = [s \in DOMAIN e.sites |-> e.sites[s]], \A s \in DOMAIN e.sites : e.sites[s] \in Names,
         DOMAIN d.sites \subseteq DOMAIN e.sites, DOMAIN e.sites \subseteq 1..(e.fresh - 1)
  PROVE  Fits(e)
<1>1. \A x \in DOMAIN e.equip : EquipmentFits(e, x, e.equip[x]) /\ EquipmentRow(e.equip[x])
  BY DEF Fits, EquipmentFits
<1>2. \A p \in DOMAIN e.points : PointFits(e, p, e.points[p])
  BY PointsStillFit DEF Fits
<1>3. e.sites \in [DOMAIN e.sites -> Names]
  OBVIOUS
<1>4. d.fresh \in Nat \ {0} /\ DOMAIN d.sites \cup DOMAIN d.equip \cup DOMAIN d.points \subseteq 1..(d.fresh - 1)
  BY DEF Fits
<1>5. e.fresh \in Nat \ {0} /\ 1..(d.fresh - 1) \subseteq 1..(e.fresh - 1)
  BY <1>4
<1> QED BY <1>1, <1>2, <1>3, <1>4, <1>5 DEF Fits

LEMMA UnitWritten ==
  ASSUME NEW d, Fits(d), NEW id \in DOMAIN d.equip, NEW row, EquipmentFits(d, id, row), EquipmentRow(row),
         NEW e, DOMAIN e = {"sites", "equip", "points", "fresh"},
         e.sites = d.sites, e.points = d.points, e.fresh = d.fresh, e.equip = [d.equip EXCEPT ![id] = row]
  PROVE  Fits(e)
<1>1. DOMAIN e.equip = DOMAIN d.equip /\ \A x \in DOMAIN d.equip : e.equip[x] = IF x = id THEN row ELSE d.equip[x]
  OBVIOUS
<1>2. ASSUME NEW x \in DOMAIN e.equip PROVE EquipmentFits(e, x, e.equip[x]) /\ EquipmentRow(e.equip[x])
  <2>1. CASE x = id
    BY <1>1, <2>1 DEF EquipmentFits
  <2>2. CASE x # id
    <3>1. EquipmentFits(d, x, d.equip[x]) /\ EquipmentRow(d.equip[x])
      BY <1>1 DEF Fits
    <3>2. ~ (row.site = d.equip[x].site /\ row.name = d.equip[x].name)
      BY <1>1, <2>2 DEF EquipmentFits
    <3> QED BY <1>1, <2>2, <3>1, <3>2 DEF EquipmentFits
  <2> QED BY <2>1, <2>2
<1>3. \A p \in DOMAIN e.points : PointFits(e, p, e.points[p])
  BY <1>1, PointsStillFit DEF Fits
<1> QED BY <1>1, <1>2, <1>3 DEF Fits

LEMMA PointsGone ==
  ASSUME NEW d, Fits(d), NEW S, NEW e, DOMAIN e = {"sites", "equip", "points", "fresh"},
         e.sites = d.sites, e.equip = d.equip, e.fresh = d.fresh,
         e.points = [p \in DOMAIN d.points \ S |-> d.points[p]]
  PROVE  Fits(e)
<1>1. \A x \in DOMAIN e.equip : EquipmentFits(e, x, e.equip[x]) /\ EquipmentRow(e.equip[x])
  BY DEF Fits, EquipmentFits
<1>2. ASSUME NEW p \in DOMAIN e.points PROVE PointFits(e, p, e.points[p])
  <2>1. p \in DOMAIN d.points /\ PointFits(d, p, d.points[p]) /\ e.points[p] = d.points[p]
    BY DEF Fits
  <2>2. TakenBy(e, d.points[p].site, d.points[p].ext) \subseteq TakenBy(d, d.points[p].site, d.points[p].ext)
    BY DEF TakenBy
  <2> QED BY <2>1, <2>2 DEF PointFits
<1> QED BY <1>1, <1>2 DEF Fits

\* What an import commits.
LEMMA Committed ==
  ASSUME RowsInv, NEW c \in Clients, pc[c] = "import",
         NEW d \in Import(db, arg[c].body, arg[c].known, arg[c].seen)
  PROVE  /\ Reached(db, d, arg[c].body, Fallback(arg[c].body, arg[c].known), arg[c].seen, RowsOf(arg[c].body))
         /\ Fits(d) /\ d.sites = sites /\ fresh <= d.fresh
         /\ \A e \in DOMAIN d.equip : Merged(d, arg[c], e) \subseteq Keys
<1>1. Fits(db) /\ Lists(arg[c].body) /\ ReadKeys(arg[c].seen)
  BY DEF RowsInv, Tables, Carries
<1>2. Reached(db, d, arg[c].body, Fallback(arg[c].body, arg[c].known), arg[c].seen, RowsOf(arg[c].body))
  BY <1>1, ImportReaches
<1>3. Fits(d) /\ Grown(db, d)
  BY <1>2 DEF Reached
<1>4. d.sites = sites /\ fresh <= d.fresh
  BY <1>3, DbIs DEF Grown
<1>5. ASSUME NEW e PROVE Merged(d, arg[c], e) \subseteq Keys
  <2>1. \A i \in DOMAIN arg[c].body.equipment : arg[c].body.equipment[i].meta \subseteq Keys
    BY <1>1 DEF Lists
  <2> QED BY <2>1 DEF Merged
<1> QED BY <1>2, <1>3, <1>4, <1>5

LEMMA RowsStep == RowsInv /\ [Next]_vars => RowsInv'
<1> SUFFICES ASSUME RowsInv, [Next]_vars PROVE RowsInv'
  OBVIOUS
<1>a. Fits(db) /\ acked \subseteq Nat \X Keys /\ \A c \in Clients : Carries(pc[c], arg[c], fresh)
  BY DEF RowsInv, Tables
<1>b. /\ fresh \in Nat \ {0}
      /\ DOMAIN sites \subseteq 1..(fresh - 1) /\ DOMAIN equip \subseteq 1..(fresh - 1)
      /\ \A e \in DOMAIN equip : EquipmentRow(equip[e]) /\ equip[e].meta \subseteq Keys
  BY <1>a, IdsFit
\* Requests that start.
<1>1. ASSUME NEW c \in Clients, NEW n \in Names, CreateSite(c, n) \/ ResolveSite(c, n) PROVE RowsInv'
  <2>1. Hold(c, "insert_site", n) /\ UNCHANGED <<rows, disc, acked>>
    BY <1>1 DEF CreateSite, ResolveSite, Start
  <2>2. Carries("insert_site", n, fresh)
    BY DEF Carries
  <2> QED BY <2>1, <2>2, RowsHolding
<1>2. ASSUME NEW c \in Clients, NEW s \in DOMAIN sites, NEW n \in Names, UpdateSite(c, s, n) PROVE RowsInv'
  <2> DEFINE a == [s |-> s, n |-> n]
  <2>1. Hold(c, "rename_site", a) /\ UNCHANGED <<rows, disc, acked>>
    BY <1>2 DEF UpdateSite, Start
  <2>2. Carries("rename_site", a, fresh)
    BY DEF Carries
  <2> HIDE DEF a
  <2> QED BY <2>1, <2>2, RowsHolding
<1>3. ASSUME NEW c \in Clients, NEW e \in NewEquipment, CreateEquipment(c, e) PROVE RowsInv'
  <2>1. Hold(c, "insert_equipment", e) /\ UNCHANGED <<rows, disc, acked>>
    BY <1>3 DEF CreateEquipment, Start
  <2>2. EquipmentRow(e)
    BY DEF NewEquipment, EquipmentRow
  <2>3. Carries("insert_equipment", e, fresh)
    BY <2>2 DEF Carries
  <2> QED BY <2>1, <2>3, RowsHolding
<1>4. ASSUME NEW c \in Clients, NEW e \in DOMAIN equip, NEW b \in EquipmentPatch, UpdateEquipment(c, e, b) PROVE RowsInv'
  <2> DEFINE a == [e |-> e, b |-> b, base |-> {}]
  <2>1. Hold(c, "patch_equipment", a) /\ UNCHANGED <<rows, disc, acked>>
    BY <1>4 DEF UpdateEquipment, Start
  <2>2. b.meta \subseteq Keys
    BY DEF EquipmentPatch
  <2>3. Carries("patch_equipment", a, fresh)
    BY <1>b, <2>2 DEF Carries
  <2> HIDE DEF a
  <2> QED BY <2>1, <2>3, RowsHolding
<1>5. ASSUME NEW c \in Clients, NEW p, CreatePoint(c, p) PROVE RowsInv'
  <2>1. Hold(c, "insert_point", p) /\ UNCHANGED <<rows, disc, acked>>
    BY <1>5 DEF CreatePoint, Start
  <2>2. Carries("insert_point", p, fresh)
    BY DEF Carries
  <2> QED BY <2>1, <2>2, RowsHolding
<1>6. ASSUME NEW c \in Clients, NEW f, NEW t, HoldTemplate(c, f, t) PROVE RowsInv'
  <2>1. PICK over \in Overlays(db) : Start(c, "holds", Tagged(Template(db, f, over), t))
    BY <1>6 DEF HoldTemplate, Templates
  <2> DEFINE b == Tagged(Template(db, f, over), t)
  <2>2. Hold(c, "holds", b) /\ UNCHANGED <<rows, disc, acked>>
    BY <2>1 DEF Start
  <2>3. Lists(b) /\ b.equipment = <<>>
    BY <1>a, TaggedTemplate
  <2> HIDE DEF b
  <2>4. Carries("holds", b, fresh)
    BY <2>3 DEF Carries
  <2> QED BY <2>2, <2>4, RowsHolding
\* What an import starts from.
<1>7. ASSUME NEW b, Lists(b),
             \A i \in DOMAIN b.equipment : b.equipment[i].eid \in {Null} \cup 1..(fresh - 1)
      PROVE  Carries("import", Sent(b), fresh)
  <2>1. Sent(b).body = b /\ Sent(b).seen = [e \in DOMAIN equip |-> equip[e].meta]
    BY DbIs DEF Sent, Metadata
  <2>2. ReadKeys(Sent(b).seen) /\ DOMAIN Sent(b).seen \subseteq 1..(fresh - 1)
    BY <1>b, <2>1 DEF ReadKeys
  <2> QED BY <1>7, <2>1, <2>2 DEF Carries
<1>8. ASSUME NEW c \in Clients, NEW body \in Bodies, SendBody(c, body) PROVE RowsInv'
  <2>1. Hold(c, "import", Sent(body)) /\ UNCHANGED <<rows, disc, acked>>
    BY <1>8 DEF SendBody, Start
  <2>2. Carries("import", Sent(body), fresh)
    BY <1>7, <1>8, BodiesAreLists DEF SendBody
  <2> QED BY <2>1, <2>2, RowsHolding
<1>9. ASSUME NEW c \in Clients, SendTemplate(c) PROVE RowsInv'
  <2>1. CASE Hold(c, "import", Sent(arg[c])) /\ UNCHANGED <<disc, requests>>
    <3>1. Lists(arg[c]) /\ arg[c].equipment = <<>>
      BY <1>9, <1>a DEF SendTemplate, Carries
    <3>2. DOMAIN arg[c].equipment = {}
      BY <3>1
    <3>3. Carries("import", Sent(arg[c]), fresh)
      BY <1>7, <3>1, <3>2
    <3>4. UNCHANGED <<rows, disc, acked>>
      BY <1>9, <2>1 DEF SendTemplate
    <3> QED BY <2>1, <3>3, <3>4, RowsHolding
  <2>2. CASE Done(c)
    <3>1. UNCHANGED rows /\ acked' = acked
      BY <1>9 DEF SendTemplate
    <3>2. Fits(db)' /\ fresh' = fresh
      BY <1>a, <3>1, StillFits DEF rows
    <3> QED BY <1>a, <1>b, <2>2, <3>1, <3>2, RowsEnding
  <2> QED BY <1>9, <2>1, <2>2 DEF SendTemplate
<1>10. ASSUME NEW c \in Clients, ReadMetadata(c) PROVE RowsInv'
  <2> DEFINE a == [arg[c] EXCEPT !.base = IF arg[c].e \in DOMAIN equip THEN equip[arg[c].e].meta ELSE {}]
  <2>1. Hold(c, "update_equipment", a) /\ UNCHANGED <<rows, disc, acked>> /\ pc[c] = "patch_equipment"
    BY <1>10 DEF ReadMetadata
  <2>2. /\ DOMAIN arg[c] = {"e", "b", "base"} /\ arg[c].e \in 1..(fresh - 1)
        /\ arg[c].b.meta \subseteq Keys
    BY <1>a, <2>1 DEF Carries
  <2>3. DOMAIN a = {"e", "b", "base"} /\ a.e = arg[c].e /\ a.b = arg[c].b /\ a.base \subseteq Keys
    BY <1>b, <2>2
  <2> HIDE DEF a
  <2>4. Carries("update_equipment", a, fresh)
    BY <2>2, <2>3 DEF Carries
  <2> QED BY <2>1, <2>4, RowsHolding
\* Requests that write.
<1>11. ASSUME NEW c \in Clients, InsertSite(c) PROVE RowsInv'
  <2>1. /\ pc[c] = "insert_site" /\ Done(c) /\ fresh' = fresh + 1
        /\ sites' = [s \in DOMAIN sites \cup {fresh} |-> IF s = fresh THEN arg[c] ELSE sites[s]]
        /\ UNCHANGED <<equip, points, acked>>
    BY <1>11 DEF InsertSite
  <2>2. arg[c] \in Names /\ \A s \in DOMAIN sites : sites[s] \in Names
    BY <1>a, <2>1, DbIs DEF Carries, Fits
  <2> DEFINE e == [sites |-> sites', equip |-> equip', points |-> points', fresh |-> fresh']
  <2>3. /\ DOMAIN e = {"sites", "equip", "points", "fresh"}
        /\ e.sites = sites' /\ e.equip = equip /\ e.points = points /\ e.fresh = fresh + 1
    BY <2>1
  <2> HIDE DEF e
  <2>4. /\ DOMAIN e.sites = DOMAIN sites \cup {fresh} /\ e.sites = [s \in DOMAIN e.sites |-> e.sites[s]]
        /\ \A s \in DOMAIN e.sites : e.sites[s] \in Names
    BY <2>1, <2>2, <2>3
  <2>5. DOMAIN e.sites \subseteq 1..(e.fresh - 1) /\ e.fresh \in Nat /\ fresh <= e.fresh
    BY <1>b, <2>3, <2>4
  <2>6. Fits(e)
    BY <1>a, <2>3, <2>4, <2>5, DbIs, SiteWritten
  <2>7. Fits(db)'
    BY <2>3, <2>6, NowFits, <2>1 DEF Becomes
  <2> QED BY <1>a, <1>b, <2>1, <2>7, RowsEnding
<1>12. ASSUME NEW c \in Clients, RenameSite(c) PROVE RowsInv'
  <2>1. /\ pc[c] = "rename_site" /\ Done(c)
        /\ sites' = [s \in DOMAIN sites |-> IF s = arg[c].s THEN arg[c].n ELSE sites[s]]
        /\ UNCHANGED <<equip, points, fresh, acked>>
    BY <1>12 DEF RenameSite
  <2>2. arg[c].n \in Names /\ \A s \in DOMAIN sites : sites[s] \in Names
    BY <1>a, <2>1, DbIs DEF Carries, Fits
  <2> DEFINE e == [sites |-> sites', equip |-> equip', points |-> points', fresh |-> fresh']
  <2>3. /\ DOMAIN e = {"sites", "equip", "points", "fresh"}
        /\ e.sites = sites' /\ e.equip = equip /\ e.points = points /\ e.fresh = fresh
    BY <2>1
  <2> HIDE DEF e
  <2>4. /\ DOMAIN e.sites = DOMAIN sites /\ e.sites = [s \in DOMAIN e.sites |-> e.sites[s]]
        /\ \A s \in DOMAIN e.sites : e.sites[s] \in Names
    BY <2>1, <2>2, <2>3
  <2>5. DOMAIN e.sites \subseteq 1..(e.fresh - 1) /\ e.fresh \in Nat /\ fresh <= e.fresh
    BY <1>b, <2>3, <2>4
  <2>6. Fits(e)
    BY <1>a, <2>3, <2>4, <2>5, DbIs, SiteWritten
  <2>7. Fits(db)'
    BY <2>3, <2>6, NowFits, <2>1 DEF Becomes
  <2> QED BY <1>a, <1>b, <2>1, <2>7, RowsEnding
<1>13. ASSUME NEW c \in Clients, InsertEquipment(c) PROVE RowsInv'
  <2>1. pc[c] = "insert_equipment" /\ Done(c) /\ acked' = acked
    BY <1>13 DEF InsertEquipment
  <2>2. CASE EquipmentFits(db, fresh, arg[c]) /\ Becomes(NewId(db, arg[c], "equip"))
    <3>1. EquipmentRow(arg[c])
      BY <1>a, <2>1 DEF Carries
    <3>2. Safe(db, NewId(db, arg[c], "equip"))
      BY <1>a, <2>2, <3>1, NewUnitFits, DbIs
    <3>3. Fits(NewId(db, arg[c], "equip")) /\ fresh <= fresh'
      BY <2>2, <3>2, DbIs DEF Safe, Grown, Becomes
    <3> QED BY <1>a, <2>1, <2>2, <3>3, NowFits, RowsEnding
  <2>3. CASE UNCHANGED rows
    <3>1. Fits(db)' /\ fresh' = fresh
      BY <1>a, <2>3, StillFits DEF rows
    <3> QED BY <1>a, <1>b, <2>1, <3>1, RowsEnding
  <2> QED BY <1>13, <2>2, <2>3 DEF InsertEquipment
<1>14. ASSUME NEW c \in Clients, InsertPoint(c) PROVE RowsInv'
  <2>1. pc[c] = "insert_point" /\ Done(c) /\ acked' = acked
    BY <1>14 DEF InsertPoint
  <2>2. CASE PointFits(db, fresh, arg[c]) /\ Becomes(NewId(db, arg[c], "points"))
    <3>1. Safe(db, NewId(db, arg[c], "points"))
      BY <1>a, <2>2, NewPointFits, DbIs
    <3>2. Fits(NewId(db, arg[c], "points")) /\ fresh <= fresh'
      BY <2>2, <3>1, DbIs DEF Safe, Grown, Becomes
    <3> QED BY <1>a, <2>1, <2>2, <3>2, NowFits, RowsEnding
  <2>3. CASE UNCHANGED rows
    <3>1. Fits(db)' /\ fresh' = fresh
      BY <1>a, <2>3, StillFits DEF rows
    <3> QED BY <1>a, <1>b, <2>1, <3>1, RowsEnding
  <2> QED BY <1>14, <2>2, <2>3 DEF InsertPoint
<1>15. ASSUME NEW c \in Clients, StoreEquipment(c) PROVE RowsInv'
  <2> DEFINE a == arg[c]
             new == Patched(equip[a.e], a)
             ok == a.e \in DOMAIN equip /\ EquipmentFits(db, a.e, new)
  <2>1. /\ pc[c] = "update_equipment" /\ Done(c) /\ UNCHANGED <<sites, points, fresh>>
        /\ equip' = IF ok THEN [equip EXCEPT ![a.e] = new] ELSE equip
        /\ acked' = IF ok THEN acked \cup ({a.e} \X a.b.meta) ELSE acked
    BY <1>15 DEF StoreEquipment
  <2>2. a.e \in 1..(fresh - 1) /\ a.b.meta \subseteq Keys /\ a.base \subseteq Keys
    BY <1>a, <2>1 DEF Carries
  <2>3. acked' \subseteq Nat \X Keys
    BY <1>a, <1>b, <2>1, <2>2
  <2>4. ASSUME ok PROVE Fits(db)'
    <3>1. EquipmentRow(equip[a.e])
      BY <1>b, <2>4
    <3>2. EquipmentRow(new)
      BY <2>2, <3>1 DEF Patched, EquipmentRow, Merge
    <3> DEFINE e == [sites |-> sites', equip |-> equip', points |-> points', fresh |-> fresh']
    <3> HIDE DEF new
    <3>3. /\ DOMAIN e = {"sites", "equip", "points", "fresh"}
          /\ e.sites = sites /\ e.equip = [equip EXCEPT ![a.e] = new] /\ e.points = points /\ e.fresh = fresh
      BY <2>1, <2>4
    <3> HIDE DEF e
    <3>4. Fits(e)
      BY <1>a, <2>4, <3>2, <3>3, DbIs, UnitWritten
    <3> QED BY <2>1, <2>4, <3>3, <3>4, NowFits DEF Becomes
  <2>5. ASSUME ~ ok PROVE Fits(db)'
    <3>1. UNCHANGED rows
      BY <2>1, <2>5 DEF rows
    <3> QED BY <1>a, <3>1, StillFits
  <2> QED BY <1>b, <2>1, <2>3, <2>4, <2>5, RowsEnding
<1>16. ASSUME NEW c \in Clients, CommitImport(c) PROVE RowsInv'
  <2>1. PICK d \in Import(db, arg[c].body, arg[c].known, arg[c].seen) :
          /\ equip' = d.equip /\ points' = d.points /\ fresh' = d.fresh
          /\ acked' = acked \cup UNION {{e} \X Merged(d, arg[c], e) : e \in DOMAIN d.equip}
    BY <1>16 DEF CommitImport
  <2>2. pc[c] = "import" /\ Done(c) /\ UNCHANGED sites
    BY <1>16 DEF CommitImport
  <2>3. Fits(d) /\ d.sites = sites /\ fresh <= d.fresh /\ \A e \in DOMAIN d.equip : Merged(d, arg[c], e) \subseteq Keys
    BY <2>2, Committed
  <2>4. DOMAIN d.equip \subseteq Nat
    BY <2>3 DEF Fits
  <2>5. acked' \subseteq Nat \X Keys
    BY <1>a, <2>1, <2>3, <2>4
  <2>6. Fits(db)'
    BY <2>1, <2>2, <2>3, NowFits DEF Becomes
  <2> QED BY <2>1, <2>2, <2>3, <2>5, <2>6, RowsEnding
<1>17. ASSUME NEW c \in Clients, RejectImport(c) PROVE RowsInv'
  <2>1. Done(c) /\ UNCHANGED rows /\ acked' = acked
    BY <1>17 DEF RejectImport
  <2>2. Fits(db)' /\ fresh' = fresh
    BY <1>a, <2>1, StillFits DEF rows
  <2> QED BY <1>a, <1>b, <2>1, <2>2, RowsEnding
\* Requests of one step.
<1>18. ASSUME NEW s, DeleteSite(s) PROVE RowsInv'
  <2>1. AtOnce /\ Becomes(WithoutSite(db, s))
    BY <1>18 DEF DeleteSite
  <2>2. Fits(WithoutSite(db, s)) /\ fresh' = fresh
    BY <1>a, <2>1, WithoutSiteFits, DbIs DEF Becomes
  <2> QED BY <2>1, <2>2, NowFits, RowsAtOnce
<1>19. ASSUME NEW e, DeleteEquipment(e) PROVE RowsInv'
  <2>1. AtOnce /\ Becomes(WithoutEquipment(db, {e}))
    BY <1>19 DEF DeleteEquipment
  <2>2. Fits(WithoutEquipment(db, {e})) /\ fresh' = fresh
    BY <1>a, <2>1, WithoutUnitsFits, DbIs DEF Becomes
  <2> QED BY <2>1, <2>2, NowFits, RowsAtOnce
<1>20. ASSUME NEW p, NEW b, UpdatePoint(p, b) PROVE RowsInv'
  <2>1. PICK d \in StorePoint(db, p, Updated(points[p], b)) : Becomes(d)
    BY <1>20 DEF UpdatePoint
  <2>2. Safe(db, d) /\ d.fresh = fresh
    BY <1>a, <2>1, StoredPointFits, DbIs
  <2>3. Fits(d) /\ fresh' = fresh
    BY <2>1, <2>2 DEF Safe, Becomes
  <2> QED BY <1>20, <2>1, <2>3, NowFits, RowsAtOnce DEF UpdatePoint
<1>21. ASSUME NEW p, DeletePoint(p) PROVE RowsInv'
  <2>1. AtOnce /\ points' = [q \in DOMAIN points \ {p} |-> points[q]] /\ UNCHANGED <<sites, equip, fresh>>
    BY <1>21 DEF DeletePoint, Only
  <2> DEFINE e == [sites |-> sites', equip |-> equip', points |-> points', fresh |-> fresh']
  <2>2. /\ DOMAIN e = {"sites", "equip", "points", "fresh"}
        /\ e.sites = sites /\ e.equip = equip /\ e.points = points' /\ e.fresh = fresh
    BY <2>1
  <2> HIDE DEF e
  <2>3. e.points = [q \in DOMAIN points \ {p} |-> points[q]]
    BY <2>1, <2>2
  <2>4. Fits(e)
    BY <1>a, <2>2, <2>3, DbIs, PointsGone
  <2>5. Fits(db)'
    BY <2>1, <2>2, <2>4, NowFits DEF Becomes
  <2> QED BY <2>1, <2>5, RowsAtOnce
<1>22. ASSUME NEW o \in Range(Objects), Discover(o) PROVE RowsInv'
  <2>1. Fits(db)'
    BY <1>22, <1>a, StillFits DEF Discover
  <2> QED BY <1>22, <2>1 DEF Discover, RowsInv, Tables, OfClients, rows
<1>23. CASE UNCHANGED vars
  <2>1. UNCHANGED rows
    BY <1>23 DEF vars
  <2>2. Fits(db)'
    BY <1>a, <2>1, StillFits
  <2> QED BY <1>23, <2>2 DEF vars, RowsInv, Tables, OfClients, rows
<1>24. ASSUME NEW c \in Clients, Reset(c) PROVE RowsInv'
  <2>1. Carries("reset", Null, fresh)
    BY DEF Carries
  <2> QED BY <1>24, <2>1, RowsHolding DEF Reset, Start
<1>25. ASSUME NEW c \in Clients, ClearModel(c) PROVE RowsInv'
  <2>1. Hold(c, "reset", Null) /\ Becomes(Emptied(db)) /\ UNCHANGED <<disc, acked>>
    BY <1>25 DEF ClearModel
  <2>2. Fits(Emptied(db)) /\ fresh' = fresh
    BY <1>a, <2>1, EmptiedFits, DbIs DEF Becomes
  <2>3. Fits(db)'
    BY <2>1, <2>2, NowFits
  <2>4. /\ OfClients' /\ pc'[c] = "reset"
        /\ \A o \in Clients \ {c} : pc'[o] = pc[o] /\ arg'[o] = arg[o]
    BY <2>1, Holding DEF RowsInv
  <2>5. \A o \in Clients : Carries(pc'[o], arg'[o], fresh')
    BY <1>a, <2>2, <2>4 DEF Carries
  <2> QED BY <1>a, <2>1, <2>3, <2>4, <2>5 DEF RowsInv, Tables
<1>26. ASSUME NEW c \in Clients, ResetGraph(c) PROVE RowsInv'
  <2>1. UNCHANGED rows /\ fresh' = fresh /\ acked' = acked /\ disc' = {}
    BY <1>26 DEF ResetGraph, rows
  <2>2. Fits(db)'
    BY <1>a, <2>1, StillFits
  <2>3. /\ OfClients' /\ pc'[c] = "idle"
        /\ \A o \in Clients \ {c} : pc'[o] = pc[o] /\ arg'[o] = arg[o]
    BY <1>26, Resetting DEF RowsInv
  <2>4. \A o \in Clients : Carries(pc'[o], arg'[o], fresh')
    BY <1>a, <2>1, <2>3 DEF Carries
  <2> QED BY <1>a, <2>1, <2>2, <2>3, <2>4 DEF RowsInv, Tables
<1> QED BY <1>1, <1>2, <1>3, <1>4, <1>5, <1>6, <1>8, <1>9, <1>10, <1>11, <1>12, <1>13, <1>14, <1>15, <1>16,
          <1>17, <1>18, <1>19, <1>20, <1>21, <1>22, <1>23, <1>24, <1>25, <1>26 DEF Next

------------------------------------------------------------------------------
\* The points that are stored.

\* A table with one row replaced, or one more.
LEMMA TableStored ==
  ASSUME NEW d, Fits(d), PointTable(d.points), NEW id, NEW p, Point(p), NEW f \in StorePoint(d, id, p)
  PROVE  PointTable(f.points)
<1>1. f.points = [d.points EXCEPT ![id] = p]
  BY DEF StorePoint, Fits
<1>2. DOMAIN f.points = DOMAIN d.points /\ \A x \in DOMAIN d.points : f.points[x] = IF x = id THEN p ELSE d.points[x]
  BY <1>1
<1>3. f.points = [x \in DOMAIN f.points |-> f.points[x]]
  BY <1>1
<1>4. \A x \in DOMAIN f.points : Point(f.points[x])
  BY <1>2 DEF PointTable
<1> QED BY <1>3, <1>4 DEF PointTable

LEMMA TableGrown ==
  ASSUME NEW d, Fits(d), PointTable(d.points), NEW p, Point(p)
  PROVE  PointTable(NewId(d, p, "points").points)
<1> DEFINE f == NewId(d, p, "points")
<1>1. f.points = [x \in DOMAIN d.points \cup {d.fresh} |-> IF x = d.fresh THEN p ELSE d.points[x]]
  BY DEF NewId, Fits
<1> HIDE DEF f
<1>2. f.points = [x \in DOMAIN f.points |-> f.points[x]]
  BY <1>1
<1>3. \A x \in DOMAIN f.points : Point(f.points[x])
  BY <1>1 DEF PointTable
<1> QED BY <1>2, <1>3 DEF PointTable, f

LEMMA TableShrunk ==
  ASSUME NEW t, PointTable(t), NEW S, S \subseteq DOMAIN t
  PROVE  PointTable(Only(t, S))
BY DEF PointTable, Only

\* A row of an import brings a normal configuration, or none.
LEMMA ModbusIsNormal ==
  ASSUME NEW row, row.mb \in Modbus \cup {Omit, Null}
  PROVE  ModbusOf(row) \in NormalModbus \cup {Null}
BY NormalStays DEF ModbusOf

LEMMA CreatedIsPoint ==
  ASSUME NEW row, row.mb \in Modbus \cup {Omit, Null}, NEW s, NEW e
  PROVE  Point(Created(row, s, e))
<1> DEFINE p == Created(row, s, e)
<1>1. p = [f \in PointFields |-> p[f]] /\ p.mb = ModbusOf(row)
  BY DEF Created, PointFields
<1> QED BY <1>1, ModbusIsNormal DEF Point

LEMMA OverwrittenIsPoint ==
  ASSUME NEW p, Point(p), NEW row, row.mb \in Modbus \cup {Omit, Null}, NEW e
  PROVE  Point(Overwritten(p, row, e))
<1> DEFINE q == Overwritten(p, row, e)
<1>1. DOMAIN p = PointFields
  BY DEF Point
<1>2. q = [f \in PointFields |-> q[f]]
  BY <1>1 DEF Overwritten
<1>3. q.mb \in {p.mb, ModbusOf(row)}
  BY <1>1 DEF Overwritten, PointFields
<1> HIDE DEF q
<1> QED BY <1>2, <1>3, ModbusIsNormal DEF Point, q

LEMMA ChangedIsPoint ==
  ASSUME NEW p, Point(p), NEW row, row.mb \in Modbus \cup {Omit, Null}, NEW e
  PROVE  Point(Changed(p, row, e))
<1> DEFINE q == Changed(p, row, e)
<1>1. DOMAIN p = PointFields
  BY DEF Point
<1>2. q = [f \in PointFields |-> q[f]]
  BY <1>1 DEF Changed
<1>3. q.mb \in {p.mb, ModbusOf(row)}
  BY <1>1 DEF Changed, PointFields
<1> HIDE DEF q
<1> QED BY <1>2, <1>3, ModbusIsNormal DEF Point, q

LEMMA UpdatedIsPoint ==
  ASSUME NEW p, Point(p), NEW b \in Patches
  PROVE  Point(Updated(p, b))
<1> DEFINE q == Updated(p, b)
<1>1. DOMAIN p = PointFields
  BY DEF Point
<1>2. q = [f \in PointFields |-> q[f]] /\ q.mb = IF "mb" \in DOMAIN b THEN b.mb ELSE p.mb
  BY <1>1 DEF Updated, PointFields
<1> HIDE DEF q
<1> QED BY <1>2, PatchesFit DEF Point, q

\* What each row of points leaves.
LEMMA UpsertTable ==
  ASSUME NEW d, Fits(d), PointTable(d.points), NEW row, row.mb \in Modbus \cup {Omit, Null}, NEW s, NEW e,
         NEW f \in Upsert(d, row, s, e)
  PROVE  PointTable(f.points)
<1>1. CASE TakenBy(d, s, row.ext) = {}
  <2>1. f = NewId(d, Created(row, s, e), "points")
    BY <1>1 DEF Upsert
  <2> QED BY <2>1, CreatedIsPoint, TableGrown
<1>2. CASE TakenBy(d, s, row.ext) # {}
  <2>1. PICK p \in TakenBy(d, s, row.ext) : f \in StorePoint(d, p, Overwritten(d.points[p], row, e))
    BY <1>2 DEF Upsert
  <2>2. Point(d.points[p])
    BY <2>1 DEF TakenBy, PointTable
  <2>3. Point(Overwritten(d.points[p], row, e))
    BY <2>2, OverwrittenIsPoint
  <2> QED BY <2>1, <2>3, TableStored
<1> QED BY <1>1, <1>2

LEMMA ByIdentityTable ==
  ASSUME NEW d, Fits(d), PointTable(d.points), NEW row, row.mb \in Modbus \cup {Omit, Null}, NEW fallback,
         NEW f \in ByIdentity(d, row, fallback)
  PROVE  PointTable(f.points)
<1>1. PICK s : \E w \in Linked(d, row, s) : f \in Upsert(w[1], row, s, w[2])
  BY DEF ByIdentity
<1>2. PICK w \in Linked(d, row, s) : f \in Upsert(w[1], row, s, w[2])
  BY <1>1
<1>3. Fits(w[1]) /\ PointTable(w[1].points)
  BY LinkedSafe DEF Safe
<1> QED BY <1>2, <1>3, UpsertTable

LEMMA ByIdTable ==
  ASSUME NEW d, Fits(d), PointTable(d.points), NEW row, row.mb \in Modbus \cup {Omit, Null}, NEW fallback,
         NEW f \in ById(d, row, fallback)
  PROVE  PointTable(f.points)
<1>1. PICK s : \E w \in IF s = Null /\ row.equip = Null THEN {<<d, Null>>} ELSE Linked(d, row, s) :
                 f \in IF ~ Says(row, w[2]) THEN {w[1]}
                       ELSE IF row.pid \in DOMAIN d.points
                            THEN StorePoint(w[1], row.pid, Changed(d.points[row.pid], row, w[2]))
                            ELSE ByIdentity(w[1], row, fallback)
  BY DEF ById
<1>2. PICK w \in IF s = Null /\ row.equip = Null THEN {<<d, Null>>} ELSE Linked(d, row, s) :
             f \in IF ~ Says(row, w[2]) THEN {w[1]}
                   ELSE IF row.pid \in DOMAIN d.points
                        THEN StorePoint(w[1], row.pid, Changed(d.points[row.pid], row, w[2]))
                        ELSE ByIdentity(w[1], row, fallback)
  BY <1>1
<1>3. Fits(w[1]) /\ PointTable(w[1].points)
  <2>1. CASE w = <<d, Null>>
    BY <2>1
  <2>2. CASE w \in Linked(d, row, s)
    BY <2>2, LinkedSafe DEF Safe
  <2> QED BY <2>1, <2>2
<1>4. CASE f = w[1]
  BY <1>3, <1>4
<1>5. CASE row.pid \in DOMAIN d.points /\ f \in StorePoint(w[1], row.pid, Changed(d.points[row.pid], row, w[2]))
  <2>1. Point(d.points[row.pid])
    BY <1>5 DEF PointTable
  <2>2. Point(Changed(d.points[row.pid], row, w[2]))
    BY <2>1, ChangedIsPoint
  <2> QED BY <1>3, <1>5, <2>2, TableStored
<1>6. CASE f \in ByIdentity(w[1], row, fallback)
  BY <1>3, <1>6, ByIdentityTable
<1> QED BY <1>2, <1>4, <1>5, <1>6

\* Rows of equipment leave the points.
LEMMA ImportEquipmentPoints ==
  ASSUME NEW d, Fits(d), NEW row, NEW fallback, NEW seen, NEW before,
         NEW f \in ImportEquipment(d, row, fallback, seen, before)
  PROVE  f.points = d.points
<1> DEFINE s == Pick(row.site, fallback)
           Apply(e, id) ==
             IF ~ Parses(s) \/ LinkTo(e, s, row.feeds) = {} \/ LinkTo(e, s, row.fedBy) = {} THEN {}
             ELSE IF id \notin DOMAIN e.equip THEN {e}
             ELSE {g \in UpdateLinks(e, id, row, s, seen, before) : EquipmentFits(g, id, g.equip[id])}
<1>1. ASSUME NEW e, Fits(e), NEW id, NEW g \in Apply(e, id) PROVE g.points = e.points
  <2>1. CASE g \in UpdateLinks(e, id, row, s, seen, before)
    <3>1. PICK l, b, base : g = Relinked(e, id, row, l, b, base)
      BY <2>1 DEF UpdateLinks
    <3> QED BY <1>1, <3>1 DEF Relinked, Fits
  <2> QED BY <1>1, <2>1
<1>2. CASE row.eid # Null
  <2>1. f \in Apply(d, row.eid)
    BY <1>2 DEF ImportEquipment
  <2> HIDE DEF s, Apply
  <2> QED BY <1>1, <2>1
<1>3. CASE row.eid = Null /\ (row.name = Null \/ s = Null)
  BY <1>3 DEF ImportEquipment
<1>4. CASE row.eid = Null /\ row.name # Null /\ s # Null
  <2>1. PICK e \in EnsureEquipment(d, s, row.name) : f \in Apply(e, EquipmentNamed(e, s, row.name))
    BY <1>4 DEF ImportEquipment
  <2>2. Fits(e) /\ e.points = d.points
    BY Ensured DEF Safe
  <2> HIDE DEF s, Apply
  <2> QED BY <1>1, <2>1, <2>2
<1> QED BY <1>2, <1>3, <1>4

AllTables(S) == \A x \in S : Fits(x) /\ PointTable(x.points)
LEMMA ImportTable ==
  ASSUME NEW d, Fits(d), PointTable(d.points), NEW body, Lists(body), SendsModbus(body), NEW known,
         NEW seen, ReadKeys(seen), NEW e \in Import(d, body, known, seen)
  PROVE  PointTable(e.points)
<1> DEFINE n == RowsOf(body)
           fallback == Fallback(body, known)
<1>1. PICK After : Runs(After, d, body, known, seen)
  BY ImportRuns
<1>2. n \in Nat /\ n = Len(body.points) + Len(body.equipment)
  BY DEF RowsOf, Lists
<1>3. ASSUME NEW i \in 1..n, NEW x, Fits(x), PointTable(x.points),
             NEW f \in ImportRow(x, body, i, fallback, seen, d.equip)
      PROVE  Fits(f) /\ PointTable(f.points)
  <2> HIDE DEF n, fallback
  <2>1. CASE i <= Len(body.points)
    <3>1. f \in ImportPoint(x, body.points[i], fallback)
      BY <1>3, <2>1 DEF ImportRow
    <3>2. body.points[i].mb \in Modbus \cup {Omit, Null}
      BY <1>2, <2>1 DEF SendsModbus, Lists
    <3>3. Fits(f)
      BY <1>3, <3>1, ImportPointSafe DEF Safe
    <3>4. PointTable(f.points)
      BY <1>3, <3>1, <3>2, ByIdTable, ByIdentityTable DEF ImportPoint
    <3> QED BY <3>3, <3>4
  <2>2. CASE ~ (i <= Len(body.points))
    <3> DEFINE j == i - Len(body.points)
               row == body.equipment[j]
    <3>1. j \in DOMAIN body.equipment
      BY <1>2, <2>2 DEF Lists
    <3>2. f \in ImportEquipment(x, row, fallback, seen, d.equip)
      BY <1>3, <2>2 DEF ImportRow
    <3>3. row.meta \subseteq Keys
      BY <3>1 DEF Lists
    <3> HIDE DEF row, j
    <3>4. Fits(f)
      BY <1>3, <3>2, <3>3, ImportEquipmentGrows
    <3>5. f.points = x.points
      BY <1>3, <3>2, ImportEquipmentPoints
    <3> QED BY <1>3, <3>4, <3>5
  <2> QED BY <2>1, <2>2
<1>4. /\ After[0] = {d} /\ Import(d, body, known, seen) = After[n]
      /\ \A i \in 1..n : \A f \in After[i] :
           \E x \in After[i - 1] : f \in ImportRow(x, body, i, fallback, seen, d.equip)
  BY <1>1 DEF Runs, AfterRow
<1> HIDE DEF n, fallback
<1>5. AllTables(After[0])
  BY <1>4 DEF AllTables
<1>6. ASSUME NEW i \in 1..n, AllTables(After[i - 1]) PROVE AllTables(After[i])
  <2>1. ASSUME NEW f \in After[i] PROVE Fits(f) /\ PointTable(f.points)
    <3>1. PICK x \in After[i - 1] : f \in ImportRow(x, body, i, fallback, seen, d.equip)
      BY <1>4
    <3>2. Fits(x) /\ PointTable(x.points)
      BY <1>6 DEF AllTables
    <3> QED BY <1>3, <3>1, <3>2
  <2> QED BY <2>1 DEF AllTables
<1>7. n \in Nat
  BY <1>2
<1> DEFINE Good == {i \in 0..n : AllTables(After[i])}
<1>8. 0 \in Good
  BY <1>7, <1>5
<1>9. ASSUME NEW i \in 1..n, i - 1 \in Good PROVE i \in Good
  <2>1. i \in 0..n /\ i - 1 \in 0..n
    BY <1>7
  <2>2. AllTables(After[i - 1])
    BY <1>9
  <2> QED BY <1>6, <2>1, <2>2
<1>10. n \in Good
  <2> HIDE DEF Good
  <2> QED BY <1>2, <1>8, <1>9, UpTo
<1>11. AllTables(After[n])
  BY <1>10
<1>12. e \in After[n]
  BY <1>4
<1> HIDE DEF Good
<1> QED BY <1>11, <1>12 DEF AllTables

\* What requests carry for the table.
CarriesPoints(l, a) ==
  /\ l = "insert_point" => Point(a)
  /\ l = "holds" => SendsModbus(a)
  /\ l = "import" => SendsModbus(a.body)
PointsInv == PointTable(points) /\ \A c \in Clients : CarriesPoints(pc[c], arg[c])

LEMMA PointsInit == Init => PointsInv
<1> SUFFICES ASSUME Init PROVE PointsInv
  OBVIOUS
<1>1. PICK d \in Seeds : points = d.points
  BY DEF Init
<1>2. PointTable(points)
  BY <1>1, SeedsFit
<1>3. pc = [c \in Clients |-> "idle"]
  BY DEF Init, Idle
<1> QED BY <1>2, <1>3 DEF PointsInv, CarriesPoints

LEMMA PointsHolding ==
  ASSUME RowsInv, PointsInv, NEW c \in Clients, NEW l, NEW a, Hold(c, l, a), CarriesPoints(l, a), UNCHANGED rows
  PROVE  PointsInv'
<1>1. /\ pc'[c] = l /\ arg'[c] = a
      /\ \A o \in Clients \ {c} : pc'[o] = pc[o] /\ arg'[o] = arg[o]
  BY Holding DEF RowsInv
<1>2. ASSUME NEW o \in Clients PROVE CarriesPoints(pc'[o], arg'[o])
  BY <1>1 DEF PointsInv
<1> QED BY <1>2 DEF PointsInv, rows

LEMMA PointsEnding ==
  ASSUME RowsInv, PointsInv, NEW c \in Clients, Done(c), PointTable(points')
  PROVE  PointsInv'
<1>1. /\ pc'[c] = "idle"
      /\ \A o \in Clients \ {c} : pc'[o] = pc[o] /\ arg'[o] = arg[o]
  BY Ending DEF RowsInv
<1>2. ASSUME NEW o \in Clients PROVE CarriesPoints(pc'[o], arg'[o])
  <2>1. CASE o = c
    BY <1>1, <2>1 DEF CarriesPoints
  <2>2. CASE o # c
    BY <1>1, <2>2 DEF PointsInv
  <2> QED BY <2>1, <2>2
<1> QED BY <1>2 DEF PointsInv

LEMMA PointsStep == RowsInv /\ PointsInv /\ [Next]_vars => PointsInv'
<1> SUFFICES ASSUME RowsInv, PointsInv, [Next]_vars PROVE PointsInv'
  OBVIOUS
<1>a. /\ Fits(db) /\ PointTable(points) /\ db.points = points /\ db.sites = sites
      /\ \A c \in Clients : CarriesPoints(pc[c], arg[c]) /\ Carries(pc[c], arg[c], fresh)
  BY DEF RowsInv, Tables, PointsInv, db
\* Requests that carry nothing for it.
<1>b. ASSUME NEW c \in Clients, NEW l, NEW a, Hold(c, l, a), UNCHANGED rows, l \notin {"insert_point", "holds", "import"}
      PROVE  PointsInv'
  BY <1>b, PointsHolding DEF CarriesPoints
<1>c. ASSUME NEW c \in Clients, Done(c), points' = points PROVE PointsInv'
  BY <1>a, <1>c, PointsEnding
<1>d. ASSUME AtOnce, PointTable(points') PROVE PointsInv'
  BY <1>d DEF AtOnce, PointsInv
<1>1. ASSUME NEW c \in Clients, NEW n \in Names, CreateSite(c, n) \/ ResolveSite(c, n) PROVE PointsInv'
  BY <1>1, <1>b DEF CreateSite, ResolveSite, Start
<1>2. ASSUME NEW c \in Clients, NEW s, NEW n, UpdateSite(c, s, n) PROVE PointsInv'
  BY <1>2, <1>b DEF UpdateSite, Start
<1>3. ASSUME NEW c \in Clients, NEW e, CreateEquipment(c, e) PROVE PointsInv'
  BY <1>3, <1>b DEF CreateEquipment, Start
<1>4. ASSUME NEW c \in Clients, NEW e, NEW b, UpdateEquipment(c, e, b) PROVE PointsInv'
  BY <1>4, <1>b DEF UpdateEquipment, Start
<1>5. ASSUME NEW c \in Clients, NEW p \in NewPoint, CreatePoint(c, p) PROVE PointsInv'
  <2>1. Hold(c, "insert_point", p) /\ UNCHANGED rows
    BY <1>5 DEF CreatePoint, Start
  <2>2. Point(p)
    BY DEF NewPoint, Point, PointFields
  <2> QED BY <2>1, <2>2, PointsHolding DEF CarriesPoints
<1>6. ASSUME NEW c \in Clients, NEW f, NEW t, HoldTemplate(c, f, t) PROVE PointsInv'
  <2>1. PICK over \in Overlays(db) : Start(c, "holds", Tagged(Template(db, f, over), t))
    BY <1>6 DEF HoldTemplate, Templates
  <2> DEFINE b == Tagged(Template(db, f, over), t)
  <2>2. Hold(c, "holds", b) /\ UNCHANGED rows
    BY <2>1 DEF Start
  <2>3. SendsModbus(b)
    BY <1>a, TaggedTemplate
  <2> HIDE DEF b
  <2> QED BY <2>2, <2>3, PointsHolding DEF CarriesPoints
<1>7. ASSUME NEW b, SendsModbus(b) PROVE CarriesPoints("import", Sent(b))
  BY <1>7 DEF CarriesPoints, Sent
<1>8. ASSUME NEW c \in Clients, NEW body \in Bodies, SendBody(c, body) PROVE PointsInv'
  <2>1. Hold(c, "import", Sent(body)) /\ UNCHANGED rows
    BY <1>8 DEF SendBody, Start
  <2>2. CarriesPoints("import", Sent(body))
    BY <1>7, BodiesSendModbus
  <2> QED BY <2>1, <2>2, PointsHolding
<1>9. ASSUME NEW c \in Clients, SendTemplate(c) PROVE PointsInv'
  <2>1. UNCHANGED rows /\ pc[c] = "holds"
    BY <1>9 DEF SendTemplate
  <2>2. CASE Hold(c, "import", Sent(arg[c]))
    <3>1. CarriesPoints("import", Sent(arg[c]))
      BY <1>7, <1>a, <2>1 DEF CarriesPoints
    <3> QED BY <2>1, <2>2, <3>1, PointsHolding
  <2>3. CASE Done(c)
    BY <1>c, <2>1, <2>3 DEF rows
  <2> QED BY <1>9, <2>2, <2>3 DEF SendTemplate
<1>10. ASSUME NEW c \in Clients, ReadMetadata(c) PROVE PointsInv'
  BY <1>10, <1>b DEF ReadMetadata
<1>11. ASSUME NEW c \in Clients, InsertSite(c) \/ RenameSite(c) \/ StoreEquipment(c) \/ RejectImport(c) PROVE PointsInv'
  BY <1>11, <1>c DEF InsertSite, RenameSite, StoreEquipment, RejectImport, rows
<1>12. ASSUME NEW c \in Clients, InsertEquipment(c) PROVE PointsInv'
  <2>1. Done(c)
    BY <1>12 DEF InsertEquipment
  <2>2. CASE Becomes(NewId(db, arg[c], "equip"))
    <3>1. points' = points
      BY <1>a, <2>2, NewUnitIs DEF Becomes
    <3> QED BY <1>c, <2>1, <3>1
  <2>3. CASE UNCHANGED rows
    BY <1>c, <2>1, <2>3 DEF rows
  <2> QED BY <1>12, <2>2, <2>3 DEF InsertEquipment
<1>13. ASSUME NEW c \in Clients, InsertPoint(c) PROVE PointsInv'
  <2>1. pc[c] = "insert_point" /\ Done(c)
    BY <1>13 DEF InsertPoint
  <2>2. CASE Becomes(NewId(db, arg[c], "points"))
    <3>1. Point(arg[c])
      BY <1>a, <2>1 DEF CarriesPoints
    <3>2. PointTable(NewId(db, arg[c], "points").points)
      BY <1>a, <3>1, TableGrown
    <3>3. PointTable(points')
      BY <2>2, <3>2 DEF Becomes
    <3> QED BY <2>1, <3>3, PointsEnding
  <2>3. CASE UNCHANGED rows
    BY <1>c, <2>1, <2>3 DEF rows
  <2> QED BY <1>13, <2>2, <2>3 DEF InsertPoint
<1>14. ASSUME NEW c \in Clients, CommitImport(c) PROVE PointsInv'
  <2>1. PICK d \in Import(db, arg[c].body, arg[c].known, arg[c].seen) : points' = d.points
    BY <1>14 DEF CommitImport
  <2>2. pc[c] = "import" /\ Done(c)
    BY <1>14 DEF CommitImport
  <2>3. Lists(arg[c].body) /\ ReadKeys(arg[c].seen) /\ SendsModbus(arg[c].body)
    BY <1>a, <2>2 DEF Carries, CarriesPoints
  <2>4. PointTable(d.points)
    BY <1>a, <2>3, ImportTable
  <2> QED BY <2>1, <2>2, <2>4, PointsEnding
<1>15. ASSUME NEW s, DeleteSite(s) PROVE PointsInv'
  <2> DEFINE e == WithoutEquipment(db, {x \in DOMAIN equip : equip[x].site = s})
             f == WithoutSite(db, s)
  <2>1. e.points = Only(points, {p \in DOMAIN points : points[p].equip \notin {x \in DOMAIN equip : equip[x].site = s}})
    BY <1>a DEF WithoutEquipment, Fits, db
  <2>2. f.points = Only(e.points, {p \in DOMAIN e.points : e.points[p].site # s})
    <3>1. DOMAIN e = {"sites", "equip", "points", "fresh"}
      BY <1>a DEF WithoutEquipment, Fits, db
    <3>2. f = [e EXCEPT !.sites = Only(@, DOMAIN @ \ {s}), !.points = Only(@, {p \in DOMAIN @ : e.points[p].site # s})]
      BY DEF WithoutSite, db
    <3> HIDE DEF e, f
    <3> QED BY <3>1, <3>2
  <2> HIDE DEF e, f
  <2>3. PointTable(f.points)
    BY <1>a, <2>1, <2>2, TableShrunk
  <2>4. AtOnce /\ points' = f.points
    BY <1>15 DEF DeleteSite, Becomes, f
  <2> QED BY <1>d, <2>3, <2>4
<1>16. ASSUME NEW e, DeleteEquipment(e) PROVE PointsInv'
  <2>1. AtOnce /\ points' = WithoutEquipment(db, {e}).points
    BY <1>16 DEF DeleteEquipment, Becomes
  <2>2. WithoutEquipment(db, {e}).points = Only(points, {p \in DOMAIN points : points[p].equip \notin {e}})
    BY <1>a DEF WithoutEquipment, Fits, db
  <2> QED BY <1>a, <1>d, <2>1, <2>2, TableShrunk
<1>17. ASSUME NEW p, NEW b \in Patches, UpdatePoint(p, b) PROVE PointsInv'
  <2>1. PICK d \in StorePoint(db, p, Updated(points[p], b)) : Becomes(d)
    BY <1>17 DEF UpdatePoint
  <2>2. AtOnce /\ Point(points[p])
    BY <1>17, <1>a DEF UpdatePoint, PointTable
  <2>3. PointTable(d.points)
    BY <1>a, <2>2, UpdatedIsPoint, TableStored
  <2> QED BY <1>d, <2>1, <2>2, <2>3 DEF Becomes
<1>18. ASSUME NEW p, DeletePoint(p) PROVE PointsInv'
  <2>1. AtOnce /\ points' = Only(points, DOMAIN points \ {p})
    BY <1>18 DEF DeletePoint
  <2> QED BY <1>a, <1>d, <2>1, TableShrunk
<1>19. ASSUME NEW o, Discover(o) PROVE PointsInv'
  BY <1>19 DEF Discover, PointsInv, rows
<1>20. CASE UNCHANGED vars
  BY <1>20 DEF vars, PointsInv, rows
<1>21. ASSUME NEW c \in Clients, Reset(c) PROVE PointsInv'
  BY <1>21, <1>b DEF Reset, Start
<1>22. ASSUME NEW c \in Clients, ClearModel(c) PROVE PointsInv'
  <2>1. Hold(c, "reset", Null) /\ points' = Only(points, {})
    BY <1>22, <1>a, EmptiedFits DEF ClearModel, Becomes
  <2>2. PointTable(points')
    BY <1>a, <2>1, TableShrunk
  <2>3. /\ pc'[c] = "reset"
        /\ \A o \in Clients \ {c} : pc'[o] = pc[o] /\ arg'[o] = arg[o]
    BY <2>1, Holding DEF RowsInv
  <2>4. \A o \in Clients : CarriesPoints(pc'[o], arg'[o])
    BY <1>a, <2>3 DEF CarriesPoints
  <2> QED BY <2>2, <2>4 DEF PointsInv
<1>23. ASSUME NEW c \in Clients, ResetGraph(c) PROVE PointsInv'
  <2>1. /\ pc'[c] = "idle" /\ points' = points
        /\ \A o \in Clients \ {c} : pc'[o] = pc[o] /\ arg'[o] = arg[o]
    BY <1>23, Resetting DEF RowsInv, ResetGraph, rows
  <2>2. \A o \in Clients : CarriesPoints(pc'[o], arg'[o])
    BY <1>a, <2>1 DEF CarriesPoints
  <2> QED BY <1>a, <2>1, <2>2 DEF PointsInv
<1> QED BY <1>1, <1>2, <1>3, <1>4, <1>5, <1>6, <1>8, <1>9, <1>10, <1>11, <1>12, <1>13, <1>14, <1>15, <1>16,
          <1>17, <1>18, <1>19, <1>20, <1>21, <1>22, <1>23 DEF Next

\* Every database the requests lead to is one the schema allows: names of
\* equipment and keys of points are unique, references resolve, and every id is
\* below the next one; a stored Modbus configuration is a normal one; whatever
\* creates, patches, cascades and imports overlap.
THEOREM SchemaKept == Spec => []TypeOK
<1>1. RowsInv /\ PointsInv => TypeOK
  BY DEF RowsInv, Tables, PointsInv, TypeOK
<1> QED BY <1>1, RowsInit, RowsStep, PointsInit, PointsStep, PTL DEF Spec

------------------------------------------------------------------------------
\* A template imported as it is.

\* The row of a point writes what it has over the point, but for the object.
LEMMA PointRowStores ==
  ASSUME Fits(db), PointTable(points), NEW p \in DOMAIN points, NEW x, Fits(x), x.sites = sites, x.equip = equip,
         p \in DOMAIN x.points, Point(x.points[p]),
         x.points[p].site = points[p].site, x.points[p].ext = points[p].ext, NEW fallback
  PROVE  LET q == Changed(x.points[p], PointRow(db, p), points[p].equip) IN
         /\ ImportPoint(x, PointRow(db, p), fallback) = {[x EXCEPT !.points[p] = q]}
         /\ Point(q) /\ q.site = points[p].site /\ q.ext = points[p].ext /\ q.bac = x.points[p].bac
         /\ q.equip \in {points[p].equip, x.points[p].equip} /\ q.polling \in {points[p].polling, x.points[p].polling}
         /\ q.tag \in {points[p].tag, x.points[p].tag} /\ q.mb \in {points[p].mb, x.points[p].mb}
<1> DEFINE row == PointRow(db, p)
           s == points[p].site
           e == points[p].equip
           q == Changed(x.points[p], row, e)
<1>1. /\ row.pid = p /\ row.site = s /\ row.equip = e /\ row.ext = points[p].ext
      /\ row.mb = points[p].mb /\ row.polling = points[p].polling /\ row.tag = points[p].tag
      /\ e = Null => row.ename = Null
  BY DbIs DEF PointRow
<1>2. p \in Nat /\ s \in DOMAIN sites /\ s \in Nat /\ e \in DOMAIN equip \cup {Null}
  BY DbIs DEF Fits, PointFits
<1>3. Point(points[p])
  BY DEF PointTable
<1> HIDE DEF row, s, e
<1>4. p # Null /\ s # Null /\ Parses(s)
  BY <1>2, NullIsNoId DEF Parses, IsUuid
<1>5. ~ BadModbus(row) /\ (row.mb = Omit \/ ModbusOf(row) = points[p].mb)
  BY <1>1, <1>3 DEF BadModbus, ModbusOf, Point, NormalModbus
<1>6. SitesOfUpdate(x, row, fallback) = {s}
  BY <1>1, <1>4 DEF SitesOfUpdate, SitesFor
<1>7. Linked(x, row, s) = {<<x, e>>}
  BY <1>1 DEF Linked
<1>8. Says(row, e)
  BY <1>1, <1>4 DEF Says
<1>9. /\ DOMAIN x.points[p] = PointFields /\ q = [g \in PointFields |-> q[g]]
      /\ q.site = s /\ q.ext = points[p].ext /\ q.bac = x.points[p].bac
      /\ q.equip = Pick(e, x.points[p].equip) /\ q.polling = Pick(row.polling, x.points[p].polling)
      /\ q.tag = Pick(row.tag, x.points[p].tag)
      /\ q.mb = IF row.mb = Omit THEN x.points[p].mb ELSE ModbusOf(row)
  <2>1. DOMAIN x.points[p] = PointFields
    BY DEF Point
  <2>2. x.points[p].site = s
    BY DEF s
  <2> QED BY <1>1, <2>1, <2>2 DEF Changed, PointFields, Pick
<1> HIDE DEF q
<1>10. PointFits(x, p, q)
  <2>1. PointFits(x, p, x.points[p])
    BY DEF Fits
  <2> QED BY <1>2, <1>9, <2>1 DEF PointFits, Pick, s
<1>11. ById(x, row, fallback) = StorePoint(x, p, q)
  <2> DEFINE Stored1(w) == IF ~ Says(row, w[2]) THEN {w[1]}
                           ELSE IF row.pid \in DOMAIN x.points
                                THEN StorePoint(w[1], row.pid, Changed(x.points[row.pid], row, w[2]))
                                ELSE ByIdentity(w[1], row, fallback)
             At(t) == IF BadModbus(row) \/ ~ Parses(row.site) THEN {}
                      ELSE UNION {Stored1(w) : w \in IF t = Null /\ row.equip = Null THEN {<<x, Null>>} ELSE Linked(x, row, t)}
  <2>1. Stored1(<<x, e>>) = StorePoint(x, p, q)
    BY <1>1, <1>8 DEF q
  <2>2. ById(x, row, fallback) = UNION {At(t) : t \in {s}}
    BY <1>6 DEF ById
  <2> HIDE DEF Stored1
  <2>3. At(s) = UNION {Stored1(w) : w \in {<<x, e>>}}
    BY <1>1, <1>4, <1>5, <1>7
  <2>4. At(s) = StorePoint(x, p, q)
    BY <2>1, <2>3
  <2> HIDE DEF At
  <2> QED BY <2>2, <2>4
<1>12. Point(q)
  BY <1>1, <1>3, <1>5, <1>9 DEF Point
<1>13. ImportPoint(x, row, fallback) = {[x EXCEPT !.points[p] = q]}
  BY <1>1, <1>4, <1>10, <1>11 DEF ImportPoint, StorePoint
<1> QED BY <1>1, <1>5, <1>9, <1>12, <1>13 DEF row, s, e, q, Pick

\* It puts a point that is as it was back as it was.
LEMMA PointRowRestores ==
  ASSUME Fits(db), PointTable(points), NEW p \in DOMAIN points, NEW x, Fits(x), x.sites = sites, x.equip = equip,
         p \in DOMAIN x.points, x.points[p] = points[p], NEW fallback
  PROVE  ImportPoint(x, PointRow(db, p), fallback) = {[x EXCEPT !.points[p] = points[p]]}
<1> DEFINE q == Changed(x.points[p], PointRow(db, p), points[p].equip)
<1>1. Point(points[p]) /\ Point(x.points[p])
  BY DEF PointTable
<1>2. /\ ImportPoint(x, PointRow(db, p), fallback) = {[x EXCEPT !.points[p] = q]}
      /\ Point(q) /\ q.site = points[p].site /\ q.ext = points[p].ext /\ q.bac = x.points[p].bac
      /\ q.equip \in {points[p].equip, x.points[p].equip} /\ q.polling \in {points[p].polling, x.points[p].polling}
      /\ q.tag \in {points[p].tag, x.points[p].tag} /\ q.mb \in {points[p].mb, x.points[p].mb}
  BY <1>1, PointRowStores
<1> HIDE DEF q
<1>3. \A g \in PointFields : q[g] = points[p][g]
  BY <1>2 DEF PointFields
<1>4. q = points[p]
  BY <1>1, <1>2, <1>3 DEF Point
<1> QED BY <1>2, <1>4

\* The row of an object is stored under its external id, when a site is known for it.
Upserts(x, row, o, s, fallback) ==
  LET p == Created(row, s, Null)
  IN /\ row.pid = Null /\ row.ext = ObjName[o] /\ row.bac = o
     /\ p.site = s /\ p.ext = ObjName[o] /\ p.bac = o /\ p.polling = FALSE /\ p.equip = Null
     /\ ModbusOf(row) = Null /\ row.tag = Null /\ Polled(row) = FALSE
     /\ ImportPoint(x, row, fallback) = IF s \in DOMAIN sites THEN Upsert(x, row, s, Null) ELSE {}
LEMMA ProposedRowUpserts ==
  ASSUME NEW o \in Range(Objects), NEW site, NEW x, Fits(x), x.sites = sites, NEW fallback
  PROVE  Upserts(x, ProposedRow(db, o, site), o, Pick(site, fallback), fallback)
<1> DEFINE row == ProposedRow(db, o, site)
           s == Pick(site, fallback)
           p == Created(row, s, Null)
           At(t) == IF BadModbus(row) \/ ~ Complete(row, t) THEN {}
                    ELSE UNION {Upsert(w[1], row, t, w[2]) : w \in Linked(x, row, t)}
<1>1. /\ row.pid = Null /\ row.site = site /\ row.ext = ObjName[o] /\ row.bac = o
      /\ row.equip = Null /\ row.ename = Null /\ row.mb = Null /\ row.polling = FALSE
      /\ row.tag = Null /\ (site = Null => row.sname = Null)
  BY DEF ProposedRow, Blank
<1> HIDE DEF row
<1>2. o # Null /\ ObjName[o] # Null /\ FALSE # Null
  BY NullIsNoValue
<1>3. ModbusOf(row) = Null /\ ~ BadModbus(row) /\ Polled(row) = FALSE
  BY <1>1, <1>2 DEF ModbusOf, BadModbus, Polled
<1>4. p.site = s /\ p.ext = ObjName[o] /\ p.bac = o /\ p.polling = FALSE /\ p.equip = Null
  BY <1>1, <1>3 DEF Created
<1> HIDE DEF s
<1>5. SitesFor(x, row, fallback) = {s}
  BY <1>1 DEF SitesFor, Pick, s
<1>6. Linked(x, row, s) = {<<x, Null>>}
  BY <1>1 DEF Linked
<1>7. Complete(row, s) <=> IsUuid(s)
  BY <1>1, <1>2 DEF Complete
<1>8. ASSUME s \notin DOMAIN sites PROVE Upsert(x, row, s, Null) = {}
  <2>1. TakenBy(x, s, row.ext) = {}
    BY <1>8 DEF TakenBy, Fits, PointFits
  <2>2. ~ PointFits(x, x.fresh, p)
    BY <1>4, <1>8 DEF PointFits
  <2> QED BY <2>1, <2>2 DEF Upsert
<1>9. s \in DOMAIN sites => IsUuid(s)
  BY DEF Fits, IsUuid
<1> HIDE DEF p
<1>10. At(s) = IF s \in DOMAIN sites THEN Upsert(x, row, s, Null) ELSE {}
  <2>1. IsUuid(s) => At(s) = UNION {Upsert(w[1], row, s, w[2]) : w \in {<<x, Null>>}}
    BY <1>3, <1>6, <1>7
  <2>2. IsUuid(s) => At(s) = Upsert(x, row, s, Null)
    BY <2>1
  <2>3. ~ IsUuid(s) => At(s) = {}
    BY <1>7
  <2> HIDE DEF At
  <2> QED BY <1>8, <1>9, <2>2, <2>3
<1>11. ByIdentity(x, row, fallback) = UNION {At(t) : t \in {s}}
  BY <1>5 DEF ByIdentity
<1> HIDE DEF At
<1>12. ImportPoint(x, row, fallback) = At(s)
  BY <1>1, <1>11 DEF ImportPoint
<1> QED BY <1>1, <1>3, <1>4, <1>10, <1>12 DEF Upserts, row, s, p

\* Where the id is free it becomes a point.
Adds(x, row, o, s, fallback) ==
  LET p == Created(row, s, Null)
  IN /\ row.pid = Null /\ row.ext = ObjName[o] /\ row.bac = o
     /\ p.ext = ObjName[o] /\ p.bac = o /\ p.polling = FALSE
     /\ ImportPoint(x, row, fallback) = IF s \in DOMAIN sites THEN {NewId(x, p, "points")} ELSE {}
LEMMA ProposedRowAdds ==
  ASSUME NEW o \in Range(Objects), NEW site, NEW x, Fits(x), x.sites = sites, NEW fallback,
         TakenBy(x, Pick(site, fallback), ObjName[o]) = {}
  PROVE  Adds(x, ProposedRow(db, o, site), o, Pick(site, fallback), fallback)
<1> DEFINE row == ProposedRow(db, o, site)
           s == Pick(site, fallback)
           p == Created(row, s, Null)
<1>1. Upserts(x, row, o, s, fallback)
  BY ProposedRowUpserts
<1> HIDE DEF row, s
<1>2. s \in DOMAIN sites => PointFits(x, x.fresh, p)
  BY <1>1 DEF Upserts, PointFits, s
<1>3. s \in DOMAIN sites => Upsert(x, row, s, Null) = {NewId(x, p, "points")}
  BY <1>1, <1>2 DEF Upsert, Upserts, s
<1> QED BY <1>1, <1>3 DEF Adds, Upserts, row, s

\* The example is refused: its site is no id.
LEMMA ScaffoldRefused ==
  ASSUME NEW x, NEW fallback
  PROVE  ImportPoint(x, Scaffold, fallback) = {}
<1> DEFINE At(t) == IF BadModbus(Scaffold) \/ ~ Complete(Scaffold, t) THEN {}
                    ELSE UNION {Upsert(w[1], Scaffold, t, w[2]) : w \in Linked(x, Scaffold, t)}
<1>1. Scaffold.pid = Null /\ Scaffold.site = Placeholder
  BY DEF Scaffold, Blank
<1>2. Placeholder # Null /\ ~ IsUuid(Placeholder)
  BY PlaceholderIsNoId DEF IsUuid
<1>3. SitesFor(x, Scaffold, fallback) = {Placeholder}
  BY <1>1, <1>2 DEF SitesFor
<1>4. At(Placeholder) = {}
  BY <1>2 DEF Complete
<1>5. ByIdentity(x, Scaffold, fallback) = UNION {At(t) : t \in {Placeholder}}
  BY <1>3 DEF ByIdentity
<1> HIDE DEF At
<1> QED BY <1>1, <1>4, <1>5 DEF ImportPoint

LEMMA TheOnlyOf ==
  ASSUME NEW S
  PROVE  TheOnly(S) \in S \cup {Null} /\ (Cardinality(S) = 1 => TheOnly(S) \in S)
<1>1. Cardinality(S) = 1 => S # {}
  BY FS_EmptySet
<1> QED BY <1>1 DEF TheOnly

\* A template names no site that is not there.
LEMMA TemplateKnown ==
  ASSUME Fits(db), NEW f \in DOMAIN sites \cup {Null}, NEW body, body.equipment = <<>>,
         body.points \in Seq(TemplateRows(db, f))
  PROVE  Unknown(body, DOMAIN sites) = {} /\ Fallback(body, DOMAIN sites) \in DOMAIN sites \cup {Null}
<1>1. Pick(f, TheOnly(DOMAIN sites)) \in DOMAIN sites \cup {Null}
  BY TheOnlyOf DEF Pick
<1>2. ASSUME NEW i \in DOMAIN body.points PROVE body.points[i].site \in DOMAIN sites \cup {Null, Placeholder}
  <2>1. body.points[i] \in TemplateRows(db, f) /\ db.sites = sites /\ db.points = points
    BY DEF db
  <2>2. ASSUME NEW p \in DOMAIN points, body.points[i] = PointRow(db, p) PROVE body.points[i].site \in DOMAIN sites
    BY <2>1, <2>2 DEF PointRow, Fits, PointFits
  <2>3. ASSUME NEW o, body.points[i] = ProposedRow(db, o, Pick(f, TheOnly(DOMAIN sites)))
        PROVE  body.points[i].site = Pick(f, TheOnly(DOMAIN sites))
    BY <2>3 DEF ProposedRow, Blank
  <2>4. Scaffold.site = Placeholder
    BY DEF Scaffold, Blank
  <2> QED BY <1>1, <2>1, <2>2, <2>3, <2>4 DEF TemplateRows
<1>3. DOMAIN body.equipment = {}
  OBVIOUS
<1>4. InPayload(body) \subseteq DOMAIN sites
  BY <1>2, <1>3, NullIsNoId, PlaceholderIsNoId DEF InPayload, IsUuid
<1> QED BY <1>4, TheOnlyOf DEF Unknown, Fallback

\* After some rows of a template: points are as they were, or moved; new ones are
\* of objects without a point.
Held(x, body) ==
  /\ Fits(x) /\ PointTable(x.points) /\ x.sites = sites /\ x.equip = equip
  /\ \A p \in DOMAIN points : p \in DOMAIN x.points /\ (x.points[p] = points[p] \/ Moved(body, p, x.points[p]))
  /\ \A p \in DOMAIN x.points \ DOMAIN points :
       x.points[p].bac \in disc /\ PointsAt(db, x.points[p].bac) = {} /\ x.points[p].polling = FALSE
Refused(body, row) == row.pid = Null /\ ~ IsUuid(SiteOfRow(body, row))

\* One point written, to what may be held.
LEMMA WrittenHolds ==
  ASSUME NEW body, NEW x, Held(x, body), NEW p \in DOMAIN x.points, NEW q, Point(q),
         NEW y, y = [x EXCEPT !.points[p] = q], Fits(y),
         p \in DOMAIN points => q = points[p] \/ Moved(body, p, q),
         p \notin DOMAIN points => q.bac \in disc /\ PointsAt(db, q.bac) = {} /\ q.polling = FALSE
  PROVE  Held(y, body)
<1>1. /\ y.sites = x.sites /\ y.equip = x.equip /\ DOMAIN y.points = DOMAIN x.points /\ y.points[p] = q
      /\ \A r \in DOMAIN x.points : r # p => y.points[r] = x.points[r]
  BY DEF Held, Fits
<1>2. PointTable(y.points)
  <2>1. y.points = [x.points EXCEPT ![p] = q]
    BY DEF Held, Fits
  <2> QED BY <1>1, <2>1 DEF Held, PointTable
<1> QED BY <1>1, <1>2 DEF Held

LEMMA PointRowHolds ==
  ASSUME Fits(db), PointTable(points), NEW body, NEW p \in DOMAIN points, NEW x, Held(x, body), NEW fallback
  PROVE  \E y : ImportPoint(x, PointRow(db, p), fallback) = {y} /\ Held(y, body)
<1> DEFINE q == Changed(x.points[p], PointRow(db, p), points[p].equip)
           y == [x EXCEPT !.points[p] = q]
<1>1. /\ Fits(x) /\ PointTable(x.points) /\ x.sites = sites /\ x.equip = equip
      /\ p \in DOMAIN x.points /\ (x.points[p] = points[p] \/ Moved(body, p, x.points[p]))
  BY DEF Held
<1>2. Point(x.points[p]) /\ x.points[p].site = points[p].site /\ x.points[p].ext = points[p].ext
  BY <1>1 DEF PointTable, Moved
<1>3. /\ ImportPoint(x, PointRow(db, p), fallback) = {y}
      /\ Point(q) /\ q.site = points[p].site /\ q.ext = points[p].ext /\ q.bac = x.points[p].bac
      /\ q.equip \in {points[p].equip, x.points[p].equip} /\ q.polling \in {points[p].polling, x.points[p].polling}
      /\ q.tag \in {points[p].tag, x.points[p].tag} /\ q.mb \in {points[p].mb, x.points[p].mb}
  BY <1>1, <1>2, PointRowStores
<1>4. Fits(y)
  <2>1. y \in ImportPoint(x, PointRow(db, p), fallback)
    BY <1>3
  <2> HIDE DEF y
  <2> QED BY <1>1, <2>1, ImportPointSafe DEF Safe
<1> HIDE DEF q
<1>5. CASE x.points[p] = points[p]
  <2>1. Point(points[p]) /\ \A g \in PointFields : q[g] = points[p][g]
    BY <1>2, <1>3, <1>5 DEF PointFields
  <2>2. q = points[p]
    BY <1>3, <2>1 DEF Point
  <2> QED BY <1>1, <1>3, <1>4, <2>2, WrittenHolds
<1>6. CASE Moved(body, p, x.points[p])
  <2>1. Moved(body, p, q)
    BY <1>3, <1>6 DEF Moved
  <2> QED BY <1>1, <1>3, <1>4, <2>1, WrittenHolds
<1> QED BY <1>1, <1>5, <1>6

LEMMA ProposedRowHolds ==
  ASSUME Fits(db), NEW body, NEW o \in disc \cap Range(Objects), PointsAt(db, o) = {}, NEW site,
         ProposedRow(db, o, site) \in Range(body.points), NEW x, Held(x, body)
  PROVE  LET s == Pick(site, Fallback(body, DOMAIN sites))
             rest == ImportPoint(x, ProposedRow(db, o, site), Fallback(body, DOMAIN sites)) IN
         IF s \in DOMAIN sites THEN \E y : rest = {y} /\ Held(y, body) ELSE rest = {}
<1> DEFINE fallback == Fallback(body, DOMAIN sites)
           row == ProposedRow(db, o, site)
           s == Pick(site, fallback)
           new == Created(row, s, Null)
           rest == ImportPoint(x, row, fallback)
<1>1. /\ Fits(x) /\ PointTable(x.points) /\ x.sites = sites /\ x.equip = equip
      /\ \A p \in DOMAIN points : p \in DOMAIN x.points /\ (x.points[p] = points[p] \/ Moved(body, p, x.points[p]))
      /\ \A p \in DOMAIN x.points \ DOMAIN points :
           x.points[p].bac \in disc /\ PointsAt(db, x.points[p].bac) = {} /\ x.points[p].polling = FALSE
  BY DEF Held
<1>2. Upserts(x, row, o, s, fallback) /\ row.site = site /\ SiteOfRow(body, row) = s
  <2>1. row.site = site
    BY DEF ProposedRow, Blank
  <2> QED BY <1>1, <2>1, ProposedRowUpserts DEF SiteOfRow
<1> HIDE DEF row, s, fallback
<1>3. CASE s \notin DOMAIN sites
  BY <1>2, <1>3 DEF Upserts, row, s, fallback
<1>4. CASE s \in DOMAIN sites /\ TakenBy(x, s, row.ext) = {}
  <2> DEFINE y == NewId(x, new, "points")
  <2>1. PointFits(x, x.fresh, new)
    BY <1>1, <1>2, <1>4 DEF Upserts, PointFits
  <2>2. rest = {y}
    BY <1>2, <1>4, <2>1 DEF Upsert, Upserts
  <2>3. Point(new) /\ new.bac = o /\ new.polling = FALSE
    BY <1>2 DEF Upserts, Created, Point, PointFields
  <2>4. Fits(y)
    <3>1. y \in rest
      BY <2>2
    <3> HIDE DEF y, rest
    <3> QED BY <1>1, <3>1, ImportPointSafe DEF Safe, rest
  <2> HIDE DEF new, rest
  <2>5. /\ y.sites = x.sites /\ y.equip = x.equip /\ DOMAIN y.points = DOMAIN x.points \cup {x.fresh}
        /\ y.points[x.fresh] = new
        /\ \A r \in DOMAIN x.points : y.points[r] = x.points[r]
    BY <1>1, NewPointIs
  <2>6. PointTable(y.points)
    BY <1>1, <2>3, TableGrown
  <2>7. x.fresh \notin DOMAIN x.points
    BY <1>1 DEF Fits
  <2> HIDE DEF y
  <2>8. ASSUME NEW p \in DOMAIN points PROVE p \in DOMAIN y.points /\ (y.points[p] = points[p] \/ Moved(body, p, y.points[p]))
    BY <1>1, <2>5
  <2>9. ASSUME NEW p \in DOMAIN y.points \ DOMAIN points
        PROVE  y.points[p].bac \in disc /\ PointsAt(db, y.points[p].bac) = {} /\ y.points[p].polling = FALSE
    BY <1>1, <2>3, <2>5, <2>9
  <2>10. Held(y, body)
    BY <1>1, <2>4, <2>5, <2>6, <2>8, <2>9 DEF Held
  <2> QED BY <1>4, <2>2, <2>10 DEF rest, row, s, fallback
<1>5. CASE s \in DOMAIN sites /\ TakenBy(x, s, row.ext) # {}
  <2> DEFINE p == CHOOSE p \in TakenBy(x, s, row.ext) : TRUE
             q == Overwritten(x.points[p], row, Null)
             y == [x EXCEPT !.points[p] = q]
  <2>1. p \in DOMAIN x.points /\ x.points[p].site = s /\ x.points[p].ext = row.ext
    BY <1>5 DEF TakenBy
  <2> HIDE DEF p
  <2>2. Point(x.points[p]) /\ DOMAIN x.points[p] = PointFields
    BY <1>1, <2>1 DEF PointTable, Point
  <2>3. /\ q.site = s /\ q.ext = row.ext /\ q.mb = x.points[p].mb /\ q.bac = o /\ q.equip = Null
        /\ q.polling = FALSE /\ q.tag = Null
    BY <1>2, <2>1, <2>2 DEF Upserts, Overwritten, PointFields
  <2>4. Point(q)
    BY <1>2, <2>2, <2>3 DEF Overwritten, Upserts, Point
  <2> HIDE DEF q
  <2>5. PointFits(x, p, q)
    <3>1. PointFits(x, p, x.points[p])
      BY <1>1, <2>1 DEF Fits
    <3> QED BY <2>1, <2>3, <3>1 DEF PointFits
  <2>6. rest = {y}
    BY <1>2, <1>5, <2>5 DEF Upsert, Upserts, StorePoint, p, q
  <2>7. Fits(y)
    <3>1. y \in rest
      BY <2>6
    <3> HIDE DEF y, rest
    <3> QED BY <1>1, <3>1, ImportPointSafe DEF Safe, rest
  <2>8. ASSUME p \in DOMAIN points PROVE Moved(body, p, q)
    <3>1. points[p].site = s /\ points[p].ext = row.ext /\ points[p].mb = x.points[p].mb
      BY <1>1, <2>1, <2>8 DEF Moved
    <3>2. p \in TakenBy(db, SiteOfRow(body, row), row.ext)
      BY <1>2, <2>8, <3>1, DbIs DEF TakenBy
    <3>3. row \in NewRows(body) /\ row.bac = o
      BY <1>2 DEF NewRows, Upserts, row
    <3>4. o \in Claims(body, p)
      BY <3>2, <3>3 DEF Claims
    <3> QED BY <2>3, <3>1, <3>4 DEF Moved
  <2>9. Held(y, body)
    BY <2>1, <2>3, <2>4, <2>7, <2>8, WrittenHolds
  <2> QED BY <1>5, <2>6, <2>9 DEF rest, row, s, fallback
<1> QED BY <1>3, <1>4, <1>5

LEMMA RowHolds ==
  ASSUME Fits(db), PointTable(points), NEW f \in DOMAIN sites \cup {Null}, NEW body, body.equipment = <<>>,
         body.points \in Seq(TemplateRows(db, f)), NEW i \in DOMAIN body.points, NEW x, Held(x, body)
  PROVE  LET rest == ImportPoint(x, body.points[i], Fallback(body, DOMAIN sites)) IN
         /\ \A y \in rest : Held(y, body)
         /\ rest = {} <=> Refused(body, body.points[i])
<1> DEFINE fallback == Fallback(body, DOMAIN sites)
           row == body.points[i]
           rest == ImportPoint(x, row, fallback)
           site == Pick(f, TheOnly(DOMAIN sites))
<1>1. /\ row \in TemplateRows(db, f) /\ row \in Range(body.points)
      /\ db.points = points /\ db.sites = sites
  BY DbIs DEF Range
<1>2. fallback \in DOMAIN sites \cup {Null} /\ site \in DOMAIN sites \cup {Null} /\ DOMAIN sites \subseteq Nat
  BY TemplateKnown, TheOnlyOf, DbIs DEF Pick, Fits
<1>3. ASSUME NEW p \in DOMAIN points, row = PointRow(db, p)
      PROVE  (\A y \in rest : Held(y, body)) /\ (rest = {} <=> Refused(body, row))
  <2>1. PICK y : rest = {y} /\ Held(y, body)
    BY <1>3, PointRowHolds
  <2>2. row.pid = p /\ p # Null
    BY <1>3, DbIs, NullIsNoId DEF PointRow, Fits
  <2> HIDE DEF rest, row
  <2> QED BY <2>1, <2>2 DEF Refused
<1>4. ASSUME NEW o \in disc \cap Range(Objects), PointsAt(db, o) = {}, row = ProposedRow(db, o, site)
      PROVE  (\A y \in rest : Held(y, body)) /\ (rest = {} <=> Refused(body, row))
  <2> DEFINE s == Pick(site, fallback)
  <2>1. row.pid = Null /\ row.site = site
    BY <1>4 DEF ProposedRow, Blank
  <2>2. SiteOfRow(body, row) = s
    BY <2>1 DEF SiteOfRow
  <2>3. s \in DOMAIN sites <=> IsUuid(s)
    BY <1>2, NullIsNoId DEF IsUuid, Pick
  <2>4. IF s \in DOMAIN sites THEN \E y : rest = {y} /\ Held(y, body) ELSE rest = {}
    <3>1. ProposedRow(db, o, site) \in Range(body.points)
      BY <1>1, <1>4
    <3> HIDE DEF row, site
    <3> QED BY <1>4, <3>1, ProposedRowHolds
  <2> HIDE DEF rest, row, s
  <2> QED BY <2>1, <2>2, <2>3, <2>4 DEF Refused
<1>5. ASSUME row = Scaffold
      PROVE  (\A y \in rest : Held(y, body)) /\ (rest = {} <=> Refused(body, row))
  <2>1. rest = {}
    BY <1>5, ScaffoldRefused
  <2>2. row.pid = Null /\ row.site = Placeholder
    BY <1>5 DEF Scaffold, Blank
  <2>3. SiteOfRow(body, row) = Placeholder /\ ~ IsUuid(Placeholder)
    BY <2>2, PlaceholderIsNoId DEF SiteOfRow, Pick, IsUuid
  <2> HIDE DEF rest, row
  <2> QED BY <2>1, <2>2, <2>3 DEF Refused
<1> HIDE DEF rest, row
<1> QED BY <1>1, <1>3, <1>4, <1>5 DEF TemplateRows, rest, row, site

\* Row after row: nothing is left when one is refused, and only then.
AllHeld(S, body, i) == (\A x \in S : Held(x, body)) /\ (S = {} <=> \E j \in 1..i : Refused(body, body.points[j]))
LEMMA TemplateHolds ==
  ASSUME Fits(db), PointTable(points), NEW f \in DOMAIN sites \cup {Null}, NEW body \in Templates(db, f)
  PROVE  AllHeld(ImportAlone(db, body), body, Len(body.points))
<1> DEFINE n == Len(body.points)
           known == DOMAIN sites
           seen == Metadata(db)
<1>1. /\ DOMAIN body = {"points", "equipment"} /\ body.equipment = <<>>
      /\ body.points \in Seq(TemplateRows(db, f))
  BY TemplateIs DEF Templates
<1>2. n \in Nat /\ DOMAIN body.points = 1..n /\ RowsOf(body) = n
  BY <1>1 DEF RowsOf
<1>3. Lists(body)
  BY <1>1, <1>2 DEF Lists
<1>4. ImportAlone(db, body) = Import(db, body, known, seen)
  BY <1>1, TemplateKnown, DbIs DEF ImportAlone
<1>5. PICK After : Runs(After, db, body, known, seen)
  BY <1>3, ImportRuns
<1> HIDE DEF n, seen
<1>6. /\ After[0] = {db} /\ Import(db, body, known, seen) = After[n]
      /\ \A i \in 1..n : After[i] = AfterRow(After[i - 1], db, body, i, known, seen)
  BY <1>2, <1>5 DEF Runs
<1>7. AllHeld(After[0], body, 0)
  <2>1. Held(db, body)
    BY DbIs DEF Held
  <2> QED BY <1>6, <2>1 DEF AllHeld
<1>8. ASSUME NEW i \in 1..n, AllHeld(After[i - 1], body, i - 1)
      PROVE  AllHeld(After[i], body, i)
  <2> DEFINE Rest(x) == ImportPoint(x, body.points[i], Fallback(body, known))
  <2>1. \A x : ImportRow(x, body, i, Fallback(body, known), seen, db.equip) = Rest(x)
    BY <1>2, <1>8 DEF ImportRow, n
  <2>2. After[i] = UNION {ImportRow(x, body, i, Fallback(body, known), seen, db.equip) : x \in After[i - 1]}
    BY <1>6, <1>8 DEF AfterRow
  <2>3. ASSUME NEW x \in After[i - 1]
        PROVE  (\A y \in Rest(x) : Held(y, body)) /\ (Rest(x) = {} <=> Refused(body, body.points[i]))
    <3>1. Held(x, body) /\ i \in DOMAIN body.points
      BY <1>2, <1>8 DEF AllHeld
    <3> QED BY <1>1, <3>1, RowHolds
  <2> HIDE DEF Rest
  <2>4. \A y : y \in After[i] <=> \E x \in After[i - 1] : y \in Rest(x)
    BY <2>1, <2>2
  <2>5. After[i] = {} <=> After[i - 1] = {} \/ Refused(body, body.points[i])
    <3>1. CASE After[i - 1] = {}
      BY <2>4, <3>1
    <3>2. CASE After[i - 1] # {} /\ Refused(body, body.points[i])
      BY <2>3, <2>4, <3>2
    <3>3. CASE After[i - 1] # {} /\ ~ Refused(body, body.points[i])
      <4>1. PICK x \in After[i - 1] : TRUE
        BY <3>3
      <4>2. PICK y : y \in Rest(x)
        BY <2>3, <3>3
      <4> QED BY <2>4, <3>3, <4>1, <4>2
    <3> QED BY <3>1, <3>2, <3>3
  <2>6. 1..i = 1..(i - 1) \cup {i}
    BY <1>2
  <2>7. \A y \in After[i] : Held(y, body)
    BY <2>3, <2>4
  <2>8. After[i - 1] = {} <=> \E j \in 1..(i - 1) : Refused(body, body.points[j])
    BY <1>8 DEF AllHeld
  <2> QED BY <2>5, <2>6, <2>7, <2>8 DEF AllHeld
<1>9. n \in Nat
  BY <1>2
<1> DEFINE Good == {i \in 0..n : AllHeld(After[i], body, i)}
<1>10. 0 \in Good
  BY <1>7, <1>9
<1>11. ASSUME NEW i \in 1..n, i - 1 \in Good PROVE i \in Good
  <2>1. i \in 0..n
    BY <1>9
  <2> QED BY <1>8, <1>11, <2>1
<1>12. n \in Good
  <2> HIDE DEF Good
  <2> QED BY <1>9, <1>10, <1>11, UpTo
<1>13. AllHeld(After[n], body, n)
  BY <1>12
<1> QED BY <1>4, <1>6, <1>13 DEF n

LEMMA HeldIsRoundTrip ==
  ASSUME RowsInv, PointsInv
  PROVE  RoundTrip
<1>1. Fits(db) /\ PointTable(points)
  BY DEF RowsInv, Tables, PointsInv
<1>2. ASSUME NEW f \in DOMAIN sites \cup {Null}, NEW body \in Templates(db, f)
      PROVE  /\ \A d \in ImportAlone(db, body) : Held(d, body)
             /\ ImportAlone(db, body) = {} <=> \E row \in NewRows(body) : ~ IsUuid(SiteOfRow(body, row))
  <2>1. AllHeld(ImportAlone(db, body), body, Len(body.points))
    BY <1>1, TemplateHolds
  <2>2. body.points \in Seq(TemplateRows(db, f))
    BY <1>1, TemplateIs DEF Templates
  <2>3. DOMAIN body.points = 1..Len(body.points)
    BY <2>2
  <2>4. (\E j \in 1..Len(body.points) : Refused(body, body.points[j])) <=>
          \E row \in NewRows(body) : ~ IsUuid(SiteOfRow(body, row))
    BY <2>3 DEF Refused, NewRows, Range
  <2> QED BY <2>1, <2>4 DEF AllHeld
<1> QED BY <1>2 DEF RoundTrip, Held

\* A template that is imported as it was exported, whatever the requests did
\* before, changes no site and no equipment, and adds only points of discovered
\* objects without one, not polled.  A point stays as it was unless an object is
\* proposed under its external id; that one keeps its site, its id and its Modbus
\* configuration, and moves to such an object.  The import is refused exactly when
\* a row without a point names no site, as the example of an empty template does.
THEOREM TemplatesReturn == Spec => []RoundTrip
<1> QED BY RowsInit, RowsStep, PointsInit, PointsStep, HeldIsRoundTrip, PTL DEF Spec

------------------------------------------------------------------------------
\* A template sent twice.

\* The ids a template proposes are free, and different.
NamesClear(d, body) ==
  LET new == {i \in DOMAIN body.points : body.points[i].pid = Null}
      Site(row) == Pick(row.site, Fallback(body, DOMAIN d.sites))
  IN \A i \in new : /\ TakenBy(d, Site(body.points[i]), body.points[i].ext) = {}
                    /\ \A j \in new \ {i} : body.points[i].ext # body.points[j].ext

\* After i rows of a template nothing has changed; new points are of proposed
\* rows, and each of these rows has its point.
Whole(x) == x = [t \in DOMAIN x |-> x[t]]
Made(x, body, j) ==
  LET row == body.points[j] IN
  row.pid = Null => \E q \in DOMAIN x.points :
                      x.points[q] = Created(row, Pick(row.site, Fallback(body, DOMAIN sites)), Null)
Proposed(p, row) == row.pid = Null /\ p.ext = row.ext /\ p.bac = row.bac /\ p.polling = FALSE
Kept(x, body, i) ==
  /\ Fits(x) /\ x.sites = sites /\ x.equip = equip
  /\ \A p \in DOMAIN points : p \in DOMAIN x.points /\ x.points[p] = points[p]
  /\ \A q \in DOMAIN x.points \ DOMAIN points : \E j \in 1..i : Proposed(x.points[q], body.points[j])
  /\ Whole(x) /\ \A j \in 1..i : Made(x, body, j)

LEMMA KeptLonger ==
  ASSUME NEW x, NEW body, NEW i \in Nat, Kept(x, body, i), body.points[i + 1].pid # Null
  PROVE  Kept(x, body, i + 1)
<1>1. 1..(i + 1) = 1..i \cup {i + 1}
  OBVIOUS
<1>2. \A j \in 1..(i + 1) : Made(x, body, j)
  BY <1>1 DEF Kept, Made
<1> QED BY <1>1, <1>2 DEF Kept

LEMMA RowKeeps ==
  ASSUME Fits(db), PointTable(points), NEW f, NEW body, body.points \in Seq(TemplateRows(db, f)), NamesClear(db, body),
         NEW i \in Nat, i + 1 \in DOMAIN body.points, NEW x, Kept(x, body, i)
  PROVE  LET rest == ImportPoint(x, body.points[i + 1], Fallback(body, DOMAIN sites)) IN
         \A y \in rest : Kept(y, body, i + 1)
<1> DEFINE fallback == Fallback(body, DOMAIN sites)
           row == body.points[i + 1]
           site == Pick(f, TheOnly(DOMAIN sites))
           rest == ImportPoint(x, row, fallback)
<1>1. row \in TemplateRows(db, f) /\ DOMAIN body.points = 1..Len(body.points) /\ Len(body.points) \in Nat
  OBVIOUS
<1>2. /\ Fits(x) /\ x.sites = sites /\ x.equip = equip
      /\ \A p \in DOMAIN points : p \in DOMAIN x.points /\ x.points[p] = points[p]
      /\ \A q \in DOMAIN x.points \ DOMAIN points : \E j \in 1..i : Proposed(x.points[q], body.points[j])
      /\ Whole(x) /\ \A j \in 1..i : Made(x, body, j)
  BY DEF Kept
<1>3. ASSUME NEW p \in DOMAIN points, row = PointRow(db, p)
      PROVE  \A y \in rest : Kept(y, body, i + 1)
  <2> DEFINE y == [x EXCEPT !.points[p] = points[p]]
  <2>1. rest = {y}
    BY <1>2, <1>3, PointRowRestores
  <2>2. /\ y.sites = x.sites /\ y.equip = x.equip /\ DOMAIN y.points = DOMAIN x.points
        /\ \A q \in DOMAIN x.points : y.points[q] = x.points[q]
      /\ Whole(y)
    BY <1>2 DEF Fits, Whole
  <2>3. Fits(y)
    <3>1. y \in rest
      BY <2>1
    <3> QED BY <1>2, <3>1, ImportPointSafe DEF Safe
  <2> HIDE DEF y
  <2>4. \A j \in 1..i : Made(y, body, j)
    BY <1>2, <2>2 DEF Made
  <2>5. Kept(y, body, i)
    BY <1>2, <2>2, <2>3, <2>4 DEF Kept
  <2>6. row.pid # Null
    BY <1>3, DbIs, NullIsNoId DEF PointRow, Fits
  <2> QED BY <2>1, <2>5, <2>6, KeptLonger
<1>4. ASSUME NEW o \in Range(Objects), row = ProposedRow(db, o, site)
      PROVE  \A y \in rest : Kept(y, body, i + 1)
  <2> DEFINE s == Pick(site, fallback)
             p == Created(row, s, Null)
             y == NewId(x, p, "points")
  <2>1. row.pid = Null /\ row.site = site /\ row.ext = ObjName[o] /\ row.bac = o
    BY <1>4 DEF ProposedRow, Blank
  <2>2. /\ TakenBy(db, s, ObjName[o]) = {}
        /\ \A j \in DOMAIN body.points : j # i + 1 /\ body.points[j].pid = Null => body.points[j].ext # ObjName[o]
    <3>1. db.sites = sites
      BY DEF db
    <3>2. i + 1 \in {j \in DOMAIN body.points : body.points[j].pid = Null}
      BY <2>1
    <3> QED BY <2>1, <3>1, <3>2 DEF NamesClear
  <2>3. ASSUME NEW q \in TakenBy(x, s, ObjName[o]) PROVE FALSE
    <3>1. q \in DOMAIN x.points /\ x.points[q].site = s /\ x.points[q].ext = ObjName[o]
      BY DEF TakenBy
    <3>2. CASE q \in DOMAIN points
      BY <1>2, <2>2, <3>1, <3>2, DbIs DEF TakenBy
    <3>3. CASE q \notin DOMAIN points
      <4>1. PICK j \in 1..i : Proposed(x.points[q], body.points[j])
        BY <1>2, <3>1, <3>3
      <4>2. j \in DOMAIN body.points /\ j # i + 1
        BY <1>1
      <4> QED BY <2>2, <3>1, <4>1, <4>2 DEF Proposed
    <3> QED BY <3>2, <3>3
  <2>4. TakenBy(x, s, ObjName[o]) = {}
    BY <2>3
  <2>5. /\ p.ext = ObjName[o] /\ p.bac = o /\ p.polling = FALSE
        /\ rest = IF s \in DOMAIN sites THEN {y} ELSE {}
    <3>1. Adds(x, ProposedRow(db, o, site), o, s, fallback)
      BY <1>2, <2>4, ProposedRowAdds
    <3>2. Adds(x, row, o, s, fallback)
      BY <1>4, <3>1
    <3> QED BY <3>2 DEF Adds
  <2> HIDE DEF s, p, rest
  <2>6. /\ y.sites = x.sites /\ y.equip = x.equip /\ DOMAIN y.points = DOMAIN x.points \cup {x.fresh}
        /\ y.points[x.fresh] = p
        /\ \A q \in DOMAIN x.points : y.points[q] = x.points[q]
    BY <1>2, NewPointIs
  <2>7. Whole(y)
    BY <1>2 DEF NewId, Whole, Fits, y
  <2>8. s \in DOMAIN sites => Fits(y)
    <3>1. s \in DOMAIN sites => y \in rest
      BY <2>5
    <3> QED BY <1>2, <3>1, ImportPointSafe DEF Safe, rest
  <2> HIDE DEF y
  <2>9. ASSUME s \in DOMAIN sites PROVE Kept(y, body, i + 1)
    <3>1. Proposed(p, row)
      BY <2>1, <2>5 DEF Proposed
    <3>2. ASSUME NEW q \in DOMAIN y.points \ DOMAIN points
          PROVE  \E j \in 1..(i + 1) : Proposed(y.points[q], body.points[j])
      <4>1. CASE q = x.fresh
        <5>1. i + 1 \in 1..(i + 1)
          OBVIOUS
        <5> QED BY <2>6, <3>1, <4>1, <5>1
      <4>2. CASE q \in DOMAIN x.points
        <5>1. 1..i \subseteq 1..(i + 1)
          OBVIOUS
        <5> QED BY <1>2, <2>6, <4>2, <5>1
      <4> QED BY <2>6, <4>1, <4>2
    <3>3. ASSUME NEW j \in 1..(i + 1) PROVE Made(y, body, j)
      <4>1. CASE j \in 1..i
        BY <1>2, <2>6, <4>1 DEF Made
      <4>2. CASE j = i + 1
        BY <2>1, <2>6, <4>2 DEF Made, s, p
      <4> QED BY <4>1, <4>2
    <3> QED BY <1>2, <2>6, <2>8, <2>9, <2>7, <3>2, <3>3 DEF Kept
  <2> QED BY <2>5, <2>9
<1>5. db.points = points /\ db.sites = sites
  BY DEF db
<1>6. row = Scaffold => rest = {}
  BY ScaffoldRefused
<1> HIDE DEF rest, row
<1> QED BY <1>1, <1>3, <1>4, <1>5, <1>6 DEF TemplateRows, rest, row

AllKept(S, body, i) == \A x \in S : Kept(x, body, i)
LEMMA TemplateKeeps ==
  ASSUME Fits(db), PointTable(points), NEW f \in DOMAIN sites \cup {Null}, NEW body \in Templates(db, f),
         NamesClear(db, body)
  PROVE  AllKept(ImportAlone(db, body), body, Len(body.points))
<1> DEFINE n == Len(body.points)
           known == DOMAIN sites
           seen == Metadata(db)
<1>1. /\ DOMAIN body = {"points", "equipment"} /\ body.equipment = <<>>
      /\ body.points \in Seq(TemplateRows(db, f))
  BY TemplateIs DEF Templates
<1>2. n \in Nat /\ DOMAIN body.points = 1..n /\ RowsOf(body) = n
  BY <1>1 DEF RowsOf
<1>3. Lists(body)
  BY <1>1, <1>2 DEF Lists
<1>4. ImportAlone(db, body) = Import(db, body, known, seen)
  BY <1>1, TemplateKnown, DbIs DEF ImportAlone
<1>5. PICK After : Runs(After, db, body, known, seen)
  BY <1>3, ImportRuns
<1> HIDE DEF n, seen
<1>6. /\ After[0] = {db} /\ Import(db, body, known, seen) = After[n]
      /\ \A i \in 1..n : After[i] = AfterRow(After[i - 1], db, body, i, known, seen)
  BY <1>2, <1>5 DEF Runs
<1>7. AllKept(After[0], body, 0)
  <2>1. Kept(db, body, 0)
    BY DbIs DEF Kept, Whole, db
  <2> QED BY <1>6, <2>1 DEF AllKept
<1>8. ASSUME NEW i \in Nat, i + 1 \in 1..n, AllKept(After[i], body, i)
      PROVE  AllKept(After[i + 1], body, i + 1)
  <2> DEFINE Rest(x) == ImportPoint(x, body.points[i + 1], Fallback(body, known))
  <2>1. \A x : ImportRow(x, body, i + 1, Fallback(body, known), seen, db.equip) = Rest(x)
    BY <1>2, <1>8 DEF ImportRow, n
  <2>2. (i + 1) - 1 = i
    OBVIOUS
  <2>3. After[i + 1] = UNION {ImportRow(x, body, i + 1, Fallback(body, known), seen, db.equip) : x \in After[i]}
    BY <1>6, <1>8, <2>2 DEF AfterRow
  <2>4. ASSUME NEW x \in After[i] PROVE \A y \in Rest(x) : Kept(y, body, i + 1)
    <3>1. Kept(x, body, i) /\ i + 1 \in DOMAIN body.points
      BY <1>2, <1>8 DEF AllKept
    <3> QED BY <1>1, <3>1, RowKeeps
  <2> HIDE DEF Rest
  <2>5. \A y : y \in After[i + 1] <=> \E x \in After[i] : y \in Rest(x)
    BY <2>1, <2>3
  <2> QED BY <2>4, <2>5 DEF AllKept
<1>9. n \in Nat
  BY <1>2
<1> DEFINE Good == {i \in 0..n : AllKept(After[i], body, i)}
<1>10. 0 \in Good
  BY <1>7, <1>9
<1>11. ASSUME NEW i \in 1..n, i - 1 \in Good PROVE i \in Good
  <2>1. i \in 0..n /\ i - 1 \in Nat /\ (i - 1) + 1 = i
    BY <1>9
  <2>2. AllKept(After[i - 1], body, i - 1)
    BY <1>11
  <2>3. AllKept(After[(i - 1) + 1], body, (i - 1) + 1)
    BY <1>8, <2>1, <2>2
  <2>4. AllKept(After[i], body, i)
    BY <2>1, <2>3
  <2> QED BY <2>1, <2>4
<1>12. n \in Good
  <2> HIDE DEF Good
  <2> QED BY <1>9, <1>10, <1>11, UpTo
<1>13. AllKept(After[n], body, n)
  BY <1>12
<1> QED BY <1>4, <1>6, <1>13 DEF n

\* As it was exported, with ids that are free: the second import changes nothing.
SentTwice ==
  \A f \in DOMAIN sites \cup {Null} : \A body \in Templates(db, f) :
    NamesClear(db, body) => \A d \in ImportAlone(db, body) : ImportAlone(d, body) = {d}

\* A point written over with what it has.
SamePoint(d, q) == [d EXCEPT !.points[q] = d.points[q]]
LEMMA SamePointSame ==
  ASSUME NEW d, Fits(d), Whole(d), PointTable(d.points), NEW q \in DOMAIN d.points
  PROVE  SamePoint(d, q) = d
<1> DEFINE e == SamePoint(d, q)
           t == [d.points EXCEPT ![q] = d.points[q]]
<1>1. t = d.points
  <2>1. DOMAIN t = DOMAIN d.points /\ t = [p \in DOMAIN t |-> t[p]]
    OBVIOUS
  <2>2. \A p \in DOMAIN d.points : t[p] = d.points[p]
    OBVIOUS
  <2>3. d.points = [p \in DOMAIN d.points |-> d.points[p]]
    BY DEF PointTable
  <2> HIDE DEF t
  <2> QED BY <2>1, <2>2, <2>3
<1>2. e = [d EXCEPT !.points = t]
  BY DEF SamePoint
<1> HIDE DEF e, t
<1>3. DOMAIN e = DOMAIN d /\ e = [x \in DOMAIN e |-> e[x]] /\ \A x \in DOMAIN d : e[x] = d[x]
  BY <1>1, <1>2
<1>4. d = [x \in DOMAIN d |-> d[x]]
  BY DEF Whole
<1>5. e = d
  BY <1>3, <1>4
<1> QED BY <1>5 DEF e

\* The row of an object that has become a point writes that point as it is.
LEMMA ProposedRowStays ==
  ASSUME NEW o \in Range(Objects), NEW site, NEW fallback, NEW x, Fits(x), Whole(x), PointTable(x.points),
         NEW q \in DOMAIN x.points, x.points[q] = Created(ProposedRow(db, o, site), Pick(site, fallback), Null)
  PROVE  ImportPoint(x, ProposedRow(db, o, site), fallback) = {x}
<1> DEFINE row == ProposedRow(db, o, site)
           s == Pick(site, fallback)
           p == Created(row, s, Null)
           At(t) == IF BadModbus(row) \/ ~ Complete(row, t) THEN {}
                    ELSE UNION {Upsert(w[1], row, t, w[2]) : w \in Linked(x, row, t)}
<1>1. /\ row.pid = Null /\ row.site = site /\ row.ext = ObjName[o] /\ row.bac = o
      /\ row.equip = Null /\ row.ename = Null /\ row.mb = Null /\ row.polling = FALSE
      /\ row.tag = Null /\ (site = Null => row.sname = Null)
  BY DEF ProposedRow, Blank
<1>2. x.points[q] = p
  OBVIOUS
<1> HIDE DEF row
<1>3. o # Null /\ ObjName[o] # Null /\ FALSE # Null
  BY NullIsNoValue
<1>4. ModbusOf(row) = Null /\ ~ BadModbus(row) /\ Polled(row) = FALSE
  BY <1>1, <1>3 DEF ModbusOf, BadModbus, Polled
<1>5. /\ p.site = s /\ p.ext = row.ext /\ p.bac = o /\ p.polling = FALSE /\ p.equip = Null /\ p.tag = Null
      /\ p.mb = Null
  BY <1>1, <1>4 DEF Created
<1>6. Overwritten(p, row, Null) = p
  BY <1>1, <1>4 DEF Overwritten, Created
<1> HIDE DEF s, p
<1>7. s \in DOMAIN x.sites /\ s # Null /\ IsUuid(s)
  BY <1>2, <1>5, NullIsNoId DEF Fits, PointFits, IsUuid
<1>8. SitesFor(x, row, fallback) = {s}
  BY <1>1 DEF SitesFor, Pick, s
<1>9. Linked(x, row, s) = {<<x, Null>>}
  BY <1>1 DEF Linked
<1>10. Complete(row, s)
  BY <1>1, <1>3, <1>7 DEF Complete
<1>11. TakenBy(x, s, row.ext) = {q}
  BY <1>2, <1>5 DEF Fits, PointFits, TakenBy
<1>12. PointFits(x, q, p)
  BY <1>2 DEF Fits
<1>13. Upsert(x, row, s, Null) = StorePoint(x, q, p)
  <2>1. (CHOOSE y \in TakenBy(x, s, row.ext) : TRUE) = q
    BY <1>11
  <2> QED BY <1>2, <1>6, <1>11, <2>1 DEF Upsert
<1>14. StorePoint(x, q, p) = {x}
  BY <1>2, <1>12, SamePointSame DEF StorePoint, SamePoint
<1>15. At(s) = {x}
  <2>1. At(s) = UNION {Upsert(w[1], row, s, w[2]) : w \in {<<x, Null>>}}
    BY <1>4, <1>9, <1>10
  <2>2. At(s) = Upsert(x, row, s, Null)
    BY <2>1
  <2> HIDE DEF At
  <2> QED BY <1>13, <1>14, <2>2
<1>16. ByIdentity(x, row, fallback) = UNION {At(t) : t \in {s}}
  BY <1>8 DEF ByIdentity
<1> HIDE DEF At
<1>17. ImportPoint(x, row, fallback) = At(s)
  BY <1>1, <1>16 DEF ImportPoint
<1> QED BY <1>15, <1>17 DEF row

LEMMA RowStays ==
  ASSUME Fits(db), PointTable(points), NEW f, NEW body, body.points \in Seq(TemplateRows(db, f)),
         NEW x, Kept(x, body, Len(body.points)), PointTable(x.points), NEW i \in DOMAIN body.points
  PROVE  ImportPoint(x, body.points[i], Fallback(body, DOMAIN sites)) = {x}
<1> DEFINE fallback == Fallback(body, DOMAIN sites)
           row == body.points[i]
           site == Pick(f, TheOnly(DOMAIN sites))
<1>1. row \in TemplateRows(db, f) /\ i \in 1..Len(body.points)
  OBVIOUS
<1>2. /\ Fits(x) /\ Whole(x) /\ x.sites = sites /\ x.equip = equip /\ Made(x, body, i)
      /\ \A p \in DOMAIN points : p \in DOMAIN x.points /\ x.points[p] = points[p]
  BY <1>1 DEF Kept
<1>3. ASSUME NEW p \in DOMAIN points, row = PointRow(db, p) PROVE ImportPoint(x, row, fallback) = {x}
  <2>1. ImportPoint(x, row, fallback) = {[x EXCEPT !.points[p] = points[p]]}
    BY <1>2, <1>3, PointRowRestores
  <2>2. [x EXCEPT !.points[p] = points[p]] = SamePoint(x, p)
    BY <1>2 DEF SamePoint
  <2> QED BY <1>2, <2>1, <2>2, SamePointSame
<1>4. ASSUME NEW o \in Range(Objects), row = ProposedRow(db, o, site) PROVE ImportPoint(x, row, fallback) = {x}
  <2>1. row.pid = Null /\ row.site = site
    BY <1>4 DEF ProposedRow, Blank
  <2>2. PICK q \in DOMAIN x.points : x.points[q] = Created(row, Pick(site, fallback), Null)
    BY <1>2, <2>1 DEF Made
  <2>3. x.points[q] = Created(ProposedRow(db, o, site), Pick(site, fallback), Null)
    BY <1>4, <2>2
  <2> HIDE DEF fallback, site, row
  <2>4. ImportPoint(x, ProposedRow(db, o, site), fallback) = {x}
    BY <1>2, <2>3, ProposedRowStays
  <2> QED BY <1>4, <2>4
<1>5. row # Scaffold
  <2>1. ASSUME row = Scaffold PROVE FALSE
    <3>1. Scaffold.pid = Null /\ Scaffold.site = Placeholder
      BY DEF Scaffold, Blank
    <3>2. PICK q \in DOMAIN x.points : x.points[q] = Created(row, Pick(row.site, fallback), Null)
      BY <1>2, <2>1, <3>1 DEF Made
    <3>3. x.points[q].site = Placeholder
      BY <2>1, <3>1, <3>2, PlaceholderIsNoId DEF Created, Pick
    <3>4. x.points[q].site \in Nat
      BY <1>2 DEF Fits, PointFits
    <3> QED BY <3>3, <3>4, PlaceholderIsNoId
  <2> QED BY <2>1
<1>6. db.points = points /\ db.sites = sites
  BY DEF db
<1> HIDE DEF row
<1> QED BY <1>1, <1>3, <1>4, <1>5, <1>6 DEF TemplateRows, row

LEMMA TemplateStays ==
  ASSUME Fits(db), PointTable(points), NEW f \in DOMAIN sites \cup {Null}, NEW body, body.equipment = <<>>,
         DOMAIN body = {"points", "equipment"}, body.points \in Seq(TemplateRows(db, f)),
         NEW x, Kept(x, body, Len(body.points)), PointTable(x.points)
  PROVE  ImportAlone(x, body) = {x}
<1> DEFINE n == Len(body.points)
           known == DOMAIN sites
           seen == Metadata(x)
<1>1. n \in Nat /\ DOMAIN body.points = 1..n /\ RowsOf(body) = n
  BY DEF RowsOf
<1>2. Lists(body)
  BY <1>1 DEF Lists
<1>3. ImportAlone(x, body) = Import(x, body, known, seen)
  BY TemplateKnown DEF ImportAlone, Kept
<1>4. PICK After : Runs(After, x, body, known, seen)
  BY <1>2, ImportRuns
<1> HIDE DEF n, seen
<1>5. /\ After[0] = {x} /\ Import(x, body, known, seen) = After[n]
      /\ \A i \in 1..n : After[i] = AfterRow(After[i - 1], x, body, i, known, seen)
  BY <1>1, <1>4 DEF Runs
<1>6. ASSUME NEW i \in 1..n, After[i - 1] = {x} PROVE After[i] = {x}
  <2> DEFINE Row(y) == ImportRow(y, body, i, Fallback(body, known), seen, x.equip)
  <2>1. Row(x) = ImportPoint(x, body.points[i], Fallback(body, known))
    BY <1>1, <1>6 DEF ImportRow, n
  <2>2. Row(x) = {x}
    BY <1>1, <2>1, RowStays
  <2>3. After[i] = UNION {Row(y) : y \in {x}}
    BY <1>5, <1>6 DEF AfterRow
  <2> HIDE DEF Row
  <2> QED BY <2>2, <2>3
<1>7. n \in Nat
  BY <1>1
<1> DEFINE Good == {i \in 0..n : After[i] = {x}}
<1>8. 0 \in Good
  BY <1>5, <1>7
<1>9. ASSUME NEW i \in 1..n, i - 1 \in Good PROVE i \in Good
  <2>1. i \in 0..n
    BY <1>7
  <2> QED BY <1>6, <1>9, <2>1
<1>10. n \in Good
  <2> HIDE DEF Good
  <2> QED BY <1>7, <1>8, <1>9, UpTo
<1> QED BY <1>3, <1>5, <1>10

LEMMA KeptIsSentTwice ==
  ASSUME RowsInv, PointsInv
  PROVE  SentTwice
<1>1. Fits(db) /\ PointTable(points)
  BY DEF RowsInv, Tables, PointsInv
<1> SUFFICES ASSUME NEW f \in DOMAIN sites \cup {Null}, NEW body \in Templates(db, f), NamesClear(db, body),
                    NEW d \in ImportAlone(db, body)
             PROVE  ImportAlone(d, body) = {d}
  BY DEF SentTwice
<1>2. Kept(d, body, Len(body.points))
  BY <1>1, TemplateKeeps DEF AllKept
<1>3. /\ DOMAIN body = {"points", "equipment"} /\ body.equipment = <<>>
      /\ body.points \in Seq(TemplateRows(db, f))
  BY <1>1, TemplateIs DEF Templates
<1>4. PointTable(d.points)
  <2>1. Len(body.points) \in Nat /\ DOMAIN body.points = 1..Len(body.points)
    BY <1>3
  <2>2. Lists(body)
    BY <1>3, <2>1 DEF Lists
  <2>3. SendsModbus(body)
    <3>1. ASSUME NEW i \in DOMAIN body.points PROVE body.points[i].mb \in Modbus \cup {Omit, Null}
      <4>1. body.points[i] \in TemplateRows(db, f)
        BY <1>3
      <4>2. ASSUME NEW p \in DOMAIN points PROVE PointRow(db, p).mb \in Modbus \cup {Null}
        BY <1>1, DbIs DEF PointRow, PointTable, Point, NormalModbus
      <4>3. Scaffold.mb = Null /\ \A o, site : ProposedRow(db, o, site).mb = Null
        BY DEF Scaffold, ProposedRow, Blank
      <4> QED BY <4>1, <4>2, <4>3, DbIs DEF TemplateRows
    <3> QED BY <3>1 DEF SendsModbus
  <2>4. ReadKeys(Metadata(db))
    BY <1>1, IdsFit, DbIs DEF ReadKeys, Metadata
  <2>5. d \in Import(db, body, DOMAIN sites, Metadata(db))
    BY <1>1, <1>3, TemplateKnown, DbIs DEF ImportAlone
  <2>6. Fits(db) /\ PointTable(db.points)
    BY <1>1, DbIs
  <2> QED BY <2>2, <2>3, <2>4, <2>5, <2>6, ImportTable
<1> QED BY <1>1, <1>2, <1>3, <1>4, TemplateStays

\* A client that never saw the answer may send its template again.  What requests
\* and imports did before, a template whose ids are free adds nothing the second
\* time, and changes nothing: each object it proposed has its point by then.
THEOREM TemplatesSentTwice == Spec => []SentTwice
<1> QED BY RowsInit, RowsStep, PointsInit, PointsStep, KeptIsSentTwice, PTL DEF Spec

------------------------------------------------------------------------------
\* Metadata that were stored.

\* One request at most merges metadata,
OneMerge == \A c, o \in Clients : Merging(pc[c], arg[c]) /\ Merging(pc[o], arg[o]) => c = o
\* what it read is still what is stored,
StillRead ==
  \A c \in Clients :
    /\ pc[c] = "update_equipment" /\ Merging(pc[c], arg[c]) /\ arg[c].e \in DOMAIN equip =>
         arg[c].base = equip[arg[c].e].meta
    /\ pc[c] = "import" /\ Merging(pc[c], arg[c]) => Unread(equip, arg[c].seen)
\* and what was acknowledged is there, and under no id still to come.
Stored ==
  \A v \in acked : v[1] \in 1..(fresh - 1) /\ (v[1] \in DOMAIN equip => v[2] \in equip[v[1]].meta)
MergesInv == "merges" \notin races => OneMerge /\ StillRead /\ Stored

LEMMA MergesInit == Init => MergesInv
<1> SUFFICES ASSUME Init PROVE MergesInv
  OBVIOUS
<1>1. acked = {} /\ pc = [c \in Clients |-> "idle"]
  BY DEF Init, Idle
<1>2. \A c \in Clients : ~ Merging(pc[c], arg[c])
  BY <1>1 DEF Merging
<1>3. OneMerge /\ StillRead
  BY <1>2 DEF OneMerge, StillRead
<1>4. Stored
  BY <1>1 DEF Stored
<1> QED BY <1>3, <1>4 DEF MergesInv

\* The step leaves the metadata of the equipment it keeps, and adds under new ids.
Undisturbed ==
  /\ fresh \in Nat /\ fresh' \in Nat /\ fresh <= fresh'
  /\ \A x \in DOMAIN equip' : x \in DOMAIN equip \/ x \notin 1..(fresh - 1)
  /\ \A x \in DOMAIN equip' : x \in DOMAIN equip => equip'[x].meta = equip[x].meta

\* No request is about an id still to come.
LEMMA KnownIds ==
  ASSUME RowsInv, NEW c \in Clients
  PROVE  /\ pc[c] = "update_equipment" => arg[c].e \in 1..(fresh - 1)
         /\ pc[c] = "import" => DOMAIN arg[c].seen \subseteq 1..(fresh - 1)
  BY DEF RowsInv, Carries

\* A step that merges nothing, and starts no merge.
LEMMA MergesQuiet ==
  ASSUME RowsInv, MergesInv, Undisturbed, acked' = acked, "merges" \notin races' => "merges" \notin races,
         \A o \in Clients : Merging(pc'[o], arg'[o]) => pc'[o] = pc[o] /\ arg'[o] = arg[o]
  PROVE  MergesInv'
<1> SUFFICES ASSUME "merges" \notin races' PROVE (OneMerge /\ StillRead /\ Stored)'
  BY DEF MergesInv
<1>1. OneMerge /\ StillRead /\ Stored
  BY DEF MergesInv
<1>2. OneMerge'
  BY <1>1 DEF OneMerge
<1>3. StillRead'
  <2>1. ASSUME NEW c \in Clients, pc'[c] = "update_equipment", Merging(pc'[c], arg'[c]), arg'[c].e \in DOMAIN equip'
        PROVE  arg'[c].base = equip'[arg'[c].e].meta
    <3>1. pc'[c] = pc[c] /\ arg'[c] = arg[c]
      BY <2>1
    <3>2. arg[c].e \in DOMAIN equip
      BY <2>1, <3>1, KnownIds DEF Undisturbed
    <3> QED BY <1>1, <2>1, <3>1, <3>2 DEF StillRead, Undisturbed
  <2>2. ASSUME NEW c \in Clients, pc'[c] = "import", Merging(pc'[c], arg'[c])
        PROVE  Unread(equip', arg'[c].seen)
    <3>1. pc'[c] = pc[c] /\ arg'[c] = arg[c]
      BY <2>2
    <3>2. Unread(equip, arg[c].seen) /\ DOMAIN arg[c].seen \subseteq 1..(fresh - 1)
      BY <1>1, <2>2, <3>1, KnownIds DEF StillRead
    <3> QED BY <3>1, <3>2 DEF Unread, Undisturbed
  <2> QED BY <2>1, <2>2 DEF StillRead
<1>4. Stored'
  <2>1. 1..(fresh - 1) \subseteq 1..(fresh' - 1)
    <3>1. fresh \in Nat /\ fresh' \in Nat /\ fresh <= fresh'
      BY DEF Undisturbed
    <3> QED BY <3>1, BelowToo
  <2> QED BY <1>1, <2>1 DEF Stored, Undisturbed
<1> QED BY <1>2, <1>3, <1>4

\* A request that goes on, with what it read just now.
LEMMA MergesHolding ==
  ASSUME RowsInv, MergesInv, NEW c \in Clients, NEW l, NEW a, Hold(c, l, a), UNCHANGED <<rows, acked>>,
         l = "update_equipment" /\ a.e \in DOMAIN equip => a.base = equip[a.e].meta,
         l = "import" => Unread(equip, a.seen)
  PROVE  MergesInv'
<1>1. /\ OfClients' /\ pc'[c] = l /\ arg'[c] = a
      /\ \A o \in Clients \ {c} : pc'[o] = pc[o] /\ arg'[o] = arg[o]
  BY Holding DEF RowsInv
<1>2. equip' = equip /\ fresh' = fresh /\ acked' = acked
  BY DEF rows
<1> SUFFICES ASSUME "merges" \notin races' PROVE (OneMerge /\ StillRead /\ Stored)'
  BY DEF MergesInv
<1>3. "merges" \notin races /\ (Merging(l, a) => \A o \in Clients \ {c} : ~ Merging(pc[o], arg[o]))
  BY DEF Hold, Seen
<1>4. OneMerge /\ StillRead /\ Stored
  BY <1>3 DEF MergesInv
<1>5. OneMerge'
  BY <1>1, <1>3, <1>4 DEF OneMerge
<1>6. StillRead'
  BY <1>1, <1>2, <1>4 DEF StillRead
<1>7. Stored'
  BY <1>2, <1>4 DEF Stored
<1> QED BY <1>5, <1>6, <1>7

\* The merge itself: no other is under way.
LEMMA MergesEnding ==
  ASSUME RowsInv, MergesInv, NEW c \in Clients, Done(c), Merging(pc[c], arg[c]),
         "merges" \notin races => Stored'
  PROVE  MergesInv'
<1>1. /\ races' = races /\ pc'[c] = "idle"
      /\ \A o \in Clients \ {c} : pc'[o] = pc[o] /\ arg'[o] = arg[o]
  BY Ending DEF RowsInv
<1> SUFFICES ASSUME "merges" \notin races PROVE (OneMerge /\ StillRead /\ Stored)'
  BY <1>1 DEF MergesInv
<1>2. OneMerge
  BY DEF MergesInv
<1>3. \A o \in Clients : ~ Merging(pc'[o], arg'[o])
  <2>1. ~ Merging(pc'[c], arg'[c])
    BY <1>1 DEF Merging
  <2>2. \A o \in Clients \ {c} : ~ Merging(pc'[o], arg'[o])
    BY <1>1, <1>2 DEF OneMerge
  <2> QED BY <2>1, <2>2
<1> QED BY <1>3 DEF OneMerge, StillRead

\* The equipment that a step of the table leaves.
LEMMA SameUnits ==
  ASSUME RowsInv, UNCHANGED <<equip, fresh>>
  PROVE  Undisturbed
  BY DEF RowsInv, Tables, Fits, db, Undisturbed

LEMMA MergesStep == RowsInv /\ RowsInv' /\ MergesInv /\ [Next]_vars => MergesInv'
<1> SUFFICES ASSUME RowsInv, RowsInv', MergesInv, [Next]_vars PROVE MergesInv'
  OBVIOUS
<1>a. Fits(db) /\ \A c \in Clients : Carries(pc[c], arg[c], fresh)
  BY DEF RowsInv, Tables
<1>b. /\ fresh \in Nat \ {0} /\ DOMAIN equip \subseteq 1..(fresh - 1)
      /\ fresh' \in Nat \ {0} /\ DOMAIN equip' \subseteq 1..(fresh' - 1)
  <2>1. Fits(db)'
    BY DEF RowsInv, Tables
  <2> QED BY <1>a, <2>1 DEF Fits, db
\* A request that holds no merge, and one that ends without one.
<1>1. ASSUME NEW c \in Clients, NEW l, NEW a, Hold(c, l, a), UNCHANGED <<rows, acked>>, l \notin Merges
      PROVE  MergesInv'
  BY <1>1, MergesHolding DEF Merges
<1>2. ASSUME NEW c \in Clients, Done(c), Undisturbed, acked' = acked
      PROVE  MergesInv'
  <2>1. /\ races' = races /\ pc'[c] = "idle"
        /\ \A o \in Clients \ {c} : pc'[o] = pc[o] /\ arg'[o] = arg[o]
    BY <1>2, Ending DEF RowsInv
  <2>2. ~ Merging(pc'[c], arg'[c])
    BY <2>1 DEF Merging
  <2> QED BY <1>2, <2>1, <2>2, MergesQuiet
<1>3. ASSUME Undisturbed, UNCHANGED <<pc, arg, races, acked>>
      PROVE  MergesInv'
  BY <1>3, MergesQuiet
<1>4. ASSUME NEW c \in Clients, NEW l, NEW a, Start(c, l, a), l \notin Merges
      PROVE  MergesInv'
  BY <1>1, <1>4 DEF Start
<1>5. ASSUME NEW c \in Clients, NEW n \in Names, CreateSite(c, n) \/ ResolveSite(c, n) PROVE MergesInv'
  BY <1>4, <1>5 DEF CreateSite, ResolveSite, Merges
<1>6. ASSUME NEW c \in Clients, NEW s \in DOMAIN sites, NEW n \in Names, UpdateSite(c, s, n) PROVE MergesInv'
  <2>1. \E a : Start(c, "rename_site", a)
    BY <1>6 DEF UpdateSite
  <2> QED BY <1>4, <2>1 DEF Merges
<1>7. ASSUME NEW c \in Clients, NEW e, CreateEquipment(c, e) PROVE MergesInv'
  BY <1>4, <1>7 DEF CreateEquipment, Merges
<1>8. ASSUME NEW c \in Clients, NEW e, NEW b, UpdateEquipment(c, e, b) PROVE MergesInv'
  <2>1. \E a : Start(c, "patch_equipment", a)
    BY <1>8 DEF UpdateEquipment
  <2> QED BY <1>4, <2>1 DEF Merges
<1>9. ASSUME NEW c \in Clients, NEW p, CreatePoint(c, p) PROVE MergesInv'
  BY <1>4, <1>9 DEF CreatePoint, Merges
<1>10. ASSUME NEW c \in Clients, NEW f, NEW t, HoldTemplate(c, f, t) PROVE MergesInv'
  <2>1. \E a : Start(c, "holds", a)
    BY <1>10 DEF HoldTemplate
  <2> QED BY <1>4, <2>1 DEF Merges
\* Merges that start.
<1>11. ASSUME NEW b PROVE Unread(equip, Sent(b).seen)
  <2>1. Sent(b).seen = [e \in DOMAIN equip |-> equip[e].meta]
    BY DbIs DEF Sent, Metadata
  <2> QED BY <2>1 DEF Unread
<1>12. ASSUME NEW c \in Clients, NEW body, SendBody(c, body) PROVE MergesInv'
  <2>1. Hold(c, "import", Sent(body)) /\ UNCHANGED <<rows, acked>>
    BY <1>12 DEF SendBody, Start
  <2> QED BY <1>11, <2>1, MergesHolding
<1>13. ASSUME NEW c \in Clients, SendTemplate(c) PROVE MergesInv'
  <2>1. UNCHANGED <<rows, acked>> /\ (Hold(c, "import", Sent(arg[c])) \/ Done(c))
    BY <1>13 DEF SendTemplate
  <2>2. CASE Hold(c, "import", Sent(arg[c]))
    BY <1>11, <2>1, <2>2, MergesHolding
  <2>3. CASE Done(c)
    BY <1>2, <2>1, <2>3, SameUnits DEF rows
  <2> QED BY <2>1, <2>2, <2>3
<1>14. ASSUME NEW c \in Clients, ReadMetadata(c) PROVE MergesInv'
  <2> DEFINE a == [arg[c] EXCEPT !.base = IF arg[c].e \in DOMAIN equip THEN equip[arg[c].e].meta ELSE {}]
  <2>1. Hold(c, "update_equipment", a) /\ UNCHANGED <<rows, acked>> /\ pc[c] = "patch_equipment"
    BY <1>14 DEF ReadMetadata
  <2>2. DOMAIN arg[c] = {"e", "b", "base"}
    BY <1>a, <2>1 DEF Carries
  <2>3. a.e \in DOMAIN equip => a.base = equip[a.e].meta
    BY <2>2
  <2> HIDE DEF a
  <2> QED BY <2>1, <2>3, MergesHolding
\* The merges: of a patch,
<1>15. ASSUME NEW c \in Clients, StoreEquipment(c) PROVE MergesInv'
  <2> DEFINE a == arg[c]
             new == Patched(equip[a.e], a)
             ok == a.e \in DOMAIN equip /\ EquipmentFits(db, a.e, new)
  <2>1. /\ pc[c] = "update_equipment" /\ Done(c) /\ fresh' = fresh
        /\ equip' = IF ok THEN [equip EXCEPT ![a.e] = new] ELSE equip
        /\ acked' = IF ok THEN acked \cup ({a.e} \X a.b.meta) ELSE acked
    BY <1>15 DEF StoreEquipment
  <2>2. CASE ~ ok
    BY <1>2, <2>1, <2>2, SameUnits
  <2>3. CASE ok
    <3>1. a.e \in DOMAIN equip /\ EquipmentRow(equip[a.e])
      BY <1>a, <2>3, IdsFit
    <3>2. new.meta = IF a.b.meta = {} THEN equip[a.e].meta ELSE a.base \cup a.b.meta
      BY <3>1 DEF Patched, Merge, EquipmentRow
    <3> HIDE DEF new
    <3>3. /\ DOMAIN equip' = DOMAIN equip
          /\ equip'[a.e] = new /\ \A x \in DOMAIN equip : x # a.e => equip'[x] = equip[x]
          /\ acked' = acked \cup ({a.e} \X a.b.meta)
      BY <2>1, <2>3
    <3>4. CASE a.b.meta = {}
      <4>1. Undisturbed
        BY <1>b, <2>1, <3>2, <3>3, <3>4 DEF Undisturbed
      <4>2. acked' = acked
        BY <3>3, <3>4
      <4> QED BY <1>2, <2>1, <4>1, <4>2
    <3>5. CASE a.b.meta # {}
      <4>1. Merging(pc[c], arg[c])
        BY <2>1, <3>5 DEF Merging
      <4>2. ASSUME "merges" \notin races PROVE Stored'
        <5>1. Stored /\ a.base = equip[a.e].meta
          BY <2>1, <3>1, <4>1, <4>2 DEF MergesInv, StillRead
        <5>2. new.meta = equip[a.e].meta \cup a.b.meta
          BY <3>2, <3>5, <5>1
        <5>3. ASSUME NEW v \in acked'
              PROVE  v[1] \in 1..(fresh' - 1) /\ (v[1] \in DOMAIN equip' => v[2] \in equip'[v[1]].meta)
          <6>1. CASE v \in acked
            BY <2>1, <3>3, <5>1, <5>2, <6>1 DEF Stored
          <6>2. CASE v \in {a.e} \X a.b.meta
            <7>1. v[1] = a.e /\ v[2] \in a.b.meta
              BY <6>2
            <7> QED BY <1>b, <2>1, <3>1, <3>3, <5>2, <7>1
          <6> QED BY <3>3, <6>1, <6>2
        <5> QED BY <5>3 DEF Stored
      <4> QED BY <2>1, <4>1, <4>2, MergesEnding
    <3> QED BY <3>4, <3>5
  <2> QED BY <2>2, <2>3
\* and of an import.
<1>16. ASSUME NEW c \in Clients, CommitImport(c) PROVE MergesInv'
  <2> DEFINE a == arg[c]
             body == a.body
             fallback == Fallback(a.body, a.known)
  <2>1. PICK d \in Import(db, a.body, a.known, a.seen) :
          /\ equip' = d.equip /\ points' = d.points /\ fresh' = d.fresh
          /\ acked' = acked \cup UNION {{e} \X Merged(d, a, e) : e \in DOMAIN d.equip}
    BY <1>16 DEF CommitImport
  <2>2. pc[c] = "import" /\ Done(c)
    BY <1>16 DEF CommitImport
  <2>3. /\ Reached(db, d, body, fallback, a.seen, RowsOf(body))
        /\ Fits(d) /\ fresh <= d.fresh
    BY <2>2, Committed
  <2>4. /\ Lists(body)
        /\ \A j \in DOMAIN body.equipment : body.equipment[j].eid \in {Null} \cup 1..(fresh - 1)
    BY <1>a, <2>2 DEF Carries
  <2> HIDE DEF body, fallback
  <2>5. /\ \A x \in DOMAIN equip : x \in DOMAIN d.equip
        /\ \A x \in DOMAIN d.equip : x \notin DOMAIN equip => x >= fresh
    BY <2>3, DbIs DEF Reached, Grown
  <2>6. \A x \in DOMAIN d.equip : x \in DOMAIN equip \/ x \notin 1..(fresh - 1)
    BY <1>b, <2>5
  <2>7. CASE NoMeta(body)
    <3>1. SameMeta(db, d)
      BY <2>3, <2>7 DEF Reached
    <3>2. Undisturbed
      BY <1>b, <2>1, <2>3, <2>6, <3>1, DbIs DEF Undisturbed, SameMeta
    <3>3. \A e : Merged(d, a, e) = {}
      BY <2>7 DEF Merged, NoMeta, body
    <3>4. acked' = acked
      BY <2>1, <3>3
    <3> QED BY <1>2, <2>2, <3>2, <3>4
  <2>8. CASE ~ NoMeta(body)
    <3>1. Merging(pc[c], arg[c])
      BY <2>2, <2>8 DEF Merging, NoMeta, body
    <3>2. ASSUME "merges" \notin races PROVE Stored'
      <4>1. Stored /\ Unread(equip, a.seen)
        BY <2>2, <3>1, <3>2 DEF MergesInv, StillRead
      <4>2. Mergeable(db, body, a.seen)
        BY <2>4, <4>1, DbIs DEF Mergeable
      <4>3. KeepsMeta(db, d)
        BY <2>3, <4>2 DEF Reached
      <4>4. ASSUME NEW j \in DOMAIN body.equipment PROVE Applied(d, body.equipment[j], SiteOf(body, fallback, j))
        <5>1. Len(body.points) + j <= RowsOf(body)
          BY <2>4 DEF Lists, RowsOf
        <5> QED BY <2>3, <4>2, <5>1 DEF Reached
      <4>5. ASSUME NEW e \in DOMAIN d.equip PROVE Merged(d, a, e) \subseteq d.equip[e].meta
        <5>1. ASSUME NEW k \in Merged(d, a, e) PROVE k \in d.equip[e].meta
          <6>1. PICK j \in DOMAIN body.equipment : /\ k \in body.equipment[j].meta
                                                   /\ About(d, body.equipment[j], SiteOf(body, fallback, j), e)
            BY <5>1 DEF Merged, About, SiteOf, body, fallback
          <6> QED BY <4>4, <6>1 DEF Applied
        <5> QED BY <5>1
      <4>6. ASSUME NEW v \in acked'
            PROVE  v[1] \in 1..(fresh' - 1) /\ (v[1] \in DOMAIN equip' => v[2] \in equip'[v[1]].meta)
        <5>1. CASE v \in acked
          <6>1. v[1] \in 1..(fresh - 1) /\ (v[1] \in DOMAIN equip => v[2] \in equip[v[1]].meta)
            BY <4>1, <5>1 DEF Stored
          <6>2. v[1] \in 1..(fresh' - 1)
            BY <1>b, <2>1, <2>3, <6>1
          <6>3. ASSUME v[1] \in DOMAIN equip' PROVE v[2] \in equip'[v[1]].meta
            <7>1. v[1] \in DOMAIN equip
              BY <2>1, <2>6, <6>1, <6>3
            <7> QED BY <2>1, <4>3, <6>1, <7>1, DbIs DEF KeepsMeta
          <6> QED BY <6>2, <6>3
        <5>2. CASE v \notin acked
          <6>1. PICK e \in DOMAIN d.equip : v \in {e} \X Merged(d, a, e)
            BY <2>1, <5>2
          <6>2. v[1] = e /\ v[2] \in Merged(d, a, e)
            BY <6>1
          <6> QED BY <1>b, <2>1, <4>5, <6>2
        <5> QED BY <5>1, <5>2
      <4> QED BY <4>6 DEF Stored
    <3> QED BY <2>2, <3>1, <3>2, MergesEnding
  <2> QED BY <2>7, <2>8
\* The other writes leave the metadata of equipment, or take it away with it.
<1>17. ASSUME NEW c \in Clients, InsertSite(c) PROVE MergesInv'
  <2>1. Undisturbed
    BY <1>17, <1>b DEF InsertSite, Undisturbed
  <2> QED BY <1>2, <1>17, <2>1 DEF InsertSite
<1>18. ASSUME NEW c \in Clients, RenameSite(c) PROVE MergesInv'
  BY <1>2, <1>18, SameUnits DEF RenameSite
<1>19. ASSUME NEW c \in Clients, InsertEquipment(c) PROVE MergesInv'
  <2>1. Done(c) /\ acked' = acked
    BY <1>19 DEF InsertEquipment
  <2>2. CASE Becomes(NewId(db, arg[c], "equip"))
    <3>1. /\ DOMAIN equip' = DOMAIN equip \cup {fresh} /\ fresh' = fresh + 1
          /\ \A x \in DOMAIN equip : equip'[x] = equip[x]
      BY <1>a, <2>2, NewUnitIs, DbIs DEF Becomes
    <3>2. Undisturbed
      BY <1>b, <3>1 DEF Undisturbed
    <3> QED BY <1>2, <2>1, <3>2
  <2>3. CASE UNCHANGED rows
    BY <1>2, <2>1, <2>3, SameUnits DEF rows
  <2> QED BY <1>19, <2>2, <2>3 DEF InsertEquipment
<1>20. ASSUME NEW c \in Clients, InsertPoint(c) PROVE MergesInv'
  <2>1. Done(c) /\ acked' = acked
    BY <1>20 DEF InsertPoint
  <2>2. CASE Becomes(NewId(db, arg[c], "points"))
    <3>1. equip' = equip /\ fresh' = fresh + 1
      BY <1>a, <2>2, NewPointIs, DbIs DEF Becomes
    <3>2. Undisturbed
      BY <1>b, <3>1 DEF Undisturbed
    <3> QED BY <1>2, <2>1, <3>2
  <2>3. CASE UNCHANGED rows
    BY <1>2, <2>1, <2>3, SameUnits DEF rows
  <2> QED BY <1>20, <2>2, <2>3 DEF InsertPoint
<1>21. ASSUME NEW c \in Clients, RejectImport(c) PROVE MergesInv'
  BY <1>2, <1>21, SameUnits DEF RejectImport, rows
<1>22. ASSUME NEW s, DeleteSite(s) PROVE MergesInv'
  <2>1. AtOnce /\ Becomes(WithoutSite(db, s))
    BY <1>22 DEF DeleteSite
  <2>2. /\ fresh' = fresh /\ DOMAIN equip' \subseteq DOMAIN equip
        /\ \A x \in DOMAIN equip' : equip'[x].meta = equip[x].meta
    BY <1>a, <2>1, WithoutSiteFits, DbIs DEF Becomes
  <2>3. Undisturbed
    BY <1>b, <2>2 DEF Undisturbed
  <2> QED BY <1>3, <2>1, <2>3 DEF AtOnce
<1>23. ASSUME NEW e, DeleteEquipment(e) PROVE MergesInv'
  <2>1. AtOnce /\ Becomes(WithoutEquipment(db, {e}))
    BY <1>23 DEF DeleteEquipment
  <2>2. /\ fresh' = fresh /\ DOMAIN equip' \subseteq DOMAIN equip
        /\ \A x \in DOMAIN equip' : equip'[x].meta = equip[x].meta
    BY <1>a, <2>1, WithoutUnitsFits, DbIs DEF Becomes
  <2>3. Undisturbed
    BY <1>b, <2>2 DEF Undisturbed
  <2> QED BY <1>3, <2>1, <2>3 DEF AtOnce
<1>24. ASSUME NEW p, NEW b, UpdatePoint(p, b) PROVE MergesInv'
  <2>1. PICK d \in StorePoint(db, p, Updated(points[p], b)) : Becomes(d)
    BY <1>24 DEF UpdatePoint
  <2>2. equip' = equip /\ fresh' = fresh
    BY <1>a, <2>1, StoredPointFits, DbIs DEF Becomes
  <2> QED BY <1>3, <1>24, <2>2, SameUnits DEF UpdatePoint, AtOnce
<1>25. ASSUME NEW p, DeletePoint(p) \/ Discover(p) PROVE MergesInv'
  BY <1>3, <1>25, SameUnits DEF DeletePoint, Discover, AtOnce, rows
<1>26. CASE UNCHANGED vars
  BY <1>3, <1>26, SameUnits DEF vars, rows
<1>27. ASSUME NEW c \in Clients, Reset(c) PROVE MergesInv'
  BY <1>4, <1>27 DEF Reset, Merges
<1>28. ASSUME NEW c \in Clients, ClearModel(c) PROVE MergesInv'
  <2>1. Hold(c, "reset", Null) /\ Becomes(Emptied(db)) /\ acked' = acked
    BY <1>28 DEF ClearModel
  <2>2. fresh' = fresh /\ DOMAIN equip' = {}
    BY <1>a, <2>1, EmptiedFits, DbIs DEF Becomes
  <2>3. Undisturbed
    BY <1>b, <2>2 DEF Undisturbed
  <2>4. /\ pc'[c] = "reset"
        /\ \A o \in Clients \ {c} : pc'[o] = pc[o] /\ arg'[o] = arg[o]
    BY <2>1, Holding DEF RowsInv
  <2>5. "merges" \notin races' => "merges" \notin races
    BY <2>1 DEF Hold, Seen
  <2> QED BY <2>1, <2>3, <2>4, <2>5, MergesQuiet DEF Merging
<1>29. ASSUME NEW c \in Clients, ResetGraph(c) PROVE MergesInv'
  <2>1. UNCHANGED <<equip, fresh, acked, races>>
    BY <1>29 DEF ResetGraph, rows
  <2>2. /\ pc'[c] = "idle"
        /\ \A o \in Clients \ {c} : pc'[o] = pc[o] /\ arg'[o] = arg[o]
    BY <1>29, Resetting DEF RowsInv
  <2> QED BY <2>1, <2>2, SameUnits, MergesQuiet DEF Merging
<1> QED BY <1>5, <1>6, <1>7, <1>8, <1>9, <1>10, <1>12, <1>13, <1>14, <1>15, <1>16, <1>17, <1>18, <1>19, <1>20,
          <1>21, <1>22, <1>23, <1>24, <1>25, <1>26, <1>27, <1>28, <1>29 DEF Next

\* Metadata that a PATCH or an import answered for stay with their equipment,
\* whatever is imported, patched or deleted after, as long as no two merges were
\* between their read and their write at once.
THEOREM StoredMetadataStay == Spec => []MergesKept
<1>1. RowsInv /\ MergesInv => MergesKept
  BY DEF MergesInv, MergesKept, Stored
<1>2. Init => RowsInv /\ MergesInv
  BY RowsInit, MergesInit
<1>3. (RowsInv /\ MergesInv) /\ [Next]_vars => (RowsInv /\ MergesInv)'
  BY RowsStep, MergesStep
<1> QED BY <1>1, <1>2, <1>3, PTL DEF Spec
===============================================================================
