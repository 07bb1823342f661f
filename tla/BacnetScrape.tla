----------------------------- MODULE BacnetScrape -----------------------------
(***************************************************************************)
(* The BACnet and Modbus scraper: the container of                         *)
(* drivers/run_bacnet_scrape.py with --loop, and the two polls it makes    *)
(* through every gateway, drivers/bacnet.py and drivers/modbus_tcp.py.     *)
(* A poll loads the points, asks the gateway device by device, and stores  *)
(* all readings in one transaction; the API changes points meanwhile.      *)
(***************************************************************************)
EXTENDS Integers, Sequences, SequencesExt, FiniteSets

CONSTANTS
  Null,
  Points,      \* ids of points
  Sites, SiteOf, \* the site of each point
  Ghost,       \* a site named like the id of one that is gone
  Objects,     \* BACnet objects <<device, object identifier>>
  Registers,   \* Modbus registers <<host, address>>
  Gateways,    \* entries of bacnet_gateways: [url, site], site Null for all
  Default,     \* the gateway of the environment: OFDD_BACNET_SERVER_URL
  EnvGateways, \* OFDD_BACNET_GATEWAYS, or Null
  GatewayLists,\* values of bacnet_gateways in the API's settings
  Bad,         \* one that is not JSON
  Rows0,       \* the points at the start
  Patches,     \* bodies of PATCH /points/{id}
  MaxRequests, \* bound: changes through the API
  MaxResults,  \* bound: results in an answer to fewer requests
  MaxFailures    \* bound: faults met

Kinds == {"bacnet", "modbus"}
Point == [bac : Objects \cup {Null}, mb : Registers \cup {Null}, polling : BOOLEAN]
Addresses == Objects \cup Registers
Hosts == {a[1] : a \in Addresses} \* devices, and hosts of registers
Lists == Seq(Gateways)

ASSUME ScrapeLists ==
  /\ Default \in Gateways
  /\ \A list \in GatewayLists \cup {EnvGateways} : list \in Lists \cup {Null, Bad}
ASSUME ScrapeRows ==
  /\ IsFiniteSet(Points)
  /\ DOMAIN Rows0 \subseteq Points /\ Rows0 \in [DOMAIN Rows0 -> Point]
ASSUME ScrapePatches ==
  \A b \in Patches :
    /\ DOMAIN b \subseteq {"bac", "mb", "polling"}
    /\ "bac" \in DOMAIN b => b.bac \in Objects \cup {Null}
    /\ "mb" \in DOMAIN b => b.mb \in Registers \cup {Null}
    /\ "polling" \in DOMAIN b => b.polling \in BOOLEAN

VARIABLES
  sites, points,   \* the database: sites, and points by id
  setting,             \* bacnet_gateways as the API would answer
  phase, mode, gws,   \* the scraper: where it is, one gateway or many, its list
  todo,            \* gateways still to poll in this cycle
  kind,            \* the poll at hand
  loaded,          \* its points and their objects or registers, in order
  left,            \* devices or hosts still to ask
  got,             \* readings so far: <<point, what was read>>
  inserted,          \* history: the points given a row by its last transaction
  answered,        \* history: the objects and registers that answered in this poll
  astray,          \* history: <<o, x>>: in o's place came a number of x, spelled otherwise
  repeated,        \* history: the objects that answered more than once to a request
  requests, failures

poll == <<kind, loaded, left, got>>
scraper == <<phase, mode, gws, todo, poll>>
heard == <<answered, astray, repeated>>
scrapeVars == <<sites, points, setting, scraper, inserted, heard, requests, failures>>

NothingHeard == answered = {} /\ astray = {} /\ repeated = {}
Forget == answered' = {} /\ astray' = {} /\ repeated' = {}
NoPoll == kind = "bacnet" /\ loaded = <<>> /\ left = <<>> /\ got = <<>>
ScrapeInit ==
  /\ sites = Sites /\ points = Rows0
  /\ setting \in GatewayLists
  /\ phase = "boot" /\ mode = "one" /\ gws = <<>> /\ todo = <<>> /\ NoPoll
  /\ inserted = {} /\ NothingHeard
  /\ requests = 0 /\ failures = 0

Failure == failures < MaxFailures /\ failures' = failures + 1
Request == requests < MaxRequests /\ requests' = requests + 1
Enter(l) == phase' = l
db == <<sites, points, setting, requests>>

------------------------------------------------------------------------------
\* GET /config, kept for the 30 s in which it is used twice.  Without an answer,
\* or without a list in it, the environment's.
Resolved(list) == IF list = Null THEN EnvGateways ELSE list
Fetched(list) ==
  \/ list = Resolved(setting) /\ UNCHANGED failures
  \/ list = EnvGateways /\ Failure

IsGiven(list) == list # Null                            \* mutant: taken as it comes
IsList(list) == list \notin {Null, Bad, <<>>}

\* main() up to its loops.  Whether there is one gateway or a list is settled
\* here; a list that is no list ends the process, and it is started again.
Boot ==
  /\ phase = "boot"
  /\ \E list \in GatewayLists \cup {EnvGateways} :
       /\ Fetched(list)
       /\ IF list = Null THEN mode' = "one" /\ gws' = <<Default>> /\ Enter("polling") /\ todo' = <<Default>>
          ELSE IF IsList(list) THEN mode' = "many" /\ gws' = list /\ Enter("polling") /\ todo' = list
          ELSE UNCHANGED <<phase, mode, gws, todo>>
  /\ UNCHANGED <<db, poll, inserted, heard>>

AdoptedOnce(list) == gws                                \* mutant: read at the start only
\* The list is read again every cycle; what is no list leaves the last one.
Adopted(list) == IF mode = "many" /\ IsList(list) THEN list ELSE gws
BeginCycle ==
  /\ phase = "asleep"
  /\ \E list \in GatewayLists \cup {EnvGateways} :
       /\ Fetched(list)
       /\ gws' = Adopted(list) /\ todo' = Adopted(list)
  /\ Enter("polling")
  /\ UNCHANGED <<db, mode, poll, inserted, heard>>

NextPoll(k, rest) ==
  /\ kind' = k /\ todo' = rest
  /\ loaded' = <<>> /\ left' = <<>> /\ got' = <<>> /\ Forget
  /\ Enter(IF rest = <<>> THEN "asleep" ELSE "polling")
ProceedNext == NextPoll("bacnet", Tail(todo))            \* mutant: no Modbus
\* After BACnet the same gateway is asked for Modbus, then the next gateway.
Proceed == IF kind = "bacnet" THEN NextPoll("modbus", todo) ELSE NextPoll("bacnet", Tail(todo))
\* An exception skips the rest of this gateway.
GiveUp == NextPoll("bacnet", Tail(todo))

------------------------------------------------------------------------------
\* One poll.

TargetOf(p) == IF kind = "bacnet" THEN points[p].bac ELSE points[p].mb
InScope(p) ==
  /\ points[p].polling /\ TargetOf(p) # Null
  /\ Head(todo).site \in {Null, SiteOf[p]}
Devices(read) == [i \in DOMAIN read |-> read[i][2][1]]

\* The entries of s at the positions I, in their order.
Nth(I, k) == CHOOSE i \in I : Cardinality({j \in I : j <= i}) = k
Picked(s, I) == [k \in 1..Cardinality(I) |-> s[Nth(I, k)]]

\* Each device once, in the order of its first point.
Once(s) == Picked(s, {i \in DOMAIN s : \A j \in 1..(i - 1) : s[j] # s[i]})

Selected ==
  LET listed == SetToSeq({p \in DOMAIN points : InScope(p)})
  IN [i \in DOMAIN listed |-> <<listed[i], TargetOf(listed[i])>>]

\* Points with an address and polling on; without any the poll is over.
LoadPoints ==
  /\ phase = "polling"
  /\ IF Selected = <<>> THEN Proceed
     ELSE /\ loaded' = Selected /\ left' = Once(Devices(Selected)) /\ got' = <<>>
          /\ Enter("reading") /\ UNCHANGED <<kind, todo, heard>>
  /\ UNCHANGED <<db, mode, gws, inserted, failures>>

\* resolve_site_uuid, for a site that is gone: any other one, and when there is
\* none a new site is made of the id.
ResolvedSites == IF sites = {} THEN {Ghost} ELSE sites

SpecsOf(d) == Picked(loaded, {i \in DOMAIN loaded : loaded[i][2][1] = d})

\* A result of client_read_multiple: the object it is of, and whether its
\* identifier is spelled as asked; a number of something else; or no number
\* (_pv_to_float, and values that say Error).
NoNumber == [of |-> Null, as |-> "nothing"]
Results(all) == [of : all, as : {"asked", "otherwise"}] \cup {[of |-> Null, as |-> "otherwise"], NoNumber}
\* What the gateway makes of a request is its own affair: fewer results or more,
\* in any order, twice, none.  An exception at a result leaves those before it.
Answers(n, all) == UNION {[1..m -> Results(all)] : m \in 0..n \cup 0..MaxResults}

SpecAt(specs, i, item) == IF i \in DOMAIN specs THEN i ELSE Len(specs) \* mutant: by position alone
\* A result finds its point by the identifier it carries (of points that share
\* one, the last); with one that was not asked for, by its position.
SpecFor(specs, i, item) ==
  IF item.as = "otherwise" THEN i
  ELSE CHOOSE k \in DOMAIN specs : /\ specs[k][2] = item.of
                                   /\ \A l \in DOMAIN specs : specs[l][2] = item.of => l <= k
\* A number that finds none is of no site, and dropped.
Placed(specs, answer) ==
  {i \in DOMAIN answer : answer[i].as = "asked" \/ (answer[i].as = "otherwise" /\ i \in DOMAIN specs)}
\* The readings of a request.
ReadMultiple(specs, answer) ==
  [k \in 1..Cardinality(Placed(specs, answer)) |->
     LET i == Nth(Placed(specs, answer), k)
     IN <<specs[SpecFor(specs, i, answer[i])][1], answer[i].of>>]
\* client_read_property, point by point.
ReadEach(specs, ok) == Picked(specs, {i \in DOMAIN specs : specs[i][2] \in ok})

\* Of an answer: the results that carry their object's identifier or stand in
\* its place, the objects they are of, those in the place of another, those twice.
Right(specs, answer) ==
  {i \in DOMAIN answer :
     \/ answer[i].as = "asked"
     \/ answer[i].as = "otherwise" /\ i \in DOMAIN specs /\ specs[i][2] = answer[i].of}
Answering(specs, answer) == {answer[i].of : i \in Right(specs, answer)}
Astray(specs, answer) ==
  {<<specs[i][2], answer[i].of>> : i \in {j \in DOMAIN answer \cap DOMAIN specs :
                                            answer[j].as = "otherwise" /\ specs[j][2] # answer[j].of}}
Repeated(specs, answer) ==
  {answer[i].of : i \in {j \in Right(specs, answer) :
                           \E k \in Right(specs, answer) : k # j /\ answer[k].of = answer[j].of}}
\* Every object asked for has a number, under its identifier or in its place.
Plain(specs, all, answer) ==
  /\ Len(answer) = Len(specs) /\ Right(specs, answer) = DOMAIN specs
  /\ Answering(specs, answer) = all

Take(read, from, out, twice) ==
  /\ got' = got \o read
  /\ answered' = answered \cup from /\ astray' = astray \cup out /\ repeated' = repeated \cup twice
  /\ sites' = IF read = <<>> THEN sites ELSE ResolvedSites

\* One device: several values in a request; if that brings no number, one by
\* one.  Any other answer than a plain one is a fault.
ReadDevice ==
  /\ phase = "reading" /\ kind = "bacnet" /\ left # <<>>
  /\ LET specs == SpecsOf(Head(left))
         all == {specs[i][2] : i \in DOMAIN specs}
     IN \E answer \in Answers(Len(specs), all) :
          /\ IF Plain(specs, all, answer) THEN UNCHANGED failures ELSE Failure
          /\ IF \A i \in DOMAIN answer : answer[i] = NoNumber
             THEN \E each \in SUBSET all : Take(ReadEach(specs, each), each, {}, {})
             ELSE Take(ReadMultiple(specs, answer), Answering(specs, answer),
                       Astray(specs, answer), Repeated(specs, answer))
  /\ left' = Tail(left)
  /\ UNCHANGED <<points, setting, requests, phase, mode, gws, todo, kind, loaded, inserted>>

\* One Modbus host: the readings must be as many as the registers, and are told
\* apart by position.
ReadGroup ==
  /\ phase = "reading" /\ kind = "modbus" /\ left # <<>>
  /\ LET specs == SpecsOf(Head(left))
         all == {specs[i][2] : i \in DOMAIN specs}
     IN \E ok \in SUBSET all :
          /\ IF ok = all THEN UNCHANGED failures ELSE Failure
          /\ Take(ReadEach(specs, ok), ok, {}, {})
  /\ left' = Tail(left)
  /\ UNCHANGED <<points, setting, requests, phase, mode, gws, todo, kind, loaded, inserted>>

\* One transaction for all readings of the poll: a point that is gone breaks its
\* foreign key, nothing is stored, and the exception skips the gateway's rest.
StoreReadings ==
  /\ phase = "reading" /\ left = <<>>
  /\ IF \A i \in DOMAIN got : got[i][1] \in DOMAIN points
     THEN inserted' = {got[i][1] : i \in DOMAIN got} /\ Proceed
     ELSE GiveUp /\ UNCHANGED inserted
  /\ UNCHANGED <<db, mode, gws, failures>>

\* The database does not answer.
PollFails ==
  /\ phase \in {"polling", "reading"}
  /\ Failure /\ GiveUp
  /\ UNCHANGED <<db, mode, gws, inserted>>

\* The container is killed, and started again.
Restart ==
  /\ phase # "boot" /\ Failure /\ Enter("boot")
  /\ gws' = <<>> /\ todo' = <<>> /\ mode' = "one"
  /\ kind' = "bacnet" /\ loaded' = <<>> /\ left' = <<>> /\ got' = <<>> /\ Forget /\ inserted' = {}
  /\ UNCHANGED db

------------------------------------------------------------------------------
\* The API meanwhile.

Without(gone) == [p \in DOMAIN points \ gone |-> points[p]]
DeletePoint(p) ==
  /\ p \in DOMAIN points /\ Request
  /\ points' = Without({p})
  /\ UNCHANGED <<sites, setting, scraper, inserted, heard, failures>>
DeleteSite(s) ==
  /\ s \in sites /\ Request
  /\ sites' = sites \ {s}
  /\ points' = Without({p \in DOMAIN points : SiteOf[p] = s})
  /\ UNCHANGED <<setting, scraper, inserted, heard, failures>>
Patched(r, b) == [f \in DOMAIN r |-> IF f \in DOMAIN b THEN b[f] ELSE r[f]]
PatchPoint(p, b) ==
  /\ p \in DOMAIN points /\ Request
  /\ points' = [points EXCEPT ![p] = Patched(@, b)]
  /\ UNCHANGED <<sites, setting, scraper, inserted, heard, failures>>
PutGateways(list) ==
  /\ list # setting /\ Request /\ setting' = list
  /\ UNCHANGED <<sites, points, scraper, inserted, heard, failures>>

Scraper ==
  Boot \/ BeginCycle \/ LoadPoints \/ ReadDevice \/ ReadGroup \/ StoreReadings
ScrapeNext ==
  \/ Scraper \/ PollFails \/ Restart
  \/ \E p \in Points : DeletePoint(p) \/ \E b \in Patches : PatchPoint(p, b)
  \/ \E s \in Sites : DeleteSite(s)
  \/ \E list \in GatewayLists : PutGateways(list)

ScrapeSpec == ScrapeInit /\ [][ScrapeNext]_scrapeVars
\* The container runs and is restarted; gateways and database answer once the
\* faults are over.
FairScrapeSpec == ScrapeSpec /\ WF_scrapeVars(Scraper)

------------------------------------------------------------------------------
ScrapeTypeOK ==
  /\ sites \subseteq Sites \cup {Ghost}
  /\ points \in [DOMAIN points -> Point] /\ DOMAIN points \subseteq Points
  /\ phase \in {"boot", "asleep", "polling", "reading"} /\ mode \in {"one", "many"}
  /\ gws \in Lists /\ todo \in Lists /\ kind \in Kinds
  /\ loaded \in Seq(Points \X Addresses) /\ got \in Seq(Points \X (Addresses \cup {Null}))
  /\ left \in Seq(Hosts)

Apart == \A i, j \in DOMAIN loaded : i # j => loaded[i][2] # loaded[j][2]

\* When everything was asked, a point has a reading of its own object exactly
\* when that answered under its identifier or in its place, at once or one by
\* one, however the results were ordered, cut short or mixed with others; one
\* only, unless the object answered twice; and any other reading of the point is
\* a number that came in its place under an identifier nobody asked for.  (That
\* one is stored as the point's: the gateway that reorders its results and spells
\* them its own way mixes up the points, and nothing of it is noticed.  Points
\* that share an object do not have this: the last of them gets the readings.)
OwnReadings ==
  phase = "reading" /\ left = <<>> /\ Apart =>
    \A i \in DOMAIN loaded :
      LET object == loaded[i][2]
          its == {j \in DOMAIN got : got[j][1] = loaded[i][1]}
          own == {j \in its : got[j][2] = object}
      IN /\ own # {} <=> object \in answered
         /\ object \notin repeated => \A j, k \in own : j = k
         /\ \A j \in its \ own : <<object, got[j][2]>> \in astray

\* A list of gateways that stays in the settings is the one polled, without a
\* restart, once the process runs on a list.
GatewaysAdopted ==
  \A list \in GatewayLists :
    <>[](IsList(list) /\ setting = list /\ mode = "many") => <>[](gws = list)

AloneAt(p) == \A q \in DOMAIN points \ {p} : points[q].bac = Null \/ points[q].bac # points[p].bac
Covers(g, p) == g.site \in {Null, SiteOf[p]}
\* A point that stays polled, alone at its object and covered by a gateway, is
\* stored again and again, whatever failed, was deleted or changed before, and
\* whichever gateway comes before its own in the list.
PointsKeepComing ==
  \A p \in Points :
    <>[](/\ p \in DOMAIN points /\ points[p].polling /\ {points[p].bac, points[p].mb} # {Null} /\ AloneAt(p)
         /\ phase # "boot" /\ \E i \in DOMAIN gws : Covers(gws[i], p))
      => []<>(p \in inserted)
==============================================================================
