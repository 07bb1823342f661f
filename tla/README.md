# TLA+ models of the Open-FDD AFDD stack

This directory holds TLA+ models of the parts of `openfdd_stack/platform` whose
correctness depends on the order in which things happen: threads of the API
process, the loop containers beside it, the PostgreSQL transactions and the
files they share. Each model is translated from the Python source, checked by
TLC on small instances and, where it pays, proved with TLAPS for every value of
its constants. `PROJECT.json` lists the components, runs, mutants (plausible
bugs each property detects), hazards and theorems, and maps every definition to
the source lines it stands for.

## 1. The system

Paths are relative to `src/openfdd_stack/platform/` unless they start with
another directory.

### Processes and what they share

- The **API process** (FastAPI, `api/main.py`): requests run in a pool of
  threads; beside them run `threading.Timer` threads (debounced file sync), one
  periodic sync thread, and one thread per background job.
- The **fdd-loop** container (`drivers/run_rule_loop.py --loop`) and the
  **scrapers** (BACnet, onboard, CSV, weather, host statistics), each a process
  with a sleep loop. Anyone may also start these programs once by hand.
- They share **PostgreSQL**, the directory `config/` (`data_model.ttl`, the
  trigger file `.run_fdd_now`), and HTTP calls to the API (`/config`, `/points`).
- The **browser** and Home Assistant read the API; the browser also holds a
  WebSocket.

### Inventory

**Debounced TTL sync** (`data_model_ttl.py`, `graph_model.py`, `api/main.py`).
State: the tables, the in-memory rdflib graph, `config/data_model.ttl`, the
module variable `_sync_timer`. Operations: a CRUD handler commits and calls
`sync_ttl_to_file` (cancel and re-arm a 0.25 s timer); the timer calls
`_flush_sync`, `_do_sync`, `write_ttl_to_file`; the periodic thread and
`POST /data-model/serialize` write too; boot loads the file and writes it; an
`atexit` hook flushes. Hard: several writers of one file without a lock around
the write, a timer reference reset by somebody else, kill between truncation
and write, errors in the periodic thread. Correct means: no change is lost, the
file is a snapshot of the database, a dead reference never stands for work
nobody does.

**Platform configuration** (`api/config.py`, `config.py`, `graph_model.py`).
State: an in-memory overlay that every reader of the settings merges, the
`ofdd:platform_config` triples of the graph, and the same triples in the file.
Operations: `PUT /config`, `POST /data-model/reset`, every writer of the file,
boot. Hard: read-merge-store over three places by concurrent requests, failure
half way, a writer that serializes while a reset has cleared the graph. Correct
means: the three agree at rest, keys a request leaves out keep their value, a
restart brings back what was acknowledged.

**FDD loop and historical backfill** (`drivers/run_rule_loop.py`,
`drivers/run_trigger_fdd.py`, `api/run_fdd.py`, SQL migration 020). State: the
settings of the cycle, the stored backfill cursor with the range it belongs to,
the trigger file, the elapsed sleep. Operations: reload settings, backfill pass
(a window, then the cursor, until the range is done), routine run over the
lookback, naps that poll the trigger file. Hard: kills between a window and its
cursor, a range that changes under a stored cursor, a second process on the
same row, triggers during runs. Correct means: no hour below the cursor is
unevaluated, a request to run is not lost, the backfill ends and the routine
run recurs.

**Rule run and fault state** (`loop.py`, `fault_state_sync.py`, migration 015).
State: `fault_results` (history), `fault_state` (active faults),
`fdd_run_log`. Operations: evaluate each site, insert the results, compute the
difference to the active faults and write it, log. Several runs may overlap (loop
process, job threads), and sites are deleted and histories cleared beside them.
Hard: four transactions per run, a difference computed from an older read.
Correct means: the active faults are what the runs found, over stored rows.

**Realtime events** (`realtime/hub.py`, `realtime/events.py`, `realtime/ws.py`,
`src/frontend/src/hooks/use-websocket.ts`). State: per process, the connected
clients and their topics; in the browser, cached lists. Operations: emit,
broadcast by topic pattern, invalidate and refetch. Hard: an event precedes the
commit it tells of; another process's hub has no clients.

**Onboard ingest** (`drivers/onboard.py`, `drivers/run_onboard_scrape.py`,
migration 019). State: per building a row with `backfill_done` and
`last_poll_end`, and the stored readings. Operations: a run polls building after
building from the checkpoint to now, or to a configured end while the backfill
is not done; each window of readings is inserted together with the row. Hard:
errors and kills between windows, settings that change or cannot be fetched,
runs by hand, an insert without `ON CONFLICT`. Correct means: nothing below a
checkpoint is missing, nothing is stored twice, every building is brought to the
present.

**CSV ingest** (`drivers/csv_driver.py`, `drivers/run_csv_scrape.py`,
`api/csv_ingest.py`). State: per source a cursor `last_ts`, the points by
external id, the readings, and files that another program appends to. A cycle
reads each file, takes the lines above the cursor and within the range, and
commits points, readings and cursor in one transaction; uploads insert without
the cursor. Hard: half-written lines, late lines, settings that change or cannot
be fetched, a second process, no unique constraint on the readings. Correct
means: below the cursor nothing is missing that the code promises, nothing is
stored twice, a source is followed to its end.

**Sites, equipment, points** (`api/sites.py`, `api/equipment.py`,
`api/points.py`, `site_resolver.py`). State: three tables with foreign keys,
cascades and unique constraints. Operations: POST, PATCH and DELETE of each, most
with a check in one statement or connection and the write in another. Correct
means: references resolve, names of sites stay apart although the schema does not
demand it, metadata of equipment that were acknowledged stay.

**Data-model import, export, reset** (`api/data_model.py`). Operations: a
template built from graph and database; an import, one transaction of rows that
insert, update or move points, create equipment by name and set links, and that
may refuse. Hard: ids that are gone when the body comes back, keys that are
taken, rows without a site. Correct means: an import sent twice changes nothing
the second time, an untouched template changes nothing but points whose external id it
proposes for another object.

**BACnet scraper** (`drivers/run_bacnet_scrape.py`, `drivers/bacnet.py`,
`drivers/modbus_tcp.py`). State: one gateway or a list that is read again each
cycle; in a poll, the loaded points and the readings so far. Operations: per
gateway a BACnet and a Modbus poll, several values in a request with a fallback
to one by one, one transaction. Hard: results in another order or spelling,
devices that do not answer, points deleted meanwhile. Correct means: a reading is
stored under its own point, and points keep coming.

**BACnet gateway RPC, audit and graph** (`api/bacnet.py`,
`bacnet_host_gateway.py`, `graph_model.py`, `data_model_reset`). State: the settings' gateways, rows
of `bacnet_write_audit`, the graph of discovered objects, and what devices hold.
Operations: write a point or a property, discover a device into the graph, each
over several addresses in turn; reset the model, which clears the graph. Hard: a
write that timed out and is performed all the same, a row that fails after the
write, another gateway behind the next address, triples removed by a prefix,
a file that is written while the graph changes. Correct means: a write can be
traced, comes to no third gateway, and a discovered device is shown as it is.

**Rule files and definitions** (`rules_loader.py`, `api/rules.py`, `loop.py`).
State: YAML files in a directory, the table `fault_definitions`, the cache of
`HotReloadRules`. Operations: uploads and deletes, the load of every run and its
sync of the table (upserts and a prune in one transaction), the same sync by a
request, the reload by hash. Hard: files read one by one while they change, a
truncated file, two syncs waiting for each other's rows. Correct means: a run
works on the files as they are, the table catches up with them, the cache does
not stand for files it has not read.

**Background jobs** (`jobs.py`): an in-memory store of jobs, one thread each: a
rule run, or a discovery that does what the request does after it was answered.
**Authentication** (`api/auth.py`): refresh tokens in memory under one lock.

**Weather, host statistics, energy calculations, analytics, entities, model
context, MCP service, driver profile, bootstrap**: periodic appends, pure
functions or read-only queries; see `PROJECT.json` for each.

## 2. Modules

| Module | Models | Extends |
|---|---|---|
| `SnapshotFile` | what the TTL file promises (abstract) | |
| `TtlSync` | debounced sync, every writer, boot, exit, kills | refines `SnapshotFile` |
| `TtlSyncProofs` | its theorems | `TtlSync` |
| `ConfigStore` | the platform configuration in overlay, graph and file | |
| `ConfigStoreProofs` | its theorems | `ConfigStore` |
| `FddLoop` | the fdd-loop schedule, backfill cursor, trigger file | |
| `FddLoopProofs` | theorems of `FddLoop`, and of the `RuleFiles` its runs load | `FddLoop`, `RuleFiles` |
| `FaultRun` | overlapping rule runs and the fault tables | |
| `FaultFeed` | the events of the runs and the browser's list | composes with `FaultRun` |
| `FaultRunProofs` | theorems of both | `FaultFeed` |
| `OnboardIngest` | the polls of Onboard buildings and their checkpoints | |
| `CsvIngest` | the CSV scraper, its cursors, files that grow, uploads | |
| `CsvIngestProofs` | its theorems | `CsvIngest` |
| `DataModel` | sites, equipment, points; import and export | |
| `DataModelProofs` | its theorems | `DataModel` |
| `BacnetScrape` | the BACnet and Modbus polls of the scraper | |
| `ScraperProofs` | theorems of `OnboardIngest` and of `BacnetScrape` | both |
| `BacnetGateway` | calls to gateways, write audit, discovery into the graph | |
| `BacnetGatewayProofs` | its theorems | `BacnetGateway` |
| `RuleFiles` | rule files, their readers, the definitions table | |
| `MCTtlSync`, `MCConfigStore`, `MCFddLoop`, `MCFaultFeed`, `MCOnboardIngest`, `MCCsvIngest`, `MCDataModel`, `MCBacnetScrape`, `MCBacnetGateway`, `MCRuleFiles` | model values, instances, symmetry, constraints for TLC | the above |

Definitions keep the names of the code (`Schedule` is `sync_ttl_to_file`,
`FlushSync` is `_flush_sync`, `ReadActive`..`Commit` are the parts of
`sync_fault_state_from_results`). Definitions marked `mutant` are not part of a
model: each is a plausible bug, and a property is worth keeping only if it
detects one.

### TtlSync

The content of the database is a version number, raised by each commit. The
graph, the file and a writer's text each hold a version, `Empty` (no Brick
triples, or a truncated file) or `Torn`. Each thread has a program counter;
`write_ttl_to_file` is split where other threads can come in: `SyncBrick`
(rebuild triples under the lock), `Serialize` (the lock is taken again),
`Truncate`, `Write`. A `threading.Timer` is a thread: armed by `Schedule`, fired
at any time by `Fire`, stopped only while armed. `FlushSync` takes whatever timer
is referenced and returns early when there is none; `ClearTimer` is the last
line of `_do_sync`, which forgets the reference whoever set it. `Shutdown`,
`AtExit` and `Exit` follow the interpreter: requests end, the timer threads (not
daemons) are joined, the `atexit` hook runs, the daemon thread is killed
wherever it is. Faults: a database error while the triples are rebuilt
(`SyncFails`; the periodic thread has no handler for it and ends), a failed open
or write (`WriteFails`), a kill (`Crash`). History variables record the database
version when a write began, at boot, and which of two races occurred: a timer
callback that found the reference gone, and two threads in
`write_ttl_to_file` together.

### ConfigStore

A configuration is a partial function from keys to values. `PutRead` merges the
body into the overlay, or the graph, or the defaults (the order of the code);
`SetGraph`, the four steps of a write and `SetOverlay` (with the answer) follow,
each interleaving with the others. A reset is `ResetRead`, `ResetClear`,
`SetGraph` and a write. Boot loads the file (a torn file gives any part of a
configuration), sets graph and overlay, and writes. The history records what was
acknowledged and, in `excuses`, what went wrong since the file was last good:
overlapping changes, a change that failed, overlapping writes, a text older than
the graph, a text without configuration, a write cut by a kill.

### FddLoop

Time is an integer axis. The pc of the loop follows `main`: `reload`, `pass`,
`window`, `save`, `routine`, `sleep`; `down` is the container between exit and
restart. The stored row is the last cursor with the start and end it belongs to;
a window evaluates its points with both ends included, as the queries do. A
one-shot process runs the same steps without the sleep. `Touch` is any of the
three ways to create the trigger file. A window or a routine run is one step
here; its inside is `FaultRun`.

### FaultRun and FaultFeed

A key is a fault of a site. A runner is the loop process or a job's thread; a
run is `Start` (the list of sites), `EvalSite` each, `WriteRows` (commit),
`ReadActive` (one connection), `Upsert` (statements, row locks) and `Commit`
(another connection), `WriteLog`. Row locks are modelled by `Locked`: a
transaction waits for one that holds a common row. What a lookback finds is what
the data show; what a backfill window finds is arbitrary. Beside the runs:
`DeleteSite` (cascade), `DeactivateOrphans` and `ClearHistory` (reset), data
that change, errors and kills anywhere. `FaultFeed` adds the browser: events
leave with the statements, before the commit, to the clients of the emitting
process only; a fetch reads committed rows. `low` and `high` are histories: what
all, and what any, of the overlapping last runs found.

### OnboardIngest

Time is cut into units, and a unit stands for the readings in it. A runner is
the container or a process started by hand; `Begin` takes the settings (those of
`GET /config`, or of the environment while that call fails) and the time of the
run. `LoadState` reads the row and computes where the building starts;
`StoreWindow` is one window (all its batches) with the row, in one transaction;
`FinishBuilding` saves the row after the last window; `SkipBuilding` is a
building without site or mapped points. `Fails` is an error anywhere, which ends
the run, and equally a kill, because a run keeps nothing from the last one. The
history records units stored twice, units before a run's start that no row
claimed (`waived`), and per building what may store a unit twice: a checkpoint
moved back, or overlapping runs. The switch `onboard_enabled` is left on; the
cache of `GET /config` is older than its 30 seconds whenever a run begins,
because every sleep takes at least a minute.

### CsvIngest

A line keeps its time and the columns with a number; `Torn` is a line whose time
is not written to its end. `AppendLine` and `FinishLine` are the program that
writes the file, in any order of times. A cycle is `BeginCycle` (settings, or
those of the environment), and per source `ReadFile`, `LoadState` and
`StoreRows`, the transaction. Two sources may have one stem and so feed the same
points. `excused` names the values the code does not promise: out of order, at or
before the start, of a column without a point, of a deleted point.

### DataModel

The database is a record of three tables, and the schema is `EquipmentFits`,
`PointFits`, `WithoutEquipment` and `WithoutSite`. A request with a check is two
actions with anything between them; a request in one transaction is one. An
import is a function from a database to the databases it may commit, because a
site looked up by name is any of that name (`LIMIT 1` without an order) and an
equipment's metadata may be read before another request's commit; refusing is
the empty set. It is built row by row as the code is: `ImportPoint` with
`ById`, `ByIdentity` and `Upsert`, then `ImportEquipment` with `LinkTo` and
`UpdateLinks`. `Import` is a function from the number of rows to the databases
after them, and a template lists its rows with another (`Listed`); neither is a
RECURSIVE operator, so that the proofs can speak of both. An id is a number that
was never used before, as a uuid is. A template is `Template`; `HoldTemplate` and `SendTemplate` are a
client that works on it while the rest goes on. Without points and objects it is
one row, `Scaffold`, whose site is the text `"<site-uuid>"`: `Parses` and
`Complete` are where an import refuses what is no id. `bacnet_only`, which leaves
rows without an object out, is not modelled. A site's name is looked up with
ILIKE in names and descriptions; `Alike` gives the names of the sites that answer
to one. `Reset` and `ClearModel` (all sites in one transaction) begin `POST
/data-model/reset`; `ResetGraph` takes the objects. `races` records when two
requests were between check and write at once.

### BacnetScrape

One action per call that leaves the process: `Boot` and `BeginCycle` (the list of
gateways), `LoadPoints`, `ReadDevice` (several values, or one by one), `ReadGroup`
(Modbus), `StoreReadings`. A reading is a pair of a point and the object it came
from, so that `SpecFor`, the match of results to points, can be wrong. `Answers`
is every list of results a gateway may return to a request: fewer or more than
were asked for, in any order, some twice, each under the identifier it was asked
by or another spelling, or without a number. `Placed` are the results that find a
point; `astray` and `repeated` record which came in another object's place and
which twice. `Picked` is a comprehension over a list: its entries at some
positions, in order.
The API deletes and changes points and sites and replaces the list meanwhile. The
names of its state and specification (`phase`, `failures`, `ScrapeSpec`) differ
from those of `OnboardIngest`, so that one module can speak of both.

### BacnetGateway

A client's request is a record: `send` with the addresses it has left, `audit`
with the row it owes, `merge` for a discovery, asked for by a request or by a job
(`StartDiscoveryJob`, with its own choice of the gateway), `reset` for a reset of
the model, and `save` and `write` for the file after either. The writes of timers
and the periodic thread are `SyncLoop`; `TtlSync` has the steps of a write one by
one, and here a kill leaves any part of the text under way (`Parts`). `Paths` is
the order of addresses of `_post_rpc`; `onward` says that one before did not
answer. `Answer`, `Refuse` (an error under status 200) and
`Unanswered` are the three ends of a call; an unanswered write may be performed,
then or later (`late`, `PerformLate`). `slot` is what a device holds and who wrote
it. `Removed` takes every device whose number begins with the merged one's, as
the prefix of URIs does. `shown` is the gateway whose network the graph should
agree with, or `Gone` after a reset.

### RuleFiles

A text is a rule, `Empty` (a file that was opened and not yet written) or
`Broken`. `Open` truncates, `FinishWrite` writes. The readers are the loop's run,
requests for a sync, and the cache; `ListFiles` and `ReadFile` are
`load_rules_from_dir`. A sync is a transaction with row locks: `Upsert` and
`DeleteRow` wait (`Locked`), `ListDoomed` is the snapshot of the DELETE,
`Deadlocked` is the database ending one of two that wait for each other. The
cache has its hash (`HashFile`, `KeepRules`, `Reload`) before its load. Files are
kept apart from the database in `Deployments`: syncers and the cache share only
the directory, which neither writes, so each instance has one or the other.

## 3. Runs

| Run | Checks | Shows |
|---|---|---|
| `ttl_races` | `FreshUnlessRaced`, `NothingLeftAtExit`, `WriteCoversStart` | Two clients, three timers, the periodic thread, a stop and a kill. At rest the file misses a change only after one of the two named races. |
| `ttl_live` | `FileIsSnapshot`, `KeepsCatchingUp` | One client, a direct writer, two timers, the periodic thread, one fault of each kind: the file refines `SnapshotFile`, and it equals the database again and again while the process and its periodic thread live. |
| `loop_backfill` | `CursorLeavesNoGap`, `NoTriggerLost`, `OnePass`, `CursorNeverBack` | The loop alone under five closed settings that change twice, with two faults. |
| `loop_byhand` | `BackfillCompletes`, `RoutineKeepsRunning` | A one-shot run beside the loop on the same row, a closed and an open-ended range, a moving clock. |
| `feed_browser` | `StateBracketed`, `ActiveHasRows`, `ListCurrentUnlessMissed` | The loop's run beside a job's run and a browser, with one incident (error, kill, delete, reset or change of the data) at any point. |
| `cfg_changes` | `TogetherAtRest`, `OmittedKeysKept`, `BootKeepsAcked` | Two `PUT` threads, a reset, another writer, two faults. |
| `onboard_polls` | `NoGapBelowCheckpoint`, `StoredOnce`, `BackOnlyToEnd`, `CatchesUp` | The scraper over two buildings, a backfill and an end without a start, one change, two faults. |
| `csv_polls` | `NothingMissed`, `StoredOnce`, `FollowsFile` | The scraper and a run by hand over two files of one name, with lines torn or late, an upload, changed settings, deleted points and a fault. |
| `model_requests` | `TypeOK`, `SiteNamesUnique`, `MergesKept`, `ImportIdempotent`, `RoundTrip` | Two clients with any three requests among creates, renames, patches, deletes, templates, imports and resets. |
| `bacnet_polls` | `ScrapeTypeOK`, `OwnReadings`, `GatewaysAdopted`, `PointsKeepComing` | Two objects of a device and a Modbus register under changing lists of gateways, any answers of up to two results, two changes, two faults. |
| `gateway_rpc` | `Traced`, `StaysAtGateway`, `DiscoveryShown` | Two requests of two clients over this host's gateway and a remote one, resets, writes of the file, two faults, one change. |
| `rules_reload` | `RunsOnCurrentFiles`, `CacheFollows`, `SettledRulesDefined`, `DefinitionsCatchUp` | Runs, a sync by request and the cache over two files that change three times, one fault. |

The type invariants of `TtlSync`, `FddLoop`, `FaultRun`, `ConfigStore`,
`OnboardIngest`, `CsvIngest`, `RuleFiles` and `BacnetGateway`, `TimerRefIsLive`
and `CursorStaysInRange` are proved (section 5) and need no run.

**Bounds.** `ttl_races`: three commits and three timers are the fewest with
which a callback can be between fire and flush while a second timer is armed and
a third replaces it. `ttl_live` needs one commit: liveness is about the last
change. `loop_backfill`: ranges of two to four points with steps of two and
three, so that a window is cut at the end, two ranges share a start or an end,
and one is empty; two changes allow A-B-A, two faults a failure in the recovery
from another. `loop_byhand`: an open range of step two on a clock of three
points. `feed_browser`: a state sync needs a non-empty result, so two faults are
the fewest with which something is cleared; the theorems of section 5 remove the
bound on runners, sites, faults and incidents. `cfg_changes`: two keys, one
unset by default, two `PUT`s of either key or of nothing. The constraint
`OneExcuse` stops TLC where two different things have gone wrong: all four
properties but the type invariant speak only of states where nothing has since
the last good write, and a boot, which ends that state, is reached from a state
with one excuse as well. The theorems have no such constraint. `onboard_polls`:
the backfill ends after the first unit and the clock runs to four, so that up to
three windows catch up after it and a run can fail between two of them; two
buildings, so that a failure leaves the second unpolled. Runs by
hand that overlap it are covered by the theorems, which hold for any runners.
`csv_polls`: a torn line, a dated one and a late one need a file of two lines;
the second source stays empty and stands for one that is broken or waits behind
the first. `model_requests`: a site with equipment, a BACnet and a Modbus point,
two devices whose objects propose the same external id; an overlap takes two
requests and its consequence a third; one name is the other's description. The bodies by hand hold what a template
never does: the same key twice, links by name, a stale id by name, a refused row.
`bacnet_polls`: two objects on one device are the fewest whose results can be
mistaken for each other; `MaxResults` is two, so that a request for one object
can come back with more. `gateway_rpc`: device numbers 1 and 12 for the prefix;
a fault for the write and one for its row. `rules_reload`: a file is opened and
written in two changes and deleted in a third; two flags, so that two syncs can
wait for each other. Symmetry is used only where no liveness is checked.

**Deadlock** is checked in every run but `model_requests` and
`gateway_rpc`, where the bound on requests leaves the clients with nothing to do.

**Fairness.** `TtlSync`: every thread is scheduled (WF of its steps), an armed
timer fires, the periodic wait ends, a process that is down starts again
(`restart: unless-stopped` in `src/stack/docker-compose.yml`). Nothing makes a
client call, a fault happen or a stop occur. `KeepsCatchingUp` says `[]<>`, not
`<>[]`: every periodic write truncates the file first. It assumes a periodic
thread that was not ended by a database error. `FddLoop`: the loop's steps, its
nap and its restart are weakly fair; the one-shot process, failures, triggers
and the clock are not. `BackfillCompletes` and `RoutineKeepsRunning` assume that
the settings stay and that requests cease: a triggered run works on settings
that may be old (section 6), and with an open-ended range every cycle may find
new hours and skip the routine run. `OnboardIngest`: the container's next step
is weakly fair; runs by hand, failures, changes and the clock are not.
`CatchesUp` assumes that no end without a start caps the runs for ever, and that
runs by hand cease: one that keeps saving the end of the backfill can undo every
poll. `CsvIngest` and `BacnetScrape`: the container's steps are weakly fair, since
it is scheduled and restarted; failures, changes and files are not.
`PointsKeepComing` assumes that the process has a list to run on, and a point
that shares its object with no other. `RuleFiles`: the loop starts runs for ever
(weak), and a syncer goes on with strong fairness: its statement waits for a row
that other transactions take in turn, and the database grants rows in the order
of waiting. `DefinitionsCatchUp` assumes at least one file, all of them rules.

## 4. What the properties say

- `FreshUnlessRaced`, with its theorem, is a diagnosis: the debounce loses a
  change in two ways and no third.
- `WriteCoversStart`: the graph is shared and the lock is released between the
  rebuild and the serialization, and still a text is no older than the start of
  its write.
- `FileIsSnapshot` is a refinement: no thread carries the state of a previous
  process over a restart.
- `CursorLeavesNoGap` relates the stored row to the history of successful
  windows, over kills, changed settings and a second process.
- `NoTriggerLost` holds because the file is unlinked before the run.
- `StateBracketed`: a difference computed from an old read can be wrong, but
  never beyond what the overlapping runs found.
- `ActiveHasRows`: a kill between transactions leaves rows without state, never
  state without rows.
- `NoGapBelowCheckpoint`: whoever moves a checkpoint forward has stored, or
  never owed, everything below it; jumps to a configured start are accounted for.
- `StoredOnce`: what stands for the missing `ON CONFLICT` is the checkpoint, and
  `BackOnlyToEnd` names the one way in which a lone scraper moves it back.
- `TogetherAtRest`, `OmittedKeysKept`, `BootKeepsAcked` name the only ways for
  overlay, graph and file to part.
- `NothingMissed` relates a cursor to the lines of a file that is written
  concurrently; `excused` is the whole list of what may be missing. `StoredOnce`
  rests on the cursor alone, over failures, settings, uploads and deleted points.
- `SiteNamesUnique`: without a constraint, what keeps names apart is that two
  requests are not between check and insert at once. A name that ends in blanks
  is stored as typed, so that it never equals the stripped name it was checked
  as.
- `MergesKept`: metadata once acknowledged stay, over imports and patches in any
  order, as long as two merges do not overlap.
- `ImportIdempotent` and `RoundTrip` are about the whole import as a function:
  every body by hand and every template of every reachable database. `RoundTrip`
  has no proviso: it says which points an untouched template moves, how, and when
  it is refused, as with the example row of an empty export.
- `OwnReadings`: the match of results to points by identifier or position, with
  the fallback, gives each point that answered a reading of its own object, and
  says which other readings it may get: a number in its place whose identifier is
  spelled otherwise (section 6).
- `Traced`: a write without a row is a write whose row failed or whose point is
  gone, also when the write is performed after its request ended.
- `StaysAtGateway` follows a write over every address it falls back to, performed
  at once or late: the gateway it was addressed to or, after an address that did
  not answer, this host's. That second one is met in section 6.
- `DiscoveryShown` follows a discovered device through merges of others, resets,
  changes of the network, writes of the file and restarts that find it torn.
- `RunsOnCurrentFiles`, `CacheFollows`: what is read file by file is never a mix
  of old and new for a file that did not change.
- `SettledRulesDefined`: a sync never prunes a definition whose rule was there
  when it began; `DefinitionsCatchUp`: whatever syncs, failures and deadlocks
  left in the table is put right by the next runs.

## 5. Proofs

All theorems are checked by TLAPS (Z3, Zenon and LS4) for every value of the
constants, from the named assumptions of the modules.

- **TtlSync** (`Sentinels`, `Roles`, `Bounds`: thread kinds are disjoint,
  sentinels are no versions). Three layers. *Shape*: which thread can be where
  in which phase, with the type invariant and `TimerRefIsLive`. *Ages*: how old
  each copy may be (`start <= buf <= db` and so on), inductive only with Shape
  before and after the step. *Coverage*: without races and errors every missing
  change has a thread that will write it (a referenced timer, a client about to
  schedule, a writer not past the rebuild). They give `TypeCorrect`,
  `TimerRefLive`, `ExitHookIdle`, `WritesCover`, the refinement `Refinement`
  (initial states and steps map to initial states and to steps or stutters of
  `SnapshotFile`) and `OnlyRacesLoseChanges`.
- **FddLoop** (`SettingsShape`: a step is at least one, as `max(1, int(...))`
  makes it; `DefaultIsOff`; `LoopBounds`: the interval is no shorter than the
  poll). `CursorLeavesNoGap` is not inductive: a pass in memory may save a
  cursor. The invariant adds `PassShape` (a running pass lies within its
  settings, before its target) and `PassCovered` (what is before its cursor is
  evaluated under its key). Results: `LoopTypeCorrect`, `NoGap`, `InRange`,
  `TriggerKept`; and, without a one-shot process, `NeverBack` and `OnePassAlone`.
  A one-shot run can move the row back, and the loop then passes again: both
  theorems say so in their assumption. `OnePass` needs `AfterTheEnd`: after a
  completed pass the row is its own, at the end of the range, and the loop works
  with the same settings or, after a failure, with the defaults, which have no
  backfill.
- **FaultRun** (`RunnersApart`, `RunBounds`). The invariant adds
  `ReadIsCurrent` (what a run read is still the state, unless marked stale) and
  `RowsAreThere` (its rows are still stored, unless cleared or the site is
  gone). Results: `RunTypeCorrect`, `Bracketed`, `RowsUnderFaults`.
- **FaultFeed** (in `FaultRunProofs`). `FeedFollowsRuns`: the feed with its
  browser implements `FaultRun`, so the theorems above hold under it.
  `ListCurrentUnlessMissed` speaks of rest; the invariant speaks of every state:
  the list is right, or an event waits, or something was missed (`ListCurrent`),
  and a job that is about to commit a difference has told of it, although the
  events precede the commit (`DifferencesAreTold`). Result: `FeedIsCurrent`.
- **RuleFiles** (in `FddLoopProofs`, over its own state, hence the names
  `RulesSpec`, `phase`, `failures`; `RulesAssumption`: file names are numbers in
  the order of their sorting, a rule's flag is one of the table's, no reader is
  two). The invariant says of every reader what it
  holds: of a file that did not change since it began, its text (`LoadOK`); of a
  sync, the definition of every rule it has passed, none of which it will prune
  (`SyncOK`); of the cache, that a file whose present state the hash stands for is
  in the rules, or will be read, as it is (`CacheOK`, which needs that no hash is
  ahead of the clock, `ClockOK`). Results: `RulesTypeCorrect`, `RunsAreCurrent`,
  `CacheIsCurrent`, `SyncsDefine`.
- **ConfigStore** (`ConfigRoles`, `ConfigValues`, `ConfigBounds`). As long as
  nothing excuses a difference, at most one change and one write are under way,
  and the invariant follows the acknowledged configuration, or the one being
  stored, through overlay, graph, texts and file (`WantShape`, `GraphShape`,
  `FileShape`, `DownShape`, `Agrees`). Results: `ConfigTypeCorrect`, `Together`,
  `OmittedKept`, `RestartKeeps`.
- **OnboardIngest** (in `ScraperProofs`; `OnboardSettings`, `OnboardBounds`: a window is not empty,
  the first is no shorter). `NoGapBelowCheckpoint` needs `CursorCovered` (what is
  before the cursor of a run in memory is accounted for, since the run will save
  it). `StoredOnce` and `BackOnlyToEnd` need `OneRun` and `RunAhead` (while no
  runs overlapped, no checkpoint is past the one run's cursor or its beginning)
  and `StoredBelow` (nothing is stored at the checkpoint or after it). Results:
  `OnboardTypeCorrect`, `GapFree`, `Single`, `OnlyBackToEnd`.
- **BacnetScrape** (in `ScraperProofs`; `ScrapeLists`, `ScrapeRows`,
  `ScrapePatches`: the shapes of lists of gateways, rows and patches). `OwnReadings`
  speaks of the end of a poll. The invariant speaks of its middle: what was loaded
  lists no point twice (`LoadedOnce`), no device is asked twice (`AskedOnce`), and
  the readings so far are exactly the loaded points whose object answered, once
  each unless it answered twice, while nothing of a device still to be asked has
  come (`Unheard`, `ReadingsExact`). That an answer of any length and order keeps
  this is a matter of the operators: the entries
  `Picked` at given positions are those entries, each as often as it has positions
  (by counting, since a position among them is a cardinality), and `SpecFor` finds
  the point of each result (`SpecForItem`, `ReadMultipleRows`). Results:
  `ScrapeTypeCorrect`, `ReadingsAreOwn`.
- **CsvIngest** (`CsvShape`: finitely many sources, and uploads of finitely many
  lines; `CsvBounds`). What a process has read of a file falls behind it while
  others append to the file and date its torn line. `NothingMissed` becomes
  inductive when the same is said of what a process loaded (`LoadedHolds`) and
  of what it read: a value it did not see is excused, or later than every line
  it saw (`ReadHolds`, `LaterThan`), so the cursor it will save, which is the
  latest of those lines, passes none. `StoredOnce` counts: the rows of a point
  and a time are at most the uploads and the lines before the cursors, and the
  one process under way will add only lines after them (`OneAtATime`,
  `RowsAreLines`). Results: `CsvTypeCorrect`, `NothingIsMissed`,
  `StoredOnceAlone`.
- **DataModel** (`NamedOnce`: the sites at the start have different names;
  `SeedsFit`: the schema accepts the databases at the start; `NormalStays`: what
  `normalize_modbus_config` returns it returns again; `PatchesFit`: `PointUpdate`
  normalizes what it is sent; `BodiesAreLists`, `BodiesSendModbus`,
  `ObjectsAreListed`, `NullIsNoId`, `PlaceholderIsNoId`, `NullIsNoValue`: shapes of
  the inputs). Four
  invariants.
  *Names*: one request at most holds a name it has checked (`OneNames`) and no
  site took that name since (`StillFree`), as long as no such requests
  overlapped. *Rows*: what a request carries to its write can be stored
  (`Carries`), so that every write leaves a database the schema accepts
  (`Fits`). *Merges*, as long as none overlapped: one at most is under way
  (`OneMerge`), what it read is what is stored (`StillRead`), and what was
  acknowledged is there (`Stored`). *Points*: every stored point has all its
  fields and a Modbus configuration that is normal, and what requests carry keeps
  it so. *Rows*, *Merges* and *Points* say of an import that it leads from a
  database that fits to one that fits, takes no metadata from any equipment and
  stores normal points. All are shown row by row: the definition of `Import` is a
  recursive function, shown to exist, and a claim about the first `n` rows is
  proved by taking the least `n` without it (`WFMin`, since the library's
  induction theorems cannot be instantiated here), in later proofs by the lemma
  `UpTo` about the set of rows done. `RoundTrip` follows from *Rows* and *Points*
  without an invariant of its own, in every state: the row of a point puts that
  point back (`PointRowStores`, which is where its Modbus configuration has to be
  normal), a proposed row adds a point of its object, moves the one that has its
  external id, or is refused (`ProposedRowUpserts`), and the example row is refused
  (`ScaffoldRefused`). `Held` says what holds after each row of every point: as it
  was, or moved by one of the rows so far. Sent again, a template changes
  nothing when no proposed id was taken (`NamesClear`): then `Kept` holds after each
  row, and every row finds its point as it left it (`SentTwice`). Results: `NamesUnique`, `SchemaKept`, `StoredMetadataStay`,
  `TemplatesReturn`, `TemplatesSentTwice`.
- **BacnetGateway** (`NullIsNoData`, `Addresses`, `Surroundings`; `ThisHost`: Caddy,
  the LAN address, the default route and docker exec lead to the gateway of this
  host; `DeviceNumbers`: a number
  is a sequence of digits). The types of
  requests (`Requests`, by kind) give `GatewayTypeCorrect`. `Traced` is not
  inductive: a write still to be performed counts as well, and the request that
  sent it. The invariant `Accounted` says of both that they are in `Traceable`;
  `StaysSettled` and `ClaimStays` show that no step takes a write out of it.
  `StaysAtGateway` needs that every address a request has left leads to its gateway
  or this host's, and the first to its gateway (`OnItsWay`, from `WaysAreNear` and
  `FirstWayLeadsThere`, which go through the lists of addresses), and the same of
  the writes not yet performed (`OnTheirWay`). `DiscoveryShown` needs `Found`: what
  a discovery is about to merge is what the network it agrees with has. Its
  exceptions are in `shown`: a device merged away by the prefix, Turtle that did
  not parse, a network that changed, an older or torn file after a restart; after
  a reset it says that no device is there. Results:
  `WritesTraced`, `WritesStay`, `DiscoveriesShow`.

Only model-checked, and why:

- The liveness properties (`KeepsCatchingUp`, `BackfillCompletes`,
  `RoutineKeepsRunning`, `CatchesUp`, `FollowsFile`, `GatewaysAdopted`,
  `PointsKeepComing`, `DefinitionsCatchUp`): TLAPS does not prove liveness under
  fairness.
- `ImportIdempotent` of `DataModel`, beyond what `TemplatesSentTwice` says of
  templates with free ids. It is about the bodies of the run and every template,
  and no theorem for all bodies is to be had: a row that names a point by its
  external id, followed by one that renames that same point by its id, makes a
  new point when it is sent again. For templates whose proposed ids are taken it
  would need the last write of each point among all rows.
- `OnePass` beside a one-shot process and for a range without end, where
  `OnePassAlone` says nothing.

## 6. Where the code and its documents part

Met while modelling; each is part of a model as it is, mostly as a guard of a
property:

- `_do_sync` ends with `_sync_timer = None` and forgets a timer armed during its
  write; that timer's callback returns early, and nothing writes the change at
  exit, although the hook is there "so the file is not stale"
  (`data_model_ttl.py:480`; the races of `FreshUnlessRaced`).
- The state is synced only `if all_results:` (`loop.py:715`), so when every fault
  disappears at once they all stay active (`ReadActive` of `FaultRun`).
- `fault.raised` and `fault.cleared` precede the commit, and `fdd.run.finished`,
  which follows it, does not match the subscription `fdd.run`
  (`fault_state_sync.py:56`, `realtime/hub.py:15`; the guard of
  `ListCurrentUnlessMissed`).
- A run of the onboard scraper that catches up after the backfill saves
  `backfill_done = FALSE` with every window but the last. If it fails between two
  windows, the next run is capped at `backfill_end` again and saves that as the
  checkpoint, and the one after it inserts the same hours a second time, against
  "continues from last checkpoint on each run" (`BackOnlyToEnd`, the guard of
  `StoredOnce`).
- A triggered run does not reload and restarts the interval, so triggers closer
  than the interval keep old settings, against "changes apply without restart"
  in `run_rule_loop.py` (`TakeTrigger`; the proviso of `BackfillCompletes`).
- Two overlapping `PUT /config` restore each other's keys, against "Omitted keys
  are unchanged" in `api/config.py` (excuse of `OmittedKeysKept`).
- With a `backfill_end` and no `backfill_start`, `backfill_done` is never set
  and no reading after the end is fetched (the proviso of `CatchesUp`).
- A database error ends the periodic sync thread (`SyncFails`; the proviso of
  `KeepsCatchingUp`).
- With an empty `fdd_backfill_end` the backfill follows the clock and each cycle
  with new hours skips the routine run and its weather fetch (the proviso of
  `RoutineKeepsRunning`).
- A backfill window replaces the active faults by those of its old readings
  (`docs/bacnet/fault_verification.md` calls `/faults/active` a current
  snapshot); `StateBracketed` speaks of the last runs, whatever their window.
- A site deleted while a run holds its results gets `fault_results` rows back
  after the cascade; `ActiveHasRows` speaks of existing sites.
- The events of the fdd-loop container reach no browser (`Silent` in
  `FaultFeed`).
- A writer that serializes between a reset's clearing and its setting of the
  configuration writes a file without one (excuse `bare`), and a `PUT` whose
  write fails leaves its configuration in the graph (excuse `failed`).
- A trigger file that cannot be unlinked makes the loop run at every poll; rows
  on a window boundary are evaluated twice; a `fdd_backfill_end` in the future
  marks hours as done before their readings exist; an error while logging a
  successful run logs it as failed.
- CSV: a line that comes late, below the cursor, or a column that is mapped to a
  point later, is never read (`excused`). An upload of lines that a file also has is
  stored beside them.
- The check for a site's name uses the stripped name, the insert the name as
  typed (`api/sites.py`); a point can be put under equipment of another site and
  goes when that site is deleted; `create_point` answers 409 for any
  violated constraint; `resolve_site_uuid` makes a site of a deleted one's id
  (`Ghost` of `BacnetScrape`).
- A template proposes an external id by object name; when a point of another
  device has it, the import moves that point (`data_model.py:1001`), against
  "round-trip-safe" at line 665 (`Moved` of `RoundTrip`). It is refused when there are several sites and an object without a
  point. The example row that an export of nothing returns has the site
  `"<site-uuid>"`, which the import answers with 400.
- A site's name in an import is matched without regard to case, `%` and `_` in
  it match anything, and a description answers as well as a name; of several the
  first row found is taken (`ByName`).
- An import that names one point by its external id and then renames it by
  its `point_id` makes a second point when a client sends it again
  (`data_model.py:1001` finds no row of that external id any more); the bodies of
  `ImportIdempotent` leave it out.
- `normalize_modbus_config` strips a label and then cuts it at 512 characters, so
  that a longer one may end in a blank, which the next import strips
  (`modbus_point_config.py:124`). `NormalStays` excludes such labels.
- The LAN address is tried after any other: when the gateway of another site
  does not answer, its write goes to this host's and to a device of that number
  there (`bacnet_host_gateway.py:121`; the second case of `StaysAtGateway`). The
  scraper's own fallback reads a remote site's points the same way
  (`drivers/bacnet.py:174`, `drivers/modbus_tcp.py:159`).
- A JSON-RPC error with status 200 counts as a write that succeeded and as a
  device without objects (`Refuse`). A gateway's id is its place in the list, so
  that editing the list redirects requests. `write_point` without `?gateway=`
  uses the default gateway, whatever the point's site. Deleting a point removes
  its audit rows.
- Replacing device 1 in the graph removes device 12 (`graph_model.py:398`), against
  "Removes existing BACnet triples for this device" in the docstring above it
  (`Removed`; the exception of `DiscoveryShown`).
- A result of a read-multiple request whose identifier is not one of those asked
  for, spelled `analog_input,1` or in capitals, is taken for the point at its
  position (`drivers/bacnet.py:285`). A gateway that also answers in another order
  so has its numbers stored under the wrong points, without a word (`SpecFor`,
  `astray` of `OwnReadings`). One beyond the list is dropped, but counts as a
  reading, so that nothing is asked one by one.
- Two gateways that cover one site store its readings twice; points that share an
  object lose theirs to the last of them (the guard `Apart` of `OwnReadings`).
- Deleting the last rule file prunes nothing, because the sync returns without
  rules (`loop.py:454`), although the endpoint answers that the definition will
  be pruned (the proviso of `DefinitionsCatchUp`). A file that is empty or does
  not parse stops every sync without a word.
- A discovery job for a gateway that is unknown, as after a change of the
  settings, asks the first of the list (`jobs.py:86`) and merges that gateway's
  device under the same number; the request answers an error instead.
- `HotReloadRules` keeps the new hash before the load, so that a reload that
  raised leaves the old rules (`failed` of `CacheFollows`), and a file that came
  and went between the two leaves one too many; `ttl_seconds` has no effect; its
  docstring says "Used by FDD loop", but only a test does.

## 7. What is not modelled, and why

- Which faults the rules find: the `open_fdd` engine is an external library;
  `EvalSite` leaves the outcome to the environment.
- Turtle and SPARQL text: a graph is a version or a configuration. Its parsing
  matters only where it fails, and a torn file gives any part of its content.
- `immediate=True` of `sync_ttl_to_file` has no caller. The copy that a failed
  write leaves under `/tmp` is read by nobody.
- The environment variables that fill configuration keys nobody set.
- A one-off of the loop's start and the contents of result rows. In `FaultRun`
  `clear_model_db` is a delete of each site.
- The dictionary of jobs and authentication: each operation is one step under one
  lock, with nothing kept over a restart. What the jobs do is modelled: the rule
  run is a runner of `FaultRun`, the discovery is in `BacnetGateway`.
- The weather fetch inserts every hour of the last days again without
  `ON CONFLICT` and keeps no state between fetches; host statistics only append.
- The address a request to the gateway may carry in its body, with its
  allow-list, and priorities other than 8; the read-only proxies.
- The values of readings, register decoding, unit strings and the guesses of
  brick types from names.
- Read-only queries, HTML, charts, installation scripts.

## 8. Plan

Written first, because most of the system rests on them: TTL sync, the loop and
its cursor, the fault state, the configuration, the first of the ingests; then
the CSV and BACnet ingests, the data model, the gateway with its audit, and the
rule files. What is left:

1. The connections of the hub (subscriptions, a client that closes while an
   event is sent).
2. `FaultRun` as a refinement of a bracketed set, `RuleFiles` composed with the
   runs of `FaultRun`.
