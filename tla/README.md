# TLA+ models of the Couchbase Onboarding Agent

The agent copies a source database (MongoDB, DynamoDB, Cassandra, Redis, Cosmos DB or Couchbase
itself) into a Couchbase bucket, once or continuously, and lets an operator validate, approve, start,
stop and roll back each migration. This directory models the part of it whose correctness depends on
the order of things: what happens when requests, background tasks, restarts and failures overlap.
All paths below are relative to the repository; `core/` stands for `backend/app/core/`.

## 1. Inventory

| Component | State it keeps | Operations | What makes it hard |
|---|---|---|---|
| Lifecycle engine: `core/migration_engine.py`, `api/routes/migrations.py`, `main.py` | the `MigrationRecord` (phase, report, approval, statistics, checkpoint), one asyncio task per run or suspended request | validate, approve, start (background run), stop/cutover, rollback, delete, start-up reconciliation | every request shares one record object with the run; most handlers test the phase once and then await; failures write the phase without reading it |
| Record store: `core/store.py` | dictionary of records, one JSON file for all | save, get, delete, load at start | records are handed out by reference; the file is rewritten in place on each save |
| Change capture: `core/connectors/*.py` | per-container checkpoint inside the record | `extract`, `stream_changes` | when a checkpoint moves relative to the write it stands for; where a stream starts relative to the load; what a source keeps from its readers |
| Blocking-driver bridge: `core/connectors/util.py` | bounded queue, producer thread | `bridge_blocking_batches` | a thread and a coroutine; errors, end markers and heartbeats share a queue; a reader that leaves |
| Destination loader, auto-throttle: `core/couchbase_loader.py`, `core/bottleneck_detector.py` | semaphore, throughput window, cooldowns | write/delete batch, purge, poll, reduce concurrency | findings come only when batches do; windows outlive the reduction they caused |
| Native tools: `core/couchbase_native.py` | remote-cluster references and replications *on the source cluster* | backup, restore, create/remove reference, create/remove replication, progress | state outlives the process; several migrations share hosts; creation becomes visible late; a request can take effect and lose its answer |
| Validation gate: `core/validator.py`, `core/couchbase_client.py` | the report | nine checks | it predicts what the engine will do with names by rules of its own, looks at a bucket that is only made later, and asks for change capture of the source where the run needs it of each container |
| Mode recommendation: `core/recommendation.py` | none | a decision function | boundaries between sizes and modes |
| Progress websocket and detail page: `websocket/progress.py`, `frontend/src/hooks/useMigrationSocket.ts`, `frontend/src/pages/MigrationDetailPage.tsx` | open sockets; the last frame shown | connect, broadcast, reconnect | frames of concurrent broadcasts may cross |
| Agent memory: `memory/couchbase_memory.py`, `scripts/init_memory.py` | memory documents, a fallback latch | remember, recall, bootstrap | degraded modes that must end |
| Chat agent, Capella provisioning: `core/qwen_agent.py`, `core/capella_client.py` | none | one remote call each | nothing a model checker would add; not modelled |
| Wizard: `frontend/src/store/wizardStore.ts`, `frontend/src/pages/NewMigrationPage.tsx` | form state | create, validate, approve | only the order of its requests is modelled |

How they interact: a page sends a request to a route; the route fetches the record from the store and
calls the engine; `start` leaves a background task that extracts through a connector (whose driver may
block in a thread behind the bridge), writes through the loader, and after each step saves the record
and broadcasts it to the websocket. Everything but the driver threads runs on one asyncio loop, so
steps between two awaits are atomic and nothing else is. For a Couchbase source the data path is
replaced by `cbbackupmgr` and by XDCR, which runs inside the source cluster without the agent.

The properties that make each component correct are the hazards in `PROJECT.json`, each with the line
where it bites.

## 2. Plan

In the order of importance, all of it done:

1. `MigrationPhases`, `MigrationLifecycle`, `MigrationEngine`: the engine and its refinement of the
   documented lifecycle.
2. `ChangeCapture`: one container's change log, load, stream, destination and checkpoint, for each
   kind of source. What it promises, that the destination follows the source, is `CatchesUp`.
3. `BatchBridge`: producer thread, queue, reader; nothing lost, order kept, both sides end.
4. `XdcrManager`: several migrations on one source cluster; references, replications, retries, crash.
5. `AutoThrottle`: the bottleneck monitor and the sink's throttling loop on a discrete clock.
6. `MigrationStore` and, composed with it, `ProgressHub`: records, file, broadcasts, sockets, pages.
   The hub is shown to implement the store.
7. `ModeRecommendation` and `ValidationGate`: the advice as operators, the gate as a sequence of
   checks, and what the engine makes of the plan they let pass.

What could still be added: `NothingFallsBetween` for Redis, MongoDB and Cosmos DB over second runs
that begin with a load.

## 3. The modules

**`MigrationPhases`** is the shared vocabulary: phases, strategies and the orphanable phases.

**`MigrationLifecycle`** is the abstract specification: the lifecycle written at the top of
`core/migration_engine.py`, one action per arrow, with fairness that says that whatever was begun
ends.

**`MigrationEngine`** is one migration as the code drives it.

| Variable | In the code |
|---|---|
| `rec` | the `MigrationRecord` object all tasks share: phase, whether `approved_by` is set, the report's verdict, `stats.replication_active`, whether the checkpoint holds the XDCR id, whether the log says that the latest rollback purged |
| `stored`, `disk` | presence in `MigrationStore._records`; the snapshot in the state file (`{}` when absent) |
| `task`, `todo` | the await at which each request or background task is suspended; the containers it has still to load or purge |
| `dest` | containers in which documents tagged with this migration exist |
| `missed` | history: the containers whose last purge query failed |
| `xdcr` | what exists on the source cluster: the remote-cluster reference (`ref`), a replication whose creation was answered (`repl`), one whose answer was lost or named no id (`unheard`) |
| `budget` | a bound: how many requests and restarts are left |

One action is the code between two awaits. `_emit` is `Emit`: it puts the record back into the store,
which is how a deleted record returns. A broadcast inside `_emit` may suspend; the steps after it are
separate actions wherever another task could make a difference (`AfterLoad` after `LoadDone` or
`NativeLoadFails`, `RollbackResume` after `Rollback`, `CutoverVerified` after `Stop`). The HTTP
routes' early returns are the guards of `Ask`, `Approve`, `Start` and `Stop`; `validate` and
`rollback` have none, in the code and in the model. `Faults` lists the awaits at which the outside
world may fail; `RunFails` is the `except` clause of both runs, which sets FAILED without reading the
phase. It may leave behind what the failed request made all the same: a reference, or a replication
whose id nobody knows. `PurgeContainer` may fail for one container, which is only logged. A monitor
whose source is a stream comes back to the phase at the next event inside the plan or after a
silence, both of which are the world's doing, so `MonitorExit` is in `WorldStep`. `Restart` empties `task` and reads the record back from `disk` through `Reconciled`.

Abstracted: statistics, throttling, logs, the agent-memory notes after each request, and which
documents a container holds. Another migration's save rewrites the file with this record's current
fields; `Durable` says that this changes nothing. Saves are atomic here.

A plan is its kind of source, its mode, and whether that source `polls`; `rec.plan` is chosen from `Plans` at the start and never
changes, so that one run covers several modes.

**`MCMigrationEngine`** gives TLC its instances. `ApiRequests` allows every request in every phase.
`PageRequests` is what the wizard and the detail page offer. `PatientRequests` is `PageRequests`
without rollback during MIGRATING and VERIFYING, and with renewed validation before approval.

**`MigrationEngineProofs`** holds its theorems.

**`ChangeCapture`** is one container's way into Couchbase, for a source drawn from `Sources`: its
connector, whether the mode loads first, the first shard of each key, what applications do with it and
what may fail or get lost (`Faults`). A document is named by the change that wrote it, so "newer" and "older" are orders on
numbers. **`MCChangeCapture`** lists the sources of each
instance, **`ChangeCaptureProofs`** holds its theorems.

| Variable | In the code |
|---|---|
| `log`, `home` | the source's history: key, operation, write time, shard; the shard that takes a key's changes now |
| `run`, `toRead`, `runs` | what `run_migration` is doing; the keys the scan of `extract()`, or of a Cassandra poll, has yet to reach; a bound on starts |
| `watched`, `seen`, `rows` | the shards `describe_stream` listed when the stream was opened; the consumer's position in the stream, per DynamoDB shard; what is left of a Cosmos DB page or a Cassandra scan |
| `hand` | the event between `stream_changes()` and the line of `_monitor_cdc` after the write, with the checkpoint it carries |
| `ckpt`, `saved` | `record.checkpoint[container]` in memory and in the state file |
| `dest`, `refused` | the document the destination holds for each key; the keys whose latest write failed there (a history variable) |
| `astray` | history: the keys of which the source kept a change from the stream, or gave an older one after a newer, until the document is written as it is |
| `from`, `base` | history variables: where the stream was first opened, when the latest load began |

`OpenAt` is where each connector begins with and without a checkpoint; `Delivered` is what an event
carries, read again from the source where the connector does so; `Mark` (logs), `FeedItem` and
`PollRow` are the checkpoints. A Cassandra poll is a scan over time: `Poll` begins it, `PollRead` reads a
row as it is by then, and `PollRow` hands on those newer than the scan before. What a source does to
its readers is four actions and guards: `Split` replaces a DynamoDB shard, which a run does not follow
until it is started again; `Skipped` is a record without an image or a lookup that finds nothing;
`Blip` cuts a Redis subscription, which is made anew with what was published in between lost;
`BehindScan` is a row that changes after its page was read. Each puts the keys it costs a change into
`astray`, as does a record that comes from a replaced shard after a newer one (`Overtaken`); nothing
else does. Two losses are left out: DynamoDB drops records after 24 hours, and a start while the
monitor of a stopped run has not left yet gives two streams (the subject of `MigrationEngine` and
`StopThenRestart`). The queue between a connector's thread and its generator keeps the
order and is left out. Two facts about drivers are taken from outside the repository: a MongoDB
change document has its resume token under `_id` and no field `_resume_token`, and the continuation
token of the Cosmos DB change feed stands for the end of the page fetched last.

**`BatchBridge`** is `bridge_blocking_batches` with one of the three `_produce` functions on one side
and the loop of `extract()` on the other. `made` and `producer` are the thread: reading, about to put
its exception, in its `finally` clause, gone. `queue` is the `queue.Queue`, `reader` the loop, `got`
the numbers of the batches the sink was given. `CatchAll` tells `except Exception` (MongoDB,
Cassandra) from `except (BotoCoreError, ClientError)` (DynamoDB). A get that times out yields `IDLE`,
which `extract()` ignores; in the model the reader waits. MongoDB's cursor is opened anew where the
server rejects `no_cursor_timeout`; it does so before the first batch, so nothing has been put and the
state is as it was. **`BatchBridgeProofs`** holds its theorems.

**`XdcrManager`** is `XdcrManager` of `core/couchbase_native.py` together with `_start_xdcr`,
`_teardown_xdcr` and the phase they serve, for several migrations that replicate from one source
cluster. Each HTTP request is one action, since the others' requests come from other threads.

| Variable | In the code |
|---|---|
| `refs`, `links` | remote-cluster references and replications on the source cluster, each named after its migration |
| `hostOf` | the destination host of a reference; a cluster takes one reference for each host |
| `stage` | the request a migration is about to make (`register`, `list`, `liststale`, `delete`, `retry`, `link`, `unlink`, `unref`) or where it rests |
| `stale`, `cleared` | the loop of `_remove_stale_refs_for_host` and its `removed` |
| `tries` | attempts of `createReplication` in `_start_xdcr` |
| `known` | migrations whose checkpoint holds the two ids |
| `faulty`, `crashed` | whether requests may fail or lose their answers; whether the backend was restarted |

A reference just made may be invisible to `Lag` lookups. `Former` are references of an earlier
installation, `Manual` those an administrator made, which lack the prefix. What the cluster does with
a request is outside the repository and marked external; the code's comments and branches say what it
expects. **`XdcrManagerProofs`** holds its theorems.

**`AutoThrottle`** is a full load under the monitor: `_sink`, `BottleneckMonitor`, `write_batch`.

| Variable | In the code |
|---|---|
| `batch`, `left`, `waiting`, `flying`, `written`, `failed` | the batch in `write_batch`: its tasks before, under and after the semaphore |
| `gate`, `concurrency` | the semaphore the batch's tasks wait for; `current_concurrency` |
| `attempts` | `throttle_attempts` |
| `migrated`, `peak`, `recent`, `stallSince`, `slackSince`, `found` | the monitor's fields: totals, peak rate, window of batches, when a slump began, when each kind of finding was last made |
| `clock`, `slow`, `lastEnd`, `newer` | the clock, whether a batch may take more than a tick, and two history variables: when the latest batch ended, how many ended since the latest reduction |

`BatchEnds` is the rest of `_sink` in one step, as there is no await between `record_batch`, `poll`
and `set_concurrency`. Rates are in tenths of documents per tick. **`AutoThrottleProofs`** holds its
theorems.

**`ModeRecommendation`** is `recommend_replication_mode`: `Advised` is the strategy, `Considerations`
the list of remarks, with the code's numbers. Durations are compared without dividing.

**`ValidationGate`** runs the checks of `validator.py` in their order for one *case*: a plan together
with what the two databases are and answer. The report's `passed` is `Passed`. Then the engine makes
the bucket (`Provision`) and the run meets what the gate foresaw or did not (`Run`); `Target` is
`_target_map`, `Expected` is `_check_naming_compat`'s idea of it. `streamed` names the containers whose
changes can be read, which is what the run meets; the source's report, which is what the gate asks,
says whether there are any, as `any_stream_enabled` does for DynamoDB's tables. Somebody may create the bucket
between any two steps (`BucketAppears`). `Sanitize` is `sanitize_couchbase_name` as a function that is
idempotent; the instance gives it the code's results on six names. **`MCValidationGate`** lists five
families of cases, **`ValidationGateProofs`** holds its theorems.

**`MigrationStore`** is `core/store.py` with a record reduced to its version.

| Variable | In the code |
|---|---|
| `object`, `stored` | the record objects handed out by reference; the keys of `_records` |
| `file`, `torn` | what the state file holds; whether the process ever died inside `write_text` |
| `promised` | history: the version of each record at the latest `save()` that returned |
| `restarts` | a bound |

`Unreadable` are migrations whose saved form `model_validate` rejects: they hide those after them.
`Touch` is a change that is not saved yet, which any other record's save writes too.
**`MigrationStoreProofs`** holds its theorems.

**`ProgressHub`** composes the store with `_emit`'s broadcast, the hub's sockets and the pages.

| Variable | In the code |
|---|---|
| `serving` | FALSE between a crash and the end of the start-up reconciliation |
| `subs`, `open`, `inbox` | sockets in `_connections`; sockets that are connected; frames on their way |
| `casts`, `waiting` | the running `broadcast()` calls, each at the socket it awaits; who waits where |
| `answered`, `initial`, `live` | the page's REST request and its answer; the latest frame of each migration |
| `early`, `lost`, `drops` | history: pages registered before their answer, pages that lost a connection; a bound |

A detail page subscribes to one migration, the dashboard to `*`. Simplifications: a socket is
forgotten before its page connects again; the sockets of a topic are gone through in one fixed order;
the transport takes a frame at once and then makes the sender wait, first come first served (that is
the web server's, and external). **`MCProgressHub`** gives pages their topics,
**`ProgressHubProofs`** holds its theorems and the refinement of `MigrationStore`.

Operators named in a comment as *mutants* are deliberate mistakes; nothing uses them. Each is the
body that, put in place of the definition after it, makes one run find one property violated.

## 4. The runs

| Run | Shows |
|---|---|
| `engine_api` | any client of the API, generic and Couchbase source in hybrid mode, three tasks, two of most requests, a deletion, two restarts, every failure: types, the approval gate (`GateOnReport`, `NothingUnapproved`), the state file (`Durable`), and that no stored record is left in an active phase but where an escaping exception abandoned it (`ActivePhaseHasDriver`) |
| `engine_page` | one start in each mode, two containers, an operator who rolls back only settled or replicating migrations, failures of every step before replication and of the purge, answers of `createReplication` that are lost, and two restarts: the lifecycle is implemented, progress included (`LifecycleSpec`); what a purge leaves of a one-time load lies where its query failed (`PurgedStaysClean`); `stats.replication_active` agrees with the phase where the code keeps it so (`ActiveFlagAgrees`); stops end the monitors of sources that are polled (`StopEndsMonitor`); terminal phases stay (`TerminalStays`); replications whose creation was answered stay known (`ReplicationIsKnown`), and none runs in COMPLETE or STOPPED (`NoOrphanReplication`) |
| `capture` | all five sources. DynamoDB: load, stream, refused writes, source errors, crash and second run; shards that are replaced, over a second run; images that are missing. MongoDB and Redis: one stream with lookups, which is cut for Redis. Cosmos DB and Cassandra, whose scans go on while rows change: deletions, refused writes, source errors, a crash and a second run. No change falls between load, page, scan, stream and restart but what the source kept from the stream (`NothingFallsBetween`), a log's checkpoint is never ahead of the attempt to write (`CheckpointIsWritten`), a second load makes up for what a scan's checkpoint skipped, deletions apart (`LoadReconciles`), the destination catches up (`CatchesUp`) and, where documents are read on delivery, never goes back (`NeverBackwards`) |
| `bridge` | MongoDB's and Cassandra's extraction, seven batches through a queue of four, every failure: order (`InOrder`), completeness of a normal end (`NeverTruncated`), errors surface, reader and thread end |
| `xdcr` | two migrations to one host or two, beside a reference of an earlier installation and one of an administrator, requests that fail or lose their answer, a slow cluster, one restart: what is shown as replicating is (`ReplicatingIsReplicated`), a stop or rollback leaves nothing (`StopLeavesNothing`), leftovers do not keep a migration from replicating (`StaleNeverBlocks`) |
| `throttle` | six batches over six ticks, quick or slow, any document refused: no more writes under way than the current concurrency although the semaphore is replaced (`FlightsBounded`), one halving per cooldown, as often as allowed and from the planned number (`DescentIsSlow`), each judged by batches written since the one before unless batches are slower than the cooldown (`RestsOnNewBatches`) |
| `gate` | five families of cases (who is reachable and has change capture; change capture of some containers only; names; vBuckets; sizes and workers): what passed does not fail for what the gate looked at, unless the source has change capture for some containers only (`PassedPlanRuns`), the naming check misses no collision of plans that give all scopes or none (`NamingPredicts`), the advised mode passes the gate and turns at one boundary only (`AdviceHolds`) |
| `services` | one record, a detail page, a dashboard whose connection may fail, two overlapping broadcasts, a crash between any two steps or inside a write: what was saved survives (`SavedSurvives`), no page was pushed what was not saved (`PushedIsSaved`), a page that subscribed in time and keeps its connection ends up with the record as it is (`PageConverges`) |
| `rollback_mid_load`, `mongo_restart`, `stale_ref`, `vbucket_gap` | four behaviours in which the code does not do what a comment, a docstring or a message to the operator says; each is a finding in `PROJECT.json` with the line quoted |

Further configurations are kept beside these. Each instance is one the passing runs leave out by
name, and TLC finds a counterexample for each:

| Configuration | Counterexample |
|---|---|
| `DoubleStart` | two starts both pass the APPROVED test, because the bucket is awaited before the phase changes (`OneRun`) |
| `RollbackMidSetup` | a rollback while XDCR is being set up does not find the replication (`NoOrphanReplication`) |
| `LostAnswer` | `createReplication` takes effect and its answer is lost: the record fails without an id, and a rollback reports the replication removed while it runs (`RollbackRemovesReplication`) |
| `NativeRollbackRace` | the failure of a native load is taken for the rollback that overtook it (`FailedLoadEndsRun`) |
| `LateStreamError` | a change stream that raises after the stop turns STOPPED into FAILED (`TerminalStays`) |
| `StopThenRestart` | a migration started again right after a stop gives the old monitor its phase back, and it never ends (`StopEndsMonitor`) |
| `BusyStream` | a stopped monitor never looks at the phase again while its stream brings only what lies outside the plan, for which Redis and MongoDB yield nothing (`StopEndsEveryMonitor`) |
| `WriteLost` | the checkpoint passes a change whose write the destination refused, although `base.py` calls the event durably written by then (`CheckpointIsDurable`) |
| `ShardOrder` | the run that is started after a shard was replaced reads both at once, and an older record may be written last, although `dynamodb.py` says that it picks up (`RestartFollowsShards`) |
| `MongoLoadGap` | changes made during the load of a hybrid MongoDB migration precede the change stream (`NothingFallsBetween`) |
| `CosmosPage` | a crash inside a page loses its rest, because each item carries the page's token (`NothingFallsBetween`) |
| `CassandraScan` | a crash inside a scan loses rows older than the newest one met so far (`NothingFallsBetween`) |
| `CassandraTie` | a row written in the microsecond of the checkpoint is passed over (`NothingFallsBetween`) |
| `CassandraColumn` | a change of another column leaves the polled WRITETIME alone (`NothingFallsBetween`) |
| `CassandraReload` | a second full load leaves documents whose rows were deleted, although the docstrings of `cosmosdb.py` and `cassandra_connector.py` say that it reconciles deletes (`LoadReconcilesDeletes`) |
| `BridgeTruncated` | an exception DynamoDB's thread does not catch passes for the end of the table (`NeverTruncated`) |
| `BridgeOrphan` | a reader that leaves while the queue is full leaves the thread blocked for good (`OrphanEnds`) |
| `StallUnnoticed` | a batch that hangs is not reported as a stall, as the monitor is polled when a batch ends (`StallNoticed`) |
| `PartStreams` | DynamoDB reports change capture if any table has a stream; an approved plan with an included table without one fails (`CaptureIsThere`) |
| `NamingScope` | where some containers are given a scope and others fall back to the source database, two are sent to one collection and the check passes (`NamingAgrees`) |
| `StoreTorn` | a crash inside `write_text` leaves a file that is read as no records (`SavedSurvivesTearing`) |
| `PageCrossed` | a socket that fails before the page's in the order lets the newer of two broadcasts overtake the older (`PageConverges`) |
| `PageMountRace` | a page whose answer came before its registration is not told what it missed in between (`OpenPageConverges`) |

Bounds. Three tasks are a run and two overlapping handlers, or two runs and a handler: every pair of
steps in the code can interleave and a third party can intervene. Tasks are interchangeable and are a
symmetry set in the run without liveness. One container (`engine_api`) or two (`engine_page`) are
enough, because the engine treats containers alike and the interesting states are none, some and all.
The budget bounds how often the operator acts; each request occurs at least as often as it takes to
meet its own twin, except `start` in `engine_page`, where the second start is the counterexample of
`DoubleStart`. `CHECK_DEADLOCK FALSE` is set in every configuration because a migration that is
complete, with the budget used up, stops.

Two keys, three changes and three shards are enough for `ChangeCapture`: every property relates one document to the
checkpoint, which the other document moves, and two rows make a scan that is under way; the page size of two makes a page of several items. Two
runs give one restart, after which the code does the same again. `from`, `base`, `refused` and `astray`
only record. Two shards hold a key each and the third replaces one of them; the sources without shards use one
position of the three. The bridge runs use the code's queue size and nearly twice as many batches, so that the
thread blocks and goes on.

Two migrations are enough for `XdcrManager`: a request of one meets one of the other, and the former
and the manual reference are what both may find; five attempts are the code's, a lag of two stands
for one shorter than them. `AutoThrottle` scales the code's numbers down: a concurrency of eight is
halved to two by two reductions, the window of three batches is full when the cooldown of three ticks
ends, and six batches in six ticks reach both. `MCValidationGate` varies what one check depends on
and keeps the rest; two containers and six names contain two raw names with one sanitized form, a
name with a stripped underscore and the default scope; sizes lie on both sides of the window for one
and for sixteen workers. `services` has one record, as broadcasts of different records do not meet in
a page; what saves of other records do to a record is `SavesSurvive`'s subject, for any number of
them. Two broadcasts and three versions suffice for one frame to overtake another.

What `engine_page` leaves out: errors of a running change stream (`LateStreamError`), failures of
`cbbackupmgr` (`NativeRollbackRace`), the two escaping exceptions (`Abandoned`), rollbacks of a load, a
set-up or a verification (`RollbackMidLoad`, `RollbackMidSetup`), a second start (`DoubleStart`,
`StopThenRestart`), a validation of an approved migration, deletions, and teardown requests that fail,
after which the code logs that the operator has to clean up. Some properties carry
their exception in their own text: `Abandoned` in `ActivePhaseHasDriver` (a phase in which
`validate()` or the cutover's verification raised); `Restarted` and `repl` in `ReplicationIsKnown` and
`NoOrphanReplication` (the process died between the creation of a replication and the save of its
id, or the creation was never answered: `LostAnswer`); `missed` in `PurgedStaysClean` (a purge query
failed) and, for continuous modes, the one container whose event was being applied; `polls` in
`StopEndsMonitor` (`BusyStream`); `PartlyStreamed` in `PassedPlanRuns` (`PartStreams`); `refused` in the
capture properties (the destination did not take the write: `WriteLost`), `astray` (the source kept the
change from the stream) and `Vanished` (a deletion in a source whose feed or scan shows none:
`CassandraReload`). Without each of them TLC finds the property violated in the same run.

Fairness. `Fairness` is weak fairness of each task's own steps: the asyncio loop runs every ready
task, sources are finite, each awaited service answers or times out (the driver and HTTP timeouts in
the connectors). Of a monitor it is assumed that it comes back to the phase only where it polls:
Cassandra's scan and Cosmos DB's feed end every round with an event or a heartbeat, and the XDCR monitor
looks at the phase between two sleeps. Redis and MongoDB skip what lies outside the plan
and give a heartbeat only after two seconds of silence (DynamoDB skips records alike), so of a monitor
of theirs nothing is assumed. Nothing is assumed of operators, change events, failures or restarts. `ChangeCapture` assumes that a run goes on
reading and writing, not that it is started, stopped or fails; its histories are bounded, so
`CatchesUp` speaks of the quiet after the last change. `BatchBridge` assumes that the driver answers
or raises, and that thread and loop run. `XdcrManager` assumes of each migration that its requests are
answered or time out (the HTTP client's timeout), and nothing of operators. `ProgressHub` assumes that an awaited
send returns or raises, that frames arrive, that the endpoint notices a closed socket, and that a task
which changed a record emits it, as every handler and run does. `AutoThrottle` and `ValidationGate`
have no liveness property.

## 5. The proofs

For every set of tasks and containers, every `Plans`, `Offered`, `Budget` and `Faults`:

- `TypeCorrect`: `Spec => []TypeOK`.
- `FileIsCurrent`: `Spec => []Durable`, from the lemma `StoreStep` (every step emits, leaves
  record, store and file alone, or deletes).
- `GateHolds`, `NothingMovesUnapproved`: both from the inductive `ApprovalInv`, which adds that
  APPROVED implies a recorded approver (a run enters on the phase alone) and that the file agrees
  with the record (a restart reads it back).
- `PhasesAreDriven`: `Spec => []ActivePhaseHasDriver`. The inductive `DriverInv` names the driver of
  each phase, or says that the record is deleted and no task is left to bring it back (`Gone`).
- `ReplicationsAreKnown`: `Spec => []ReplicationIsKnown`, for every client: what `createReplication`
  answered for is known. Of a replication whose answer was lost it says nothing. `KnownInv` adds that
  restarts are counted; the one task that is about to record an id awaits nothing that can fail.

For a patient operator, with any number of tasks, containers, requests and restarts. The hypothesis
`PatientOperator` says who that is: nothing is deleted, validation is asked for before approval,
rollback where the record replicates or has settled, at most one start, and neither a running change
stream nor `cbbackupmgr` fails. The constants of `engine_page` satisfy it. `DoubleStart`,
`StopThenRestart`, `RollbackMidSetup`, `RollbackMidLoad`, `LateStreamError` and `NativeRollbackRace`
(section 4) show what happens without one of its parts.

- `FollowsLifecycle`: the engine starts as `MigrationLifecycle` does and every step is one of its
  arrows or none: `LifecycleSpec` without its fairness.
- `TerminalPhasesStay` (`TerminalStays`), from the arrows; `ActiveFlagFollowsPhase`
  (`ActiveFlagAgrees`).
- `SettledMeansTornDown` (`NoOrphanReplication`), where teardown requests are answered: COMPLETE and
  STOPPED leave no replication at all, since a run whose `createReplication` was not answered fails;
  ROLLED_BACK leaves none that was answered.
- `PurgeLeavesNothing` (`PurgedStaysClean`), purge queries that fail included: what is left lies in
  the containers they failed for.

They rest on the inductive `PatientInv`. A task is busy at every await but a monitor's;
`OneAtATime` says that one task at most is busy, and `TasksInStep` which phase, kind of source and
mode each await presupposes, so a task that resumes finds the phase it left. Neither is inductive
without `StartedOnce` (a start is accepted in a phase that a running set-up has not changed yet) and
`Consistent` (what the phase says of flag, mode and checkpoint). `MoveInStep` is the one argument
about the other tasks; `PatientStep` then looks at each action. `OrphanInv` lists the phases a
replication may exist in; `PurgeInv` says that what is left of a one-time load is what the rollback
has still to purge or failed to.

For every number of batches, every queue size and every combination of failures:

- `BridgeTypeCorrect`, `BatchesInOrder`: from the inductive `OrderInv`. Its part `Contents` says that
  the queue continues the sequence the sink was given, and that markers follow batches.
- `NormalEndIsComplete`: if `_produce` reports every exception, `reader = "returned"` implies that
  all batches were handed over. `CompleteInv` adds that an end marker is last and that a thread that
  stopped early left an exception in the queue before it. `BridgeTruncated` shows that the
  hypothesis is needed.
- `BridgeNeverStuck`: as long as thread or coroutine has not ended, one of them can go on. The
  inductive `MeetInv` says that the end marker stays in the queue until it is taken, that nothing but
  it follows an exception, and that a reader which ended on what the thread put leaves room for it.
  `BridgeRunsOut`: every step takes from `WorkLeft`, which is never negative. Together they are the
  reason why `ReaderEnds` and `ProducerEnds` hold under the fairness of the runs.

For every set of records, with any bound:

- `StoreTypeCorrect`; `SavesSurvive`: `[]SavedSurvives` where every record loads again
  (`Unreadable = {}`). The inductive `KeepInv` says that the file is never behind a promise and never
  ahead of the object, which is why a record changed and not yet saved does no harm to others' saves.
- `HubImplementsStore`: every step of `ProgressHub` is a step of `MigrationStore` or leaves its
  variables alone; `SavesSurviveUnderHub` carries the promise over.
- `PushesAreSaved`: `[]PushedIsSaved`. The inductive `PushInv` bounds every frame (in a broadcast, in
  an inbox, shown) by the version in the file; it needs that versions in the file only grow.
- `HubTypeCorrect`: `[]TypeOK`. A running broadcast waits at the one socket it has come to. The
  inductive `HubTypes` adds that nothing waits twice in a queue, without which a broadcast that leaves
  one could stay in it (`Joined`, `Left`).
- `PagesNeverGoBack`: what a page that keeps its connection was last sent of a migration never falls,
  across restarts too, under the hypothesis `DroppingLast`: a broadcast comes to the connections that
  may fail after the others (for instance, none fails). `ForwardInv` says why: where an older broadcast
  waits or has yet to go, the newer one of the same record comes after it (`InTurn`), and the frames
  under way to a page are in order and newer than what it shows (`Fresh`). The hypothesis is needed:
  in `PageCrossed` a newer broadcast overtakes at a socket that has failed.
- `QuietPagesShowRecords`: `[]QuietPagesAreRight`, what `PageConverges` comes to once things are quiet,
  under the same hypothesis. A page that was registered before its request was answered and has kept
  its connection shows a record as it is, if its latest change was emitted (`object = promised`) and
  nothing of it is under way to the page. `QuietInv` says that a page that has heard of a record
  shows the newest saved version or will be sent it (`Reaches`), that until it has heard its answer is
  new enough (`Asked`), and that the newest broadcast of a record runs as long as an older one has
  business with a page that stays (`NewestRuns`), which a page needs that connects while they run.
  What is left to TLC of `PageConverges` is that things become quiet.

For any number of migrations, hosts and leftovers, any lag and number of attempts:

- `XdcrTypeCorrect`, `ReplicatingMeansReplicated`, `StoppedLeavesNothing`, from `XdcrInv`: a
  replication has its reference (the cluster refuses to delete one in use), a migration past
  `createReplication` has a replication, and one that is torn down without failures has lost what the
  steps before it removed.

For every planned concurrency, batch size, window, threshold and cooldown:

- `ThrottleTypeCorrect`, `FlightsAreBounded`, from `ThrottleInv`: the semaphore in force is the
  current concurrency while a batch is under way, since a reduction happens only between batches; and
  the latest finding dates the reductions.
- `ReductionsAreApart`: `[]DescentIsSlow`, the same invariant and `concurrency = Halved[attempts]`.
  That the recursive function `Halved` exists and satisfies its equation is proved by hand, by
  induction over a set of numbers (`HalvedDef`).
- `ReductionsRestOnNewBatches`: `RestsOnNewBatches`, where the cooldown is no shorter than the window
  (in the code 90 seconds and 10 batches, and a tick is the time of a fast batch). While a further
  reduction is open to `poll()`, no finding comes between two reductions, so `newer` counts the ticks
  since the latest (`Judged`).

For every set of containers, names, cases and every idempotent `Sanitize`:

- `PassedPlansRun` (the report and what the run meets are two parts of a case, and the theorem says how
  far the one predicts the other), `NamingIsPredicted`, `AdviceIsSound`: `GateInv`, `NamingInv` and `CaptureInv` tie
  the results collected so far to the case, and say that a bucket that was there stays the same.
- `GateTypeCorrect`: `[]TypeOK`; every check gives a known id, severity and verdict.

For any number of keys and shards, any history and number of runs:

- `CaptureTypeCorrect`: `[]TypeOK`, for all five connectors.
- `NothingFalls`: `[]NothingFallsBetween`, where every source is `Followed`: every DynamoDB table;
  MongoDB and Redis in one run without a load; Cosmos DB and Cassandra with a load at each start and,
  for Cassandra, every change but a deletion in the polled column at a time of its own. Replaced
  shards, missing images, cut subscriptions, rows that change behind a scan, failed writes, source
  errors, crashes and restarts are included; the property names what the source kept from the stream
  (`astray`). `MongoLoadGap`, `mongo_restart` and the `CosmosPage` and `Cassandra...` configurations show
  what happens without one of the conditions. There is an inductive invariant for each kind of source:
  - `ShardInv` (DynamoDB) orders the positions (`saved <= ckpt`, and `ckpt <= seen` while a run
    streams: `Behind`), says that the one write under way carries the position it was read at and is
    not older than what a position has passed unless the source gave that first (`HandIsNew`), that a
    change in a shard no run reads is astray (`Unwatched`), and that what the checkpoint has passed is settled, what
    the stream has passed settled or being written.
  - `ScanInv` (Cosmos DB, Cassandra) rests on `LoadInv` and says of the scan that the rows it holds
    are current or have changed behind it, that what the scan's time has passed is settled or among them, and that times are
    places in the log.
  - `OnceInv` (MongoDB, Redis) says that of the one run what the stream has passed is settled or in
    the one write under way.
- `NothingGoesAstray`: `[](astray = {})` for every source but Cassandra, where no shard is replaced, no
  image missing and no subscription cut. There `NothingFalls` has no exception but refused writes and
  the deletions a feed does not show.
- `CheckpointsAreWritten`: `[]CheckpointIsWritten`, with no hypothesis; from `ShardInv`, and because the
  other two sources with a log save no position (`NoTokens`).
- `LoadsReconcile`: `[]LoadReconciles`, with no hypothesis. `LoadInv` says that a load holds nothing
  older than its start, so that what has been read is settled or being written.
- `NothingGoesBackwards`: `NeverBackwards`, with no hypothesis. `ForwardInv` orders destination, row,
  write under way and source: what is read late is at least as new as what was read before.

The theorems assume the modules' named assumptions and the hypotheses stated with them. Every safety
property and action property of the passing runs is stated by a theorem. Model-checked only, and out
of the provers' reach: liveness (`StopEndsMonitor`, `CatchesUp`, `FailureSurfaces`, `ReaderEnds`,
`ProducerEnds`, `StaleNeverBlocks`, `PageConverges`) and the fairness in the refinement of `MigrationLifecycle`.

## 6. Not modelled

- Agent memory (`memory/couchbase_memory.py`, `scripts/init_memory.py`): notes beside the migrations.
  Nothing but the chat agent reads them, a failure to write one is logged and passed over, and its
  fallback latch is a flag set once: there is no interleaving to check.
- The chat agent and the Capella calls but the creation of a bucket: one remote call per request, no
  state of their own.
- The wizard's form, the pages' layout, statistics and logs.
- `CbBackupMgrRunner`: that a backup or restore succeeds or fails is modelled, its arguments and the
  parsing of its output are not. `XdcrManager.get_progress` only reads.
- Auto-remediation of source throttling: the project README (line 7) and the detector's docstring speak
  of it, but `note_source_throttled` is called from nowhere, so there is no behaviour to model.
- Couchbase as a source of change events: the engine replicates it by XDCR and never streams it.
