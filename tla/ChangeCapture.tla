----------------------------- MODULE ChangeCapture -----------------------------
(***************************************************************************)
(* How the changes of one source container reach Couchbase: the connectors'*)
(* extract() and stream_changes() (backend/app/core/connectors/), the      *)
(* engine's _monitor_cdc (core/migration_engine.py), and the checkpoint    *)
(* MigrationRecord carries from one run to the next (models/schemas.py).   *)
(*                                                                         *)
(* The source is its history.  A document is named by the change that      *)
(* wrote it: log[i] is change i, and "document i" is what its key holds    *)
(* from then on; 0 is "no document".  The threads and queues between a     *)
(* driver and the generator keep the order and are left out: the stream    *)
(* position seen is the consumer's.  What is known to get lost is in: a    *)
(* DynamoDB shard that is replaced, a stream without images, a Redis       *)
(* subscription that is cut, a row that changes behind a scan.             *)
(***************************************************************************)
EXTENDS Naturals, Sequences, FiniteSets, FiniteSetsExt

CONSTANTS
    Keys,         \* document keys of the container
    Shards,       \* what positions are kept for: DynamoDB's shards, or one log
    Sources,      \* the sources to consider, see Source
    PageSize,     \* items per change feed page (Cosmos DB)
    MaxChanges    \* bound on the length of the history

Logs == {"mongodb", "dynamodb", "redis"}
Scans == {"cosmosdb", "cassandra"}
Connectors == Logs \cup Scans

\* "put" writes a whole document; "patch" updates a part of one (a MongoDB update,
\* a Cassandra column other than the one whose WRITETIME is polled).
Operations == {"put", "patch", "delete"}

\* A refused write, an error of the source, the end of the backend; and what a source
\* does to its readers: DynamoDB replaces a shard, its stream carries no images, Redis
\* cuts the subscription.
Faults == {"write", "source", "crash", "split", "no_image", "blip"}

\* A source and what happens to it: its connector, whether the mode is
\* full_load_and_cdc (or cdc_live), the first shard of each key, the operations
\* applications use, whether a write may carry the write time of the one before
\* it, what may fail, and a bound on how often the migration is started.
Source == [connector : Connectors, hybrid : BOOLEAN, shardOf : [Keys -> Shards],
           ops : SUBSET Operations, ties : BOOLEAN,
           faults : SUBSET Faults, maxRuns : Nat]

ASSUME CaptureAssumption ==
    /\ Sources \subseteq Source
    /\ PageSize \in Nat \ {0} /\ MaxChanges \in Nat /\ Shards # {}

VARIABLES
    source,    \* the member of Sources this is about
    log,       \* the source's history: [key, op, time, shard]
    home,      \* Keys -> the shard that takes the key's changes
    run,       \* "off", "load", "stream", "stopping"
    toRead,    \* keys the scan of extract(), or of a poll, has not reached
    watched,   \* the shards stream_changes() found
    seen,      \* Shards -> how far the stream has been read
    rows,      \* what is left of the current page or scan
    hand,      \* the document or deletion being written: at most one record
    ckpt,      \* record.checkpoint[container]; 0 for an absent entry
    saved,     \* the same in the state file
    dest,      \* Keys -> the document the destination holds
    refused,   \* keys whose latest write the destination did not take
    astray,    \* keys of which the source kept a change from the stream, or gave an
               \* older one after a newer; until the document is written as it is
    from,      \* where the stream was first opened: {} or one place in the history
    base,      \* length of the history when the latest full load began
    runs       \* how often the migration has been started

vars == <<source, log, home, run, toRead, watched, seen, rows, hand, ckpt, saved, dest, refused, astray,
          from, base, runs>>

Connector == source.connector
Hybrid == source.hybrid

-------------------------------------------------------------------------------
(* The source *)

\* The changes of key k among the first n.
Changes(k, n) == {i \in 1..n : i \in DOMAIN log /\ log[i].key = k}
Last(k) == Max({0} \cup Changes(k, Len(log)))

Doc(i) == IF i = 0 \/ (i \in DOMAIN log /\ log[i].op = "delete") THEN 0 ELSE i
Current(k) == Doc(Last(k))

\* The latest change of key k is at or before a position.
Reached(k, position) == Last(k) = 0 \/ Last(k) <= position[log[Last(k)].shard]

\* WRITETIME of the polled column: the time of the last put.
WriteTime(k) ==
    LET puts == {i \in Changes(k, Len(log)) : log[i].op = "put"}
    IN  IF puts = {} THEN 0 ELSE log[Max(puts)].time

Now == IF log = <<>> THEN 0 ELSE log[Len(log)].time

\* A poll's scan is under way and has read key k.
BehindScan(k) == Connector = "cassandra" /\ toRead # {} /\ k \notin toRead

\* An application writes.  Only an existing document is patched or deleted.
Change(k, op) ==
    /\ Len(log) < MaxChanges
    /\ op # "put" => Current(k) # 0
    /\ \E time \in {Now + 1} \cup (IF source.ties /\ log # <<>> THEN {Now} ELSE {}) :
          log' = Append(log, [key |-> k, op |-> op, time |-> time, shard |-> home[k]])
    /\ astray' = IF run = "stream" /\ (BehindScan(k) \/ home[k] \notin watched)
                 THEN astray \cup {k} ELSE astray
    /\ UNCHANGED <<home, run, toRead, watched, seen, rows, hand, ckpt, saved, dest, refused, from, base, runs>>

\* A shard that holds no key, has no records and is not read.
Fresh == Shards \ (watched \cup {home[k] : k \in Keys} \cup {log[i].shard : i \in DOMAIN log})

\* DynamoDB closes a shard; new ones take its keys.
Split ==
    /\ Connector = "dynamodb" /\ "split" \in source.faults
    /\ \E parent \in Shards :
          \E moved \in [{k \in Keys : home[k] = parent} -> Fresh] :
             home' = [k \in Keys |-> IF home[k] = parent THEN moved[k] ELSE home[k]]
    /\ home' # home
    /\ UNCHANGED <<log, run, toRead, watched, seen, rows, hand, ckpt, saved, dest, refused, astray,
                   from, base, runs>>

-------------------------------------------------------------------------------
(* Starting a run, and the full load *)

Beginning == [s \in Shards |-> 0]
EndOfLog == [s \in Shards |-> Len(log)]

\* Mutant of OpenAt: DynamoDB's iterator is LATEST where there is no checkpoint.
OpenAtLatest ==
    IF Connector \in Logs /\ ckpt = Beginning THEN EndOfLog ELSE ckpt

\* Where stream_changes() begins.  A change stream without resume token and a
\* pub/sub subscription begin with the next change; DynamoDB (TRIM_HORIZON), the
\* change feed and the poll begin at the beginning.
OpenAt ==
    IF Connector = "redis" \/ (Connector = "mongodb" /\ ckpt = Beginning)
    THEN EndOfLog
    ELSE ckpt

\* describe_stream lists the shards there are, closed ones too.
OpenStream ==
    /\ run' = "stream"
    /\ seen' = OpenAt
    /\ watched' = {home[k] : k \in Keys} \cup {log[i].shard : i \in DOMAIN log}
    /\ rows' = {} /\ toRead' = {}
    /\ from' = IF from # {} THEN from
               ELSE {IF Hybrid THEN 0 ELSE Min({OpenAt[s] : s \in Shards})}

\* One run at a time: a start before the monitor of a stopped run has left is the
\* subject of MigrationEngine and StopThenRestart.cfg.
Start ==
    /\ run = "off" /\ runs < source.maxRuns
    /\ runs' = runs + 1
    /\ \/ /\ Hybrid
          /\ run' = "load" /\ toRead' = Keys /\ base' = Len(log)
          /\ UNCHANGED <<watched, seen, rows, from>>
       \/ /\ ~Hybrid
          /\ OpenStream
          /\ UNCHANGED base
    /\ saved' = ckpt
    /\ UNCHANGED <<log, home, hand, ckpt, dest, refused, astray>>

\* What is written for key k, and the checkpoint that comes with it ({} for none).
Yield(k, doc, mark) ==
    hand' = hand \cup {[key |-> k, doc |-> doc, mark |-> mark, landed |-> FALSE]}

\* extract() reads a document and hands it to the sink; a missing one is not there
\* to be read.
Extract(k) ==
    /\ run = "load" /\ hand = {} /\ k \in toRead
    /\ toRead' = toRead \ {k}
    /\ IF Current(k) = 0 THEN UNCHANGED hand ELSE Yield(k, Current(k), {})
    /\ UNCHANGED <<log, home, run, watched, seen, rows, ckpt, saved, dest, refused, astray, from, base, runs>>

\* Mutant of LoadDone: the scan ends with its first page.
LoadDoneEarly ==
    /\ run = "load" /\ hand = {}
    /\ OpenStream
    /\ saved' = ckpt
    /\ UNCHANGED <<log, home, hand, ckpt, dest, refused, astray, base, runs>>

LoadDone ==
    /\ run = "load" /\ hand = {} /\ toRead = {}
    /\ OpenStream
    /\ saved' = ckpt
    /\ UNCHANGED <<log, home, hand, ckpt, dest, refused, astray, base, runs>>

-------------------------------------------------------------------------------
(* stream_changes *)

\* Mutant of Idle: the next event does not wait for the write of the last.
IdleAlways == run = "stream"

Idle == run = "stream" /\ hand = {}

\* MongoDB, DynamoDB and Redis deliver the changes of a shard in order.
Unread(s) == {i \in DOMAIN log : log[i].shard = s /\ i > seen[s]}

\* The document an event for change i may carry.  updateLookup and _read_key read
\* the source again, some time after the change.
Delivered(i) ==
    CASE log[i].op = "delete" -> {0}
      [] Connector = "redis" -> {Current(log[i].key)}
      [] Connector = "mongodb" /\ log[i].op = "patch" ->
             {Doc(j) : j \in Changes(log[i].key, Len(log)) \cap i..Len(log)}
      [] OTHER -> {Doc(i)}

\* Mutant of Mark: the other shards' sequence numbers are dropped.
MarkOneShard(s, position) ==
    IF Connector = "dynamodb" THEN {[q \in {s} |-> position[q]]} ELSE {}

\* DynamoDB accumulates the sequence numbers of all shards.  MongoDB asks the
\* change for "_resume_token", which change documents do not have; Redis has none.
Mark(s, position) == IF Connector = "dynamodb" THEN {position} ELSE {}

\* Change i makes no event: a lookup finds the document deleted again, or the record
\* has no NewImage.
Skipped(i, doc) ==
    \/ Connector = "mongodb" /\ log[i].op = "patch" /\ doc = 0
    \/ Connector = "dynamodb" /\ log[i].op # "delete" /\ "no_image" \in source.faults

\* A later change of the same document, from another shard, has come before change i.
Overtaken(i) == \E j \in Changes(log[i].key, Len(log)) : j > i /\ j <= seen[log[j].shard]

Deliver(s) ==
    /\ Idle /\ Connector \in Logs /\ s \in watched /\ Unread(s) # {}
    /\ LET i == Min(Unread(s))
           k == log[i].key
       IN  /\ seen' = [seen EXCEPT ![s] = i]
           /\ \E doc \in Delivered(i) :
                 /\ IF Skipped(i, doc) THEN UNCHANGED hand ELSE Yield(k, doc, Mark(s, seen'))
                 /\ astray' = IF Overtaken(i) \/ (Skipped(i, doc) /\ Connector = "dynamodb")
                              THEN astray \cup {k} ELSE astray
    /\ UNCHANGED <<log, home, run, toRead, watched, rows, ckpt, saved, dest, refused, from, base, runs>>

\* The subscription is cut and made anew: what was published before is lost.
Blip ==
    /\ Idle /\ Connector = "redis" /\ "blip" \in source.faults
    /\ \E s \in Shards : Unread(s) # {}
    /\ seen' = EndOfLog
    /\ astray' = astray \cup {k \in Keys : ~Reached(k, seen)}
    /\ UNCHANGED <<log, home, run, toRead, watched, rows, hand, ckpt, saved, dest, refused, from, base, runs>>

Shard == CHOOSE s \in Shards : TRUE

\* Cosmos DB: the next page of the feed, one entry per document that was last
\* written after the position; the continuation token is the page's end.
FeedPage ==
    LET ahead == {i \in DOMAIN log : i > seen[Shard] /\ i = Current(log[i].key)}
        page == {i \in ahead : Cardinality({j \in ahead : j <= i}) <= PageSize}
    IN  /\ Idle /\ Connector = "cosmosdb" /\ rows = {} /\ page # {}
        /\ rows' = {[key |-> log[i].key, doc |-> i, time |-> i] : i \in page}
        /\ seen' = [seen EXCEPT ![Shard] = Max(page)]
        /\ UNCHANGED <<log, home, run, toRead, watched, hand, ckpt, saved, dest, refused, astray, from, base, runs>>

FeedItem(r) ==
    /\ Idle /\ Connector = "cosmosdb" /\ r \in rows
    /\ \A q \in rows : r.time <= q.time
    /\ rows' = rows \ {r}
    /\ Yield(r.key, r.doc, {seen})
    /\ UNCHANGED <<log, home, run, toRead, watched, seen, ckpt, saved, dest, refused, astray, from, base, runs>>

\* Cassandra: a scan reads the table page by page, in no order of time; rows not
\* written since the last scan are passed over.
Newer(k) == Current(k) # 0 /\ WriteTime(k) > seen[Shard]

Poll ==
    /\ Idle /\ Connector = "cassandra" /\ rows = {} /\ toRead = {}
    /\ toRead' = Keys
    /\ UNCHANGED <<log, home, run, watched, seen, rows, hand, ckpt, saved, dest, refused, astray, from, base, runs>>

PollRead(k) ==
    /\ run = "stream" /\ Connector = "cassandra" /\ k \in toRead
    /\ toRead' = toRead \ {k}
    /\ rows' = IF Newer(k) THEN rows \cup {[key |-> k, doc |-> Current(k), time |-> WriteTime(k)]} ELSE rows
    /\ UNCHANGED <<log, home, run, watched, seen, hand, ckpt, saved, dest, refused, astray, from, base, runs>>

PollRow(r) ==
    /\ Idle /\ Connector = "cassandra" /\ toRead = {} /\ r \in rows
    /\ rows' = rows \ {r}
    /\ seen' = [seen EXCEPT ![Shard] = Max({@, r.time})]
    /\ Yield(r.key, r.doc, {seen'})
    /\ UNCHANGED <<log, home, run, toRead, watched, ckpt, saved, dest, refused, astray, from, base, runs>>

-------------------------------------------------------------------------------
(* The write and the checkpoint *)

\* A key whose document is written as it is now is astray no more; a deletion tells
\* only if the stream has come to the latest change.
Found(e) ==
    astray' = IF e.doc = Current(e.key) /\ (e.doc # 0 \/ Reached(e.key, seen))
              THEN astray \ {e.key} ELSE astray

\* Mutant of Land: a deletion is taken for a document that was never there.
LandUpserts(e) ==
    /\ e \in hand /\ ~e.landed
    /\ hand' = (hand \ {e}) \cup {[e EXCEPT !.landed = TRUE]}
    /\ dest' = IF e.doc = 0 THEN dest ELSE [dest EXCEPT ![e.key] = e.doc]
    /\ refused' = refused \ {e.key}
    /\ Found(e)
    /\ UNCHANGED <<log, home, run, toRead, watched, seen, rows, ckpt, saved, from, base, runs>>

\* write_batch and delete_batch count a failure and do not raise.
Land(e) ==
    /\ e \in hand /\ ~e.landed
    /\ hand' = (hand \ {e}) \cup {[e EXCEPT !.landed = TRUE]}
    /\ \/ dest' = [dest EXCEPT ![e.key] = e.doc] /\ refused' = refused \ {e.key}
       \/ "write" \in source.faults /\ UNCHANGED dest /\ refused' = refused \cup {e.key}
    /\ Found(e)
    /\ UNCHANGED <<log, home, run, toRead, watched, seen, rows, ckpt, saved, from, base, runs>>

\* Mutant of Advance: the checkpoint moves while the write is still under way.
AdvanceEarly(e) ==
    /\ e \in hand
    /\ e.landed \/ (e.mark # {} /\ ckpt \notin e.mark)
    /\ hand' = IF e.landed THEN hand \ {e} ELSE hand
    /\ ckpt' \in IF e.mark = {} THEN {ckpt} ELSE e.mark
    /\ saved' \in {saved, ckpt'}
    /\ UNCHANGED <<log, home, run, toRead, watched, seen, rows, dest, refused, astray, from, base, runs>>

\* The monitor goes on: the checkpoint, whatever became of the write, and an
\* _emit if it is time for one.
Advance(e) ==
    /\ e \in hand /\ e.landed
    /\ hand' = hand \ {e}
    /\ ckpt' \in IF e.mark = {} THEN {ckpt} ELSE e.mark
    /\ saved' \in {saved, ckpt'}
    /\ UNCHANGED <<log, home, run, toRead, watched, seen, rows, dest, refused, astray, from, base, runs>>

-------------------------------------------------------------------------------
(* The end of a run *)

\* stop_replication flips the phase; the monitor sees it at the next event.
Stop ==
    /\ run = "stream"
    /\ run' = "stopping"
    /\ saved' = ckpt
    /\ UNCHANGED <<log, home, toRead, watched, seen, rows, hand, ckpt, dest, refused, astray, from, base, runs>>

Leave ==
    /\ run = "stopping" /\ hand = {}
    /\ run' = "off" /\ rows' = {} /\ toRead' = {}
    /\ UNCHANGED <<log, home, watched, seen, hand, ckpt, saved, dest, refused, astray, from, base, runs>>

\* The connector raises: FAILED, and the record is saved.
SourceFails ==
    /\ "source" \in source.faults
    /\ run \in {"load", "stream"} /\ hand = {}
    /\ run' = "off" /\ rows' = {} /\ toRead' = {}
    /\ saved' = ckpt
    /\ UNCHANGED <<log, home, watched, seen, hand, ckpt, dest, refused, astray, from, base, runs>>

\* The backend dies and is started again: what is left is the state file.
Crash ==
    /\ "crash" \in source.faults
    /\ run # "off"
    /\ run' = "off" /\ rows' = {} /\ toRead' = {} /\ hand' = {}
    /\ ckpt' = saved
    /\ UNCHANGED <<log, home, watched, seen, saved, dest, refused, astray, from, base, runs>>

-------------------------------------------------------------------------------
(* The specification *)

Init ==
    /\ source \in Sources
    /\ log = <<>>
    /\ home = source.shardOf
    /\ run = "off"
    /\ toRead = {} /\ watched = {}
    /\ seen = Beginning
    /\ rows = {}
    /\ hand = {}
    /\ ckpt = Beginning
    /\ saved = Beginning
    /\ dest = [k \in Keys |-> 0]
    /\ refused = {} /\ astray = {}
    /\ from = {}
    /\ base = 0
    /\ runs = 0

\* What a run does of its own accord.
RunStep ==
    /\ UNCHANGED source
    /\ \/ \E k \in Keys : Extract(k) \/ PollRead(k)
       \/ LoadDone
       \/ \E e \in hand : Land(e) \/ Advance(e)
       \/ FeedPage \/ Poll \/ Leave
       \/ \E r \in rows : FeedItem(r) \/ PollRow(r)

ShardStep(s) == Deliver(s) /\ UNCHANGED source

\* What applications, operators and failures do.
WorldStep ==
    /\ UNCHANGED source
    /\ \/ \E k \in Keys, op \in source.ops : Change(k, op)
       \/ Split \/ Blip
       \/ Start \/ Stop \/ SourceFails \/ Crash

Next == RunStep \/ WorldStep \/ \E s \in Shards : ShardStep(s)

Spec == Init /\ [][Next]_vars

\* The loop and the shard threads keep running, and drivers answer or raise.
FairSpec == Spec /\ WF_vars(RunStep) /\ \A s \in Shards : WF_vars(ShardStep(s))

-------------------------------------------------------------------------------
(* Properties *)

Position == [Shards -> Nat]

\* Every variable holds values of its kind.
TypeOK ==
    /\ source \in Sources
    /\ log \in Seq([key : Keys, op : Operations, time : Nat, shard : Shards])
    /\ home \in [Keys -> Shards]
    /\ run \in {"off", "load", "stream", "stopping"}
    /\ toRead \in SUBSET Keys /\ watched \in SUBSET Shards
    /\ seen \in Position /\ ckpt \in Position /\ saved \in Position
    /\ rows \in SUBSET [key : Keys, doc : Nat, time : Nat]
    /\ hand \in SUBSET [key : Keys, doc : Nat, mark : SUBSET Position, landed : BOOLEAN]
    /\ dest \in [Keys -> Nat]
    /\ refused \in SUBSET Keys /\ astray \in SUBSET Keys
    /\ from \in SUBSET Nat
    /\ base \in Nat /\ runs \in Nat

InSync(k) == dest[k] = Current(k)

\* Neither a change feed nor a scan shows a deletion.
Vanished(k) == Connector \in Scans /\ Current(k) = 0

\* Continuous sync answers for key k: all keys once a full load has run, otherwise
\* those that changed after replication began.
Promised(k) == \E i \in from : Last(k) > i

\* The latest change of key k is still on its way to the destination.
Coming(k) ==
    \/ \E e \in hand : e.key = k /\ e.doc = Current(k) /\ ~e.landed
    \/ \E r \in rows : r.key = k /\ r.doc = Current(k)
    \/ IF Connector = "cassandra" THEN Newer(k)
       ELSE ~Reached(k, seen) /\ log[Last(k)].shard \in watched

\* README: "change-data-capture takes over the ongoing delta".  While a migration
\* replicates, a document that differs from its source has a change on the way, or
\* the destination refused it, or the source kept the change from the stream: nothing
\* falls between the load, the start of the stream, a page or a scan, a stop and a
\* restart.
NothingFallsBetween ==
    run = "stream" =>
        \A k \in Keys :
            Promised(k) => InSync(k) \/ Coming(k) \/ k \in refused \cup astray \/ Vanished(k)

\* connectors/base.py: a resume token is persisted once its event has been written.
\* Where the source delivers a log, a change at or before the saved checkpoint has
\* reached the destination, or was tried and refused: no checkpoint is ahead of a
\* write, and none takes in another shard's records.
CheckpointIsWritten ==
    Connector \in Logs =>
        \A k \in Keys :
            Promised(k) /\ Reached(k, saved) => InSync(k) \/ k \in refused \cup astray

\* connectors/base.py: "once this event has been durably written to Couchbase".
\* WriteLost.cfg shows that the checkpoint also passes a write that was refused.
CheckpointIsDurable ==
    Connector \in Logs =>
        \A k \in Keys : Promised(k) /\ Reached(k, saved) => InSync(k) \/ k \in astray

\* dynamodb.py: a closed shard "will stop producing new events until the migration is
\* restarted, at which point describe_stream() is called again and picks up the current
\* shard set".  ShardOrder.cfg shows that the run that picks up a shard and the one it
\* replaced reads both at once, and an old record may be written last.
RestartFollowsShards ==
    run = "stream" =>
        \A k \in Keys :
            Promised(k) /\ log[Last(k)].shard \in watched => InSync(k) \/ Coming(k) \/ k \in refused

\* The sync catches up: a document that differs is brought up to date unless the
\* run ends, the destination refuses it, or the source kept the change from the stream.
CatchesUp ==
    \A k \in Keys :
        run = "stream" /\ Promised(k) ~>
            \/ InSync(k) \/ run # "stream" \/ k \in refused \/ Vanished(k)
            \/ k \in astray /\ ~Coming(k)

\* Redis, Cosmos DB and Cassandra read the document when they deliver it, one write
\* after the other: over loads, stops, restarts and failed writes, the destination
\* never goes back to an older document of a key.
NeverBackwards ==
    [][\A k \in Keys : \/ Connector \notin Scans \cup {"redis"}
                       \/ dest'[k] = 0 \/ dest'[k] >= dest[k]]_vars

\* After a full load, a document that is there and has not changed since the load began
\* is as the source has it, whatever earlier runs missed, a crash lost or a checkpoint
\* passed over.
LoadReconciles ==
    run = "stream" /\ Hybrid /\ Connector \in Scans =>
        \A k \in Keys : Last(k) <= base => InSync(k) \/ k \in refused \/ Vanished(k)

\* cosmosdb.py: "Re-run a full load to reconcile deletes."; cassandra_connector.py and
\* README say the same.  CassandraReload.cfg shows that a load does not: it writes what
\* it finds and removes nothing.
LoadReconcilesDeletes ==
    run = "stream" /\ Hybrid /\ Connector \in Scans =>
        \A k \in Keys : Last(k) <= base => InSync(k) \/ k \in refused
================================================================================
