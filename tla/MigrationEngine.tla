---------------------------- MODULE MigrationEngine ----------------------------
(***************************************************************************)
(* One migration as the backend drives it: MigrationEngine                 *)
(* (backend/app/core/migration_engine.py), the HTTP routes that call it    *)
(* (api/routes/migrations.py), the record store (core/store.py) and the    *)
(* start-up reconciliation (main.py).                                      *)
(*                                                                         *)
(* Every request and background task runs on one asyncio loop, so an       *)
(* action is what the code does from one suspension point to the next, and *)
(* task[t] names the await at which task t is suspended.  The store hands  *)
(* out references: all tasks share the one record rec, including tasks     *)
(* that began before the record was deleted from the store.                *)
(*                                                                         *)
(* Data is reduced to what the lifecycle depends on: the containers in     *)
(* which documents tagged with this migration exist, and the XDCR objects  *)
(* this migration left on the source cluster.                              *)
(***************************************************************************)
EXTENDS MigrationPhases, Naturals, FiniteSets

CONSTANTS
    Tasks,        \* request handlers and background tasks alive at once (a bound)
    Containers,   \* the containers the plan includes
    Plans,        \* the plans a migration may have, as far as they matter here
    Offered,      \* <<request, phase>>: the requests the client makes, and when
    Budget,       \* how often each request, and a restart, may happen (a bound)
    Faults        \* the awaits at which the code outside may fail

Requests == {"validate", "approve", "start", "stop", "rollback", "delete"}

\* The awaits a task can be suspended at, in the order of the code.
RunStages == {"collections", "load", "loaded", "failing", "ref", "link", "linked",
              "monitor", "apply", "verify"}
Stages == {"idle", "validate", "scheduled", "provision", "cutverify", "undo", "purging"}
              \cup RunStages

\* Where the world can fail: the await of a run or handler that raises, the
\* cbbackupmgr process ("backup"), and two errors that are logged and survived.
FaultPoints == {"validate", "provision", "collections", "load", "backup", "ref", "link",
                "monitor", "apply", "verify", "cutverify", "teardown", "query", "purging"}

ASSUME EngineAssumption ==
    /\ Plans \subseteq [native : BOOLEAN, strategy : Strategies, polls : BOOLEAN]
    /\ Offered \subseteq Requests \X Phases
    /\ Budget \in [Requests \cup {"restart"} -> Nat]
    /\ Faults \subseteq FaultPoints

VARIABLES
    rec,      \* the MigrationRecord object
    stored,   \* is it in MigrationStore._records?
    disk,     \* what the state file holds of it: {} or one snapshot
    task,     \* Tasks -> Stages
    todo,     \* Tasks -> containers the task has still to load or to purge
    dest,     \* containers holding documents tagged with this migration
    missed,   \* history: containers whose last purge query failed
    xdcr,     \* what exists on the source cluster for it, see Linked
    budget    \* Budget, less what has been used

vars == <<rec, stored, disk, task, todo, dest, missed, xdcr, budget>>

-------------------------------------------------------------------------------
(* The record and the store *)

\* MigrationRecord: plan.native is "the source itself is Couchbase", plan.polls is
\* "the change stream comes round again whatever it reads" (XDCR's progress,
\* Cassandra, Cosmos DB; MongoDB, DynamoDB and Redis skip what the plan leaves out
\* without handing it on), approved is "approved_by is set", passed is validation_report.passed, active is
\* stats.replication_active, replId is "checkpoint holds _xdcr_replication_id",
\* purged is the log's "Purged ..." line for the latest rollback.
Record == [plan : Plans, phase : Phases, approved : BOOLEAN, passed : BOOLEAN,
           active : BOOLEAN, replId : BOOLEAN, purged : BOOLEAN]

NewRecord(plan) == [plan |-> plan, phase |-> "draft", approved |-> FALSE, passed |-> FALSE,
                    active |-> FALSE, replId |-> FALSE, purged |-> FALSE]

Native == rec.plan.native
Strategy == rec.plan.strategy

Continuous == Strategy \in ContinuousStrategies
Loads == Strategy \in LoadingStrategies

\* MigrationEngine._emit after the record was set to r: MigrationStore.save puts
\* the object back into the store and writes the state file.
Emit(r) == rec' = r /\ stored' = TRUE /\ disk' = {r}
NoEmit == UNCHANGED <<rec, stored, disk>>
EmitOrNot == Emit(rec) \/ NoEmit

InPhase(r, p) == [r EXCEPT !.phase = p]

Goto(t, stage) == task' = [task EXCEPT ![t] = stage]
Remaining(t, cs) == todo' = [todo EXCEPT ![t] = cs]

At(t, stage) == task[t] = stage
Live(S) == {t \in Tasks : task[t] \in S}

\* A route handler: the record is in the store, the request is one this client
\* makes in this phase, and an idle slot t takes it.
Ask(t, request) ==
    /\ stored
    /\ At(t, "idle")
    /\ <<request, rec.phase>> \in Offered
    /\ budget[request] > 0
    /\ budget' = [budget EXCEPT ![request] = @ - 1]

-------------------------------------------------------------------------------
(* Validation and approval *)

Validate(t) ==
    /\ Ask(t, "validate")
    /\ Emit(InPhase(rec, "validating"))
    /\ Goto(t, "validate")
    /\ UNCHANGED <<todo, dest, missed, xdcr>>

\* Mutant of Judged: a phase that no enumeration knows.
JudgedMisspelt(r, ok) ==
    [r EXCEPT !.passed = ok,
              !.phase = IF ok THEN "awaiting_approval" ELSE "validation-failed"]

\* The verdict of a finished report.
Judged(r, ok) ==
    [r EXCEPT !.passed = ok,
              !.phase = IF ok THEN "awaiting_approval" ELSE "validation_failed"]

ValidateFinish(t) ==
    /\ At(t, "validate")
    /\ \E ok \in BOOLEAN : Emit(Judged(rec, ok))
    /\ Goto(t, "idle")
    /\ UNCHANGED <<todo, dest, missed, xdcr, budget>>

\* MigrationValidator.run raises and nothing in validate() or its route catches it.
ValidateRaises(t) ==
    /\ At(t, "validate") /\ "validate" \in Faults
    /\ NoEmit
    /\ Goto(t, "idle")
    /\ UNCHANGED <<todo, dest, missed, xdcr, budget>>

\* Mutants of Approve: no look at the phase; no trace of who approved.
ApproveAnything(t) ==
    /\ Ask(t, "approve")
    /\ Emit([rec EXCEPT !.phase = "approved", !.approved = TRUE])
    /\ UNCHANGED <<task, todo, dest, missed, xdcr>>

ApproveAnonymously(t) ==
    /\ Ask(t, "approve")
    /\ rec.phase = "awaiting_approval"
    /\ Emit(InPhase(rec, "approved"))
    /\ UNCHANGED <<task, todo, dest, missed, xdcr>>

Approve(t) ==
    /\ Ask(t, "approve")
    /\ rec.phase = "awaiting_approval"
    /\ Emit([rec EXCEPT !.phase = "approved", !.approved = TRUE])
    /\ UNCHANGED <<task, todo, dest, missed, xdcr>>

-------------------------------------------------------------------------------
(* run_migration: entry *)

\* The route checks the phase and leaves the work to a background task.
Start(t) ==
    /\ Ask(t, "start")
    /\ rec.phase = "approved"
    /\ Goto(t, "scheduled")
    /\ NoEmit
    /\ UNCHANGED <<todo, dest, missed, xdcr>>

\* run_migration checks again, then awaits the bucket without changing the phase.
RunEnter(t) ==
    /\ At(t, "scheduled")
    /\ Goto(t, IF rec.phase = "approved" THEN "provision" ELSE "idle")
    /\ NoEmit
    /\ UNCHANGED <<todo, dest, missed, xdcr, budget>>

BeginLoad(t) ==
    /\ Emit(InPhase(rec, "migrating"))
    /\ Goto(t, "load")
    /\ Remaining(t, Containers)

BeginReplication(t, r) ==
    /\ Emit([r EXCEPT !.phase = "replicating", !.active = TRUE])
    /\ Goto(t, "monitor")

\* _ensure_destination_bucket never raises; the native path then goes straight
\* to cbbackupmgr or XDCR, the generic one to ensure_collections.
BucketReady(t) ==
    /\ At(t, "provision")
    /\ \/ /\ Native /\ Loads
          /\ BeginLoad(t)
       \/ /\ ~(Native /\ Loads)
          /\ Goto(t, IF Native THEN "ref" ELSE "collections")
          /\ NoEmit
          /\ UNCHANGED todo
    /\ UNCHANGED <<dest, missed, xdcr, budget>>

\* get_connector raises outside the try block: the task dies, the phase stays.
SetupRaises(t) ==
    /\ At(t, "provision") /\ ~Native /\ "provision" \in Faults
    /\ Goto(t, "idle")
    /\ NoEmit
    /\ UNCHANGED <<todo, dest, missed, xdcr, budget>>

CollectionsReady(t) ==
    /\ At(t, "collections")
    /\ \/ Loads /\ BeginLoad(t)
       \/ ~Loads /\ BeginReplication(t, rec) /\ UNCHANGED todo
    /\ UNCHANGED <<dest, missed, xdcr, budget>>

-------------------------------------------------------------------------------
(* run_migration: full load *)

\* One batch through _sink (or one stretch of cbbackupmgr); no look at the phase.
LoadBatch(t, c) ==
    /\ At(t, "load") /\ c \in todo[t]
    /\ dest' = dest \cup {c}
    /\ EmitOrNot
    /\ UNCHANGED <<task, todo, missed, xdcr, budget>>

\* The last batch of a container, or the end of an empty one.
ContainerLoaded(t, c) ==
    /\ At(t, "load") /\ c \in todo[t]
    /\ dest' \in {dest, dest \cup {c}}
    /\ Remaining(t, todo[t] \ {c})
    /\ EmitOrNot
    /\ UNCHANGED <<task, missed, xdcr, budget>>

LoadDone(t) ==
    /\ At(t, "load") /\ todo[t] = {}
    /\ Emit(rec)
    /\ Goto(t, "loaded")
    /\ UNCHANGED <<todo, dest, missed, xdcr, budget>>

\* CouchbaseNativeError: FAILED is set and emitted inside _run_native_full_load,
\* and the caller finds out by reading the phase once that emit is over.
NativeLoadFails(t) ==
    /\ At(t, "load") /\ Native /\ "backup" \in Faults
    /\ Emit(InPhase(rec, "failed"))
    /\ Goto(t, "failing")
    /\ Remaining(t, {})
    /\ UNCHANGED <<dest, missed, xdcr, budget>>

\* The test the caller of the full load makes before going on.
LoadFailed(r) == r.phase = "failed"

AfterLoad(t) ==
    /\ At(t, "loaded") \/ At(t, "failing")
    /\ \/ /\ LoadFailed(rec)
          /\ Goto(t, "idle") /\ NoEmit
       \/ /\ ~LoadFailed(rec) /\ ~Continuous
          /\ Emit(InPhase(rec, "verifying")) /\ Goto(t, "verify")
       \/ /\ ~LoadFailed(rec) /\ Continuous /\ Native
          /\ Goto(t, "ref") /\ NoEmit
       \/ /\ ~LoadFailed(rec) /\ Continuous /\ ~Native
          /\ BeginReplication(t, rec)
    /\ UNCHANGED <<todo, dest, missed, xdcr, budget>>

Verified(t) ==
    /\ At(t, "verify")
    /\ Emit(InPhase(rec, "complete"))
    /\ Goto(t, "idle")
    /\ UNCHANGED <<todo, dest, missed, xdcr, budget>>

-------------------------------------------------------------------------------
(* run_migration: continuous replication *)

\* _start_xdcr: the reference "ref", then the replication, then (back on the loop)
\* the checkpoint that remembers both.  The replication is "repl" if its creation
\* was answered with an id, and "unheard" if it took effect without one.
Linked == xdcr \cap {"repl", "unheard"}

RefCreated(t) ==
    /\ At(t, "ref")
    /\ xdcr' = xdcr \cup {"ref"}
    /\ Goto(t, "link")
    /\ NoEmit
    /\ UNCHANGED <<todo, dest, missed, budget>>

ReplicationCreated(t) ==
    /\ At(t, "link") /\ Linked = {}
    /\ xdcr' = xdcr \cup {"repl"}
    /\ Goto(t, "linked")
    /\ NoEmit
    /\ UNCHANGED <<todo, dest, missed, budget>>

\* Mutant of ReplicationRecorded: the id is not put into the checkpoint.
ReplicationForgotten(t) ==
    /\ At(t, "linked")
    /\ BeginReplication(t, rec)
    /\ UNCHANGED <<todo, dest, missed, xdcr, budget>>

ReplicationRecorded(t) ==
    /\ At(t, "linked")
    /\ BeginReplication(t, [rec EXCEPT !.replId = TRUE])
    /\ UNCHANGED <<todo, dest, missed, xdcr, budget>>

\* Mutant of MonitorGoesOn: only a deleted record stops a monitor.
MonitorIgnoresPhase == stored

\* The test both monitors make on each event, heartbeat or poll.
MonitorGoesOn == stored /\ rec.phase = "replicating"

MonitorEvent(t) ==
    /\ At(t, "monitor") /\ MonitorGoesOn
    /\ Goto(t, "apply")
    /\ NoEmit
    /\ UNCHANGED <<todo, dest, missed, xdcr, budget>>

MonitorExit(t) ==
    /\ At(t, "monitor") /\ ~MonitorGoesOn
    /\ Goto(t, "idle")
    /\ NoEmit
    /\ UNCHANGED <<todo, dest, missed, xdcr, budget>>

\* Mutant of EventApplied: the monitor saves the record as it was when it began.
EventAppliedToCopy(t) ==
    /\ At(t, "apply")
    /\ Emit(InPhase(rec, "replicating"))
    /\ Goto(t, "monitor")
    /\ UNCHANGED <<todo, dest, missed, xdcr, budget>>

\* The write, delete or progress poll comes back; the phase is not read again.
EventApplied(t) ==
    /\ At(t, "apply")
    /\ \/ UNCHANGED dest
       \/ ~Native /\ \E c \in Containers : dest' \in {dest \cup {c}, dest \ {c}}
    /\ EmitOrNot
    /\ Goto(t, "monitor")
    /\ UNCHANGED <<todo, missed, xdcr, budget>>

\* Mutant of RunFails: the exception is logged and nothing else.
RunFailsSilently(t) ==
    /\ task[t] \in RunStages \cap Faults
    /\ ~(Native /\ At(t, "verify"))
    /\ NoEmit
    /\ Goto(t, "idle")
    /\ Remaining(t, {})
    /\ UNCHANGED <<dest, missed, xdcr, budget>>

\* An exception anywhere in the try block of a run, also where the source cluster
\* refuses a second replication to the same target.  _verify_native cannot raise.
\* A request to the source cluster may have been served although it raises: its
\* answer was lost, or brought no id.
RunFails(t) ==
    /\ task[t] \in RunStages \cap Faults \/ (At(t, "link") /\ Linked # {})
    /\ ~(Native /\ At(t, "verify"))
    /\ \/ UNCHANGED xdcr
       \/ At(t, "ref") /\ xdcr' = xdcr \cup {"ref"}
       \/ At(t, "link") /\ Linked = {} /\ xdcr' = xdcr \cup {"unheard"}
    /\ Emit(InPhase(rec, "failed"))
    /\ Goto(t, "idle")
    /\ Remaining(t, {})
    /\ UNCHANGED <<dest, missed, budget>>

-------------------------------------------------------------------------------
(* stop_replication *)

\* Mutant of Teardown: the reference goes, the replication stays.
TeardownRefOnly == IF Native /\ rec.replId THEN xdcr' = xdcr \ {"ref"} ELSE UNCHANGED xdcr

\* _teardown_xdcr: nothing without a recorded id; errors are only logged.  The
\* reference stays while a replication the engine never heard of uses it.
Teardown ==
    IF Native /\ rec.replId
    THEN \/ xdcr' = IF "unheard" \in xdcr THEN xdcr \ {"repl"} ELSE {}
         \/ "teardown" \in Faults /\ xdcr' \in {xdcr, xdcr \ {"repl"}}
    ELSE UNCHANGED xdcr

Stop(t, cutover) ==
    /\ Ask(t, "stop")
    /\ rec.phase = "replicating"
    /\ Teardown
    /\ Emit([rec EXCEPT !.active = FALSE,
                        !.phase = IF cutover THEN "verifying" ELSE "stopped"])
    /\ Goto(t, IF cutover THEN "cutverify" ELSE "idle")
    /\ UNCHANGED <<todo, dest, missed>>

CutoverVerified(t) ==
    /\ At(t, "cutverify")
    /\ Emit(InPhase(rec, "complete"))
    /\ Goto(t, "idle")
    /\ UNCHANGED <<todo, dest, missed, xdcr, budget>>

\* _verify cannot connect: there is no except clause here.
CutoverRaises(t) ==
    /\ At(t, "cutverify") /\ ~Native /\ "cutverify" \in Faults
    /\ NoEmit
    /\ Goto(t, "idle")
    /\ UNCHANGED <<todo, dest, missed, xdcr, budget>>

-------------------------------------------------------------------------------
(* rollback *)

\* todo[t] keeps purge_destination_data: what the rollback is to purge.
Rollback(t, purge) ==
    /\ Ask(t, "rollback")
    /\ Emit([rec EXCEPT !.phase = "rolling_back", !.purged = FALSE])
    /\ Goto(t, "undo")
    /\ Remaining(t, IF purge THEN Containers ELSE {})
    /\ UNCHANGED <<dest, missed, xdcr>>

\* Mutant of RolledBack: replication_active is left as it was.
RolledBackActive(t, purged) ==
    /\ Emit([rec EXCEPT !.phase = "rolled_back", !.purged = purged])
    /\ Goto(t, "idle")
    /\ Remaining(t, {})

RolledBack(t, purged) ==
    /\ Emit([rec EXCEPT !.phase = "rolled_back", !.active = FALSE, !.purged = purged])
    /\ Goto(t, "idle")
    /\ Remaining(t, {})

RollbackResume(t) ==
    LET purges == rec.phase = "rolling_back" /\ todo[t] # {} /\ ~Native
    IN  /\ At(t, "undo")
        /\ Teardown
        /\ \/ purges /\ Goto(t, "purging") /\ NoEmit /\ UNCHANGED todo
           \/ ~purges /\ RolledBack(t, FALSE)
        /\ UNCHANGED <<dest, missed, budget>>

\* purge_migration deletes container by container; a failed query is only logged.
PurgeContainer(t, c) ==
    /\ At(t, "purging") /\ c \in todo[t]
    /\ \/ dest' = dest \ {c} /\ missed' = missed \ {c}
       \/ "query" \in Faults /\ missed' = missed \cup {c} /\ UNCHANGED dest
    /\ Remaining(t, todo[t] \ {c})
    /\ NoEmit
    /\ UNCHANGED <<task, xdcr, budget>>

\* Mutant of PurgeDone: the purge is not awaited.
PurgeNotAwaited(t) ==
    /\ At(t, "purging")
    /\ RolledBack(t, TRUE)
    /\ UNCHANGED <<dest, missed, xdcr, budget>>

PurgeDone(t) ==
    /\ At(t, "purging") /\ todo[t] = {}
    /\ RolledBack(t, TRUE)
    /\ UNCHANGED <<dest, missed, xdcr, budget>>

\* The destination cannot be reached.
PurgeFails(t) ==
    /\ At(t, "purging") /\ "purging" \in Faults
    /\ Emit(InPhase(rec, "failed"))
    /\ Goto(t, "idle")
    /\ Remaining(t, {})
    /\ UNCHANGED <<dest, missed, xdcr, budget>>

-------------------------------------------------------------------------------
(* Deletion and restart *)

\* Mutant of Delete: the file is not rewritten.
DeleteInMemory(t) ==
    /\ Ask(t, "delete")
    /\ stored' = FALSE
    /\ UNCHANGED <<rec, disk, task, todo, dest, missed, xdcr>>

\* No task is cancelled and no XDCR object removed.
Delete(t) ==
    /\ Ask(t, "delete")
    /\ stored' = FALSE
    /\ disk' = {}
    /\ UNCHANGED <<rec, task, todo, dest, missed, xdcr>>

\* Mutant of Reconciled: an interrupted rollback is not thought of.
ReconciledButRollback(r) ==
    IF r.phase \in Orphanable \ {"rolling_back"} THEN InPhase(r, "failed") ELSE r

\* _reconcile_orphaned_migrations.
Reconciled(r) == IF r.phase \in Orphanable THEN InPhase(r, "failed") ELSE r

\* The process goes away with every task in it, and starts again from the file.
Restart ==
    /\ budget["restart"] > 0
    /\ budget' = [budget EXCEPT !["restart"] = @ - 1]
    /\ task' = [t \in Tasks |-> "idle"]
    /\ todo' = [t \in Tasks |-> {}]
    /\ \/ \E r \in disk : Emit(Reconciled(r))
       \/ disk = {} /\ stored' = FALSE /\ UNCHANGED <<rec, disk>>
    /\ UNCHANGED <<dest, missed, xdcr>>

-------------------------------------------------------------------------------
(* The specification *)

Init ==
    /\ \E plan \in Plans : rec = NewRecord(plan)
    /\ stored = TRUE
    /\ disk = {rec}
    /\ task = [t \in Tasks |-> "idle"]
    /\ todo = [t \in Tasks |-> {}]
    /\ dest = {}
    /\ missed = {}
    /\ xdcr = {}
    /\ budget = Budget

Request(t) ==
    \/ Validate(t) \/ Approve(t) \/ Start(t) \/ Delete(t)
    \/ \E cutover \in BOOLEAN : Stop(t, cutover)
    \/ \E purge \in BOOLEAN : Rollback(t, purge)

\* Steps of run_migration that the code itself will take sooner or later.
RunStep(t) ==
    \/ RunEnter(t) \/ BucketReady(t) \/ CollectionsReady(t)
    \/ (\E c \in Containers : ContainerLoaded(t, c)) \/ LoadDone(t) \/ AfterLoad(t)
    \/ RefCreated(t) \/ ReplicationCreated(t) \/ ReplicationRecorded(t)
    \/ EventApplied(t) \/ Verified(t)

\* Steps of the request handlers that suspend.
HandlerStep(t) ==
    \/ ValidateFinish(t) \/ CutoverVerified(t)
    \/ RollbackResume(t) \/ (\E c \in Containers : PurgeContainer(t, c)) \/ PurgeDone(t)

\* Steps the outside world decides on: more data, a change event or none, a failure.
WorldStep(t) ==
    \/ (\E c \in Containers : LoadBatch(t, c)) \/ MonitorEvent(t) \/ MonitorExit(t)
    \/ ValidateRaises(t) \/ SetupRaises(t) \/ NativeLoadFails(t) \/ RunFails(t)
    \/ CutoverRaises(t) \/ PurgeFails(t)

Next == Restart \/ \E t \in Tasks : Request(t) \/ RunStep(t) \/ HandlerStep(t) \/ WorldStep(t)

Spec == Init /\ [][Next]_vars

\* The loop keeps running every ready task, and each await is answered or times
\* out.  A monitor whose source polls looks at the phase after every round; one
\* whose source reads a stream may wait for ever for something the plan includes.
Fairness ==
    \A t \in Tasks :
        /\ WF_vars(RunStep(t))
        /\ WF_vars(HandlerStep(t))
        /\ WF_vars(rec.plan.polls /\ MonitorExit(t))

FairSpec == Spec /\ Fairness

-------------------------------------------------------------------------------
(* Properties *)

\* Every variable holds values of its kind; the engine's fields stay in range.
TypeOK ==
    /\ rec \in Record
    /\ stored \in BOOLEAN
    /\ disk \in SUBSET Record
    /\ task \in [Tasks -> Stages]
    /\ todo \in [Tasks -> SUBSET Containers]
    /\ dest \in SUBSET Containers
    /\ missed \in SUBSET Containers
    /\ xdcr \in SUBSET {"ref", "repl", "unheard"}
    /\ budget \in [Requests \cup {"restart"} -> Nat]

\* The tasks that can still move a record out of phase p.
Drivers(p) ==
    CASE p = "validating"   -> {"validate"}
      [] p = "migrating"    -> {"load", "loaded", "ref", "link", "linked"}
      [] p = "replicating"  -> RunStages
      [] p = "verifying"    -> {"verify", "cutverify"}
      [] p = "rolling_back" -> {"undo", "purging"}

\* Phases in which an exception that nothing catches leaves a record behind: of
\* MigrationValidator.run, and of the cutover's _verify.
Abandoned == (IF "validate" \in Faults THEN {"validating"} ELSE {})
                 \cup (IF "cutverify" \in Faults THEN {"verifying"} ELSE {})

\* main.py calls VALIDATING, MIGRATING, REPLICATING, VERIFYING and ROLLING_BACK
\* phases that only mean anything while a background task is driving them: a
\* stored record is in one of them only while such a task is alive, or else where
\* one of those exceptions abandoned it.
ActivePhaseHasDriver ==
    stored /\ rec.phase \in Orphanable \ Abandoned => Live(Drivers(rec.phase)) # {}

\* The gate: approve() and run_migration() see AWAITING_APPROVAL or APPROVED only
\* under a report whose last verdict was "passed", whatever validations overlap.
GateOnReport == rec.phase \in {"awaiting_approval", "approved"} => rec.passed

\* No data moves for a migration nobody approved: a run past its check, tagged
\* documents and XDCR objects all presuppose approved_by.
NothingUnapproved ==
    Live({"provision"} \cup RunStages) # {} \/ dest # {} \/ xdcr # {} => rec.approved

\* What a crash would find: the file holds the record as it is, or, once it is
\* deleted, nothing.
Durable == disk = IF stored THEN {rec} ELSE {}

Restarted == budget["restart"] < Budget["restart"]

\* A replication whose creation the source cluster answered is one the engine will
\* find again: its id is in the checkpoint, or on its way there.  Only a restart at
\* that very moment can lose it.
ReplicationIsKnown == "repl" \in xdcr => rec.replId \/ Live({"linked"}) # {} \/ Restarted

\* COMPLETE and STOPPED mean that no replication this migration created is running
\* inside the source cluster.  ROLLED_BACK means it of those whose creation was
\* answered, unless a restart lost the id.
NoOrphanReplication ==
    /\ rec.phase \in {"complete", "stopped"} => Linked = {}
    /\ rec.phase = "rolled_back" => "repl" \notin xdcr \/ Restarted

\* What rollback logs: "Any XDCR replication has been removed from the source
\* cluster".  LostAnswer.cfg shows that one created without an answer is not.
RollbackRemovesReplication == rec.phase = "rolled_back" /\ ~Restarted => Linked = {}

\* After a rollback that purged, what this migration wrote is gone, except where
\* the purge query failed, and except for the one change event that was being
\* applied when the rollback began.
PurgedStaysClean ==
    rec.phase = "rolled_back" /\ rec.purged =>
        \/ dest \subseteq missed
        \/ Continuous /\ \E c \in Containers : dest \subseteq missed \cup {c}

\* "Loaded into Couchbase once": two runs of one migration never overlap.
OneRun == Cardinality(Live(RunStages)) <= 1

\* stats.replication_active agrees with the phase, except that a failure leaves
\* it as it was.
ActiveFlagAgrees ==
    /\ rec.phase = "replicating" => rec.active
    /\ rec.phase \in {"complete", "stopped", "rolled_back"} => ~rec.active

\* COMPLETE and STOPPED are terminal: only a rollback leads out of them.
TerminalStays ==
    [][rec.phase \in {"complete", "stopped"} =>
          rec.phase' \in {rec.phase, "rolling_back"}]_vars

\* A backup or restore that failed ends its run: nothing is verified, completed or
\* replicated on top of it.
FailedLoadEndsRun ==
    [][\A t \in Tasks : At(t, "failing") => task'[t] \in {"failing", "idle"}]_vars

\* Flipping the phase is what stops a monitor: each one alive when replication is
\* stopped is gone sooner or later, if its source polls.
StopEndsMonitor ==
    \A t \in Tasks :
        (rec.phase = "stopped" /\ rec.plan.polls /\ task[t] \in {"monitor", "apply"})
            ~> task[t] = "idle"

\* The same of every source; BusyStream.cfg shows that it fails where the stream
\* brings nothing but what the plan leaves out.
StopEndsEveryMonitor ==
    \A t \in Tasks :
        (rec.phase = "stopped" /\ task[t] \in {"monitor", "apply"}) ~> task[t] = "idle"

\* The documented lifecycle, phase changes and progress both.
Lifecycle == INSTANCE MigrationLifecycle WITH phase <- rec.phase, strategy <- Strategy
LifecycleSpec == Lifecycle!Spec
================================================================================
