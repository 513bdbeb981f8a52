-------------------------- MODULE MCMigrationEngine --------------------------
(***************************************************************************)
(* Instances of MigrationEngine for TLC: who may ask for what and when, how *)
(* often, and which of the surrounding services fail.                       *)
(***************************************************************************)
EXTENDS MigrationEngine, TLC

TaskSymmetry == Permutations(Tasks)

-------------------------------------------------------------------------------
(* Plans *)

Generic(strategy) == [native |-> FALSE, strategy |-> strategy, polls |-> TRUE]
Streaming(strategy) == [native |-> FALSE, strategy |-> strategy, polls |-> FALSE]
CouchbaseSource(strategy) == [native |-> TRUE, strategy |-> strategy, polls |-> TRUE]

\* The mode that has every stage, for both kinds of source.
HybridPlans == {Generic("full_load_and_cdc"), CouchbaseSource("full_load_and_cdc")}

\* Each mode once with a generic source, the longest also with a Couchbase source,
\* and one with a source that may never come round.
EachMode ==
    {Generic(s) : s \in Strategies}
        \cup {CouchbaseSource("full_load_and_cdc"), Streaming("cdc_live")}

OneTime == {Generic("full_load")}
LiveOnly == {Generic("cdc_live")}
StreamOnly == {Streaming("cdc_live")}
NativeOneTime == {CouchbaseSource("full_load")}
NativeHybrid == {CouchbaseSource("full_load_and_cdc")}

-------------------------------------------------------------------------------
(* Offered *)

\* A client of the HTTP API: any request at any time.
ApiRequests == Requests \X Phases

\* The wizard and the detail page (frontend/src/pages): the buttons each shows.
PageRequests ==
    {<<"validate", "draft">>, <<"approve", "awaiting_approval">>,
     <<"start", "approved">>, <<"stop", "replicating">>}
        \cup {"rollback"} \X
             {"migrating", "replicating", "verifying", "complete", "failed", "stopped"}

\* An operator who lets a load or a verification finish before rolling back, and
\* who validates again after a red report or before approving.
PatientRequests ==
    (PageRequests \ {<<"rollback", "migrating">>, <<"rollback", "verifying">>})
        \cup {"validate"} \X {"validation_failed", "awaiting_approval"}

\* A patient operator who starts over after stopping.
RestartingRequests == PatientRequests \cup {<<"validate", "stopped">>}

-------------------------------------------------------------------------------
(* Budget *)

Times(validate, approve, start, stop, rollback, delete, restart) ==
    ("validate" :> validate) @@ ("approve" :> approve) @@ ("start" :> start)
        @@ ("stop" :> stop) @@ ("rollback" :> rollback) @@ ("delete" :> delete)
        @@ ("restart" :> restart)

ApiTwice == Times(2, 2, 2, 2, 2, 1, 2)
PageTwice == Times(3, 2, 1, 2, 2, 0, 2)
EachOnce == Times(1, 1, 1, 1, 1, 0, 0)
TwoRuns == Times(2, 2, 2, 1, 0, 0, 0)
TwoStarts == Times(1, 1, 2, 0, 0, 0, 0)

-------------------------------------------------------------------------------
(* Faults *)

NoFaults == {}

\* Everything the code catches somewhere.
CaughtFaults ==
    {"provision", "collections", "load", "backup", "ref", "link", "monitor", "apply",
     "verify", "teardown", "query", "purging"}

\* And the two places where an exception escapes: validate() and the cutover.
AllFaults == CaughtFaults \cup {"validate", "cutverify"}

\* Failures before replication is running, and of the purge.
EarlyFaults ==
    {"provision", "collections", "load", "ref", "link", "verify", "query", "purging"}
OnlyLink == {"link"}
OnlyMonitor == {"monitor"}
OnlyBackup == {"backup"}
===============================================================================
