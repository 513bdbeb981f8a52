-------------------------- MODULE MigrationLifecycle --------------------------
(***************************************************************************)
(* What the engine promises the operator: the lifecycle written at the top *)
(* of backend/app/core/migration_engine.py, one action per arrow.  Nothing *)
(* is said of tasks, stores, requests or restarts; MigrationEngine has     *)
(* those and is shown to implement this module under the requests the      *)
(* wizard and the detail page make.                                        *)
(***************************************************************************)
EXTENDS MigrationPhases

VARIABLES
    phase,
    strategy   \* the plan's MigrationStrategy; it never changes

lifecycle == <<phase, strategy>>

Init == phase = "draft" /\ strategy \in Strategies

\* From any phase of S to phase p.
Move(S, p) == phase \in S /\ phase' = p /\ UNCHANGED strategy

\* "validate -> await approval": the gate, and another try after a red report.
Validate == Move({"draft", "validation_failed", "awaiting_approval"}, "validating")
Report == \E p \in {"awaiting_approval", "validation_failed"} : Move({"validating"}, p)
Approve == Move({"awaiting_approval"}, "approved")

\* "full load", for the modes that have one.
Load == strategy \in LoadingStrategies /\ Move({"approved"}, "migrating")

\* "change-data-capture": started immediately, or once the load has finished.
Replicate ==
    /\ strategy \in ContinuousStrategies
    /\ Move({IF strategy \in LoadingStrategies THEN "migrating" ELSE "approved"},
            "replicating")

\* "verify -> COMPLETE", after a one-time load or at cutover.
Verify ==
    Move({IF strategy \in ContinuousStrategies THEN "replicating" ELSE "migrating"},
         "verifying")
Complete == Move({"verifying"}, "complete")

\* "halt without cutover (-> STOPPED)".
Halt == Move({"replicating"}, "stopped")

\* A step of the work failed, or the process driving it went away.
Fail == Move(Orphanable \cup {"approved"}, "failed")

\* Rollback of a replicating or settled migration.
Rollback == Move({"replicating", "complete", "failed", "stopped"}, "rolling_back")
RolledBack == Move({"rolling_back"}, "rolled_back")

Next ==
    \/ Validate \/ Report \/ Approve
    \/ Load \/ Replicate \/ Verify \/ Complete \/ Halt \/ Fail
    \/ Rollback \/ RolledBack

\* What was begun is finished: a report arrives, a load, a verification and a
\* rollback end.  Nothing obliges an operator to do anything, and replication
\* may go on forever.
Fairness ==
    /\ WF_lifecycle(Report \/ (phase = "validating" /\ Fail))
    /\ WF_lifecycle(phase = "migrating" /\ (Replicate \/ Verify \/ Fail))
    /\ WF_lifecycle(Complete \/ (phase = "verifying" /\ Fail))
    /\ WF_lifecycle(RolledBack \/ (phase = "rolling_back" /\ Fail))

Spec == Init /\ [][Next]_lifecycle /\ Fairness
===============================================================================
