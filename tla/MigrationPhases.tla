--------------------------- MODULE MigrationPhases ---------------------------
(***************************************************************************)
(* The vocabulary every other module shares: the phases a migration record *)
(* passes through and the three user-selectable replication modes          *)
(* (backend/app/models/enums.py), and the phases the start-up code treats  *)
(* as meaningless without a live background task (backend/app/main.py).    *)
(***************************************************************************)

\* MigrationPhase. "validated" and "cancelled" are declared by the enumeration
\* and assigned by no code.
Phases == {"draft", "validating", "validated", "validation_failed",
           "awaiting_approval", "approved", "migrating", "replicating",
           "verifying", "complete", "failed", "rolling_back", "rolled_back",
           "stopped", "cancelled"}

\* MigrationStrategy.
Strategies == {"full_load", "cdc_live", "full_load_and_cdc"}

\* CONTINUOUS_STRATEGIES, and the strategies run_migration() copies in bulk for.
ContinuousStrategies == {"cdc_live", "full_load_and_cdc"}
LoadingStrategies == {"full_load", "full_load_and_cdc"}

\* _ORPHANABLE_PHASES.
Orphanable ==
    {"validating", "migrating", "replicating", "verifying", "rolling_back"}
==============================================================================
