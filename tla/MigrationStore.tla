---------------------------- MODULE MigrationStore ----------------------------
(***************************************************************************)
(* The records of all migrations and the file that keeps them:             *)
(* MigrationStore (backend/app/core/store.py).                             *)
(*                                                                         *)
(* A record is its version: every change of one of its fields makes a new  *)
(* one.  The store hands out the object itself, so a record changes        *)
(* between two saves and any save writes all records as they are then.     *)
(* save() and delete() hold the lock over no await: each is one step.      *)
(***************************************************************************)
EXTENDS Naturals

CONSTANTS
    Ids,          \* migrations
    MaxVersion,   \* bound on the versions of a record
    Unreadable,   \* migrations whose saved form model_validate rejects
    MaxRestarts   \* bound on restarts

ASSUME StoreAssumption ==
    MaxVersion \in Nat /\ MaxRestarts \in Nat /\ Unreadable \subseteq Ids

VARIABLES
    object,     \* Ids -> version of the MigrationRecord, the last one if it is gone
    stored,     \* keys of _records
    file,       \* the versions in the file, of the migrations _load would find in it
    torn,       \* has the process ever died inside write_text?
    promised,   \* Ids -> version at the latest save() that returned; 0 if deleted
    restarts    \* how often the process was started again

storeVars == <<object, stored, file, torn, promised, restarts>>

\* Mutant of Persist: the file is written before the record is replaced.
PersistStale(S) == file' = [m \in S |-> object[m]]

\* _persist writes all records, as they are now.
Persist(S) == file' = [m \in S |-> object'[m]]

\* A task changes a field of a record of the store.
Touch(m) ==
    /\ m \in stored /\ object[m] + 1 < MaxVersion
    /\ object' = [object EXCEPT ![m] = @ + 1]
    /\ UNCHANGED <<stored, file, torn, promised, restarts>>

\* Every caller has just changed the record: _emit() its updated_at, create() all
\* of it, the reconciliation at start-up its phase.
Save(m) ==
    /\ object[m] < MaxVersion
    /\ object' = [object EXCEPT ![m] = @ + 1]
    /\ stored' = stored \cup {m}
    /\ Persist(stored')
    /\ promised' = [promised EXCEPT ![m] = object'[m]]
    /\ UNCHANGED <<torn, restarts>>

Delete(m) ==
    /\ m \in stored
    /\ stored' = stored \ {m}
    /\ UNCHANGED <<object, torn, restarts>>
    /\ Persist(stored')
    /\ promised' = [promised EXCEPT ![m] = 0]

\* _load: a record that is not valid hides those after it.
Loaded ==
    {S \in SUBSET (DOMAIN file) :
        /\ S \cap Unreadable = {}
        /\ DOMAIN file \cap Unreadable = {} => S = DOMAIN file}

\* The process dies and is started again.
Restart ==
    /\ restarts < MaxRestarts /\ restarts' = restarts + 1
    /\ stored' \in Loaded
    /\ object' = [m \in Ids |-> IF m \in stored' THEN file[m] ELSE object[m]]
    /\ UNCHANGED <<file, torn, promised>>

\* It dies while _persist rewrites the file: what is left is no JSON, and _load takes
\* it for no records.
TornRestart ==
    /\ restarts < MaxRestarts /\ restarts' = restarts + 1
    /\ torn' = TRUE
    /\ file' = [m \in {} |-> 0] /\ stored' = {}
    /\ UNCHANGED <<object, promised>>

StoreInit ==
    /\ object = [m \in Ids |-> 0]
    /\ stored = {}
    /\ file = [m \in {} |-> 0]
    /\ torn = FALSE
    /\ promised = [m \in Ids |-> 0]
    /\ restarts = 0

StoreNext ==
    \/ \E m \in Ids : Touch(m) \/ Save(m) \/ Delete(m)
    \/ Restart \/ TornRestart

StoreSpec == StoreInit /\ [][StoreNext]_storeVars

-------------------------------------------------------------------------------
(* Properties *)

\* Every variable holds values of its kind.
StoreTypeOK ==
    /\ object \in [Ids -> Nat]
    /\ stored \in SUBSET Ids
    /\ torn \in BOOLEAN
    /\ DOMAIN file \in SUBSET Ids
    /\ \A m \in DOMAIN file : file[m] \in Nat
    /\ promised \in [Ids -> Nat]
    /\ restarts \in Nat

\* Of a migration that has not been deleted, no version whose save() returned is lost,
\* whatever is saved, deleted or restarted after it; a crash inside write_text apart.
SavedSurvives ==
    ~torn => \A m \in Ids : promised[m] > 0 => m \in stored /\ object[m] >= promised[m]

\* The same of every crash, which is false: the file is rewritten in place.
SavedSurvivesTearing ==
    \A m \in Ids : promised[m] > 0 => m \in stored /\ object[m] >= promised[m]
================================================================================
