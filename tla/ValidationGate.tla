---------------------------- MODULE ValidationGate ----------------------------
(***************************************************************************)
(* What a passing report is worth: MigrationValidator                      *)
(* (backend/app/core/validator.py) against what the engine does with the   *)
(* approved plan: its target map, the destination bucket it provisions     *)
(* (core/migration_engine.py, core/couchbase_client.py,                    *)
(* core/capella_client.py) and the XDCR replication it asks for.           *)
(*                                                                         *)
(* A case is a plan together with the two databases.  The checks are       *)
(* actions in the order of run(); anybody may create the destination       *)
(* bucket in between.                                                      *)
(***************************************************************************)
EXTENDS MigrationPhases, ModeRecommendation, FiniteSets

CONSTANTS
    Containers,   \* containers of the source
    Names,        \* names of databases, scopes and collections, and their sanitized forms
    Sanitize,     \* sanitize_couchbase_name on Names
    NameOf,       \* Containers -> their names
    Counts,       \* numbers of vBuckets a bucket may have
    Cases         \* the cases to consider, see Case

None == "none"
Absent == 0      \* the vBuckets of a bucket that is not there

\* The plan's spec of a container; None where a name is left blank.
Spec1 == [include : BOOLEAN, scope : Names \cup {None}, collection : Names \cup {None}]

\* native: the source is Couchbase.  specs: the plan's specs, for some of the
\* containers.  streamed: the containers whose changes can be read.
\* wanted, reported, workers: what the advice is given.  sourceV and
\* bucketV: vBuckets of the two buckets.  legible: of which these counts can be read.
\* newV: what the server gives a bucket it is not told a number for.
Case == [native : BOOLEAN, capella : BOOLEAN, strategy : Strategies,
         sourceUp : BOOLEAN, apiUp : BOOLEAN, destUp : BOOLEAN, tls : BOOLEAN,
         database : Names \cup {None}, specs : UNION {[S -> Spec1] : S \in SUBSET Containers},
         large : SUBSET Containers, streamed : SUBSET Containers,
         wanted : {"cutover", "phased"}, reported : Topology, workers : 1..64,
         sourceV : Counts, bucketV : Counts \cup {Absent},
         legible : SUBSET {"source", "bucket"},
         newV : Counts,
         provisions : BOOLEAN]

\* 1024 is what create_bucket asks Capella for.
CapellaCount == 1024

ASSUME GateAssumption ==
    /\ Sanitize \in [Names -> Names]
    /\ \A n \in Names : Sanitize[Sanitize[n]] = Sanitize[n]
    /\ NameOf \in [Containers -> Names]
    /\ Counts \subseteq Nat \ {Absent} /\ CapellaCount \in Counts
    /\ \A c \in Cases : c \in Case
    \* A source reports change capture if any of its containers has it: for DynamoDB
    \* that is a table with a stream, for the others it is all or none.
    /\ \A c \in Cases : c.reported.cdc <=> c.streamed # {}

VARIABLES
    case,       \* the member of Cases this is about
    stage,      \* the next step
    topology,   \* did the source answer? (source_topology is not None)
    target,     \* did the destination answer? (dest_topology is not None)
    checks,     \* results so far: [id, severity, passed]
    bucket,     \* vBuckets of the destination bucket now
    outcome     \* what became of the run

vars == <<case, stage, topology, target, checks, bucket, outcome>>

Continuous == case.strategy \in ContinuousStrategies
Result(id, severity, passed) == [id |-> id, severity |-> severity, passed |-> passed]

-------------------------------------------------------------------------------
(* MigrationValidator.run *)

CheckSource ==
    /\ stage = "source" /\ stage' = "destination"
    /\ topology' = case.sourceUp
    /\ \E quick \in BOOLEAN :
          checks' = {Result("source", "error", case.sourceUp)} \cup
                    (IF case.sourceUp
                     THEN {Result("edition", "info", TRUE), Result("latency", "warning", quick)}
                     ELSE {})
    /\ UNCHANGED <<case, target, bucket, outcome>>

\* For Capella the management API is asked first, and its answer is the result.
CheckDestination ==
    /\ stage = "destination" /\ stage' = "plan"
    /\ target' = ((case.capella => case.apiUp) /\ case.destUp)
    /\ checks' = checks \cup
           (IF case.capella THEN {Result("destination", "error", case.apiUp)} ELSE {}) \cup
           (IF case.capella /\ (~case.apiUp \/ case.destUp) THEN {}
            ELSE {Result("destination", "error", case.destUp)})
    /\ UNCHANGED <<case, topology, bucket, outcome>>

CdcResult ==
    IF Continuous THEN Result("cdc", "error", case.reported.cdc) ELSE Result("cdc", "info", TRUE)

Specified == DOMAIN case.specs
Counted == {c \in Containers : c \in Specified => case.specs[c].include}

\* Where _check_naming_compat expects the documents of a container.
Expected(c) ==
    LET scope == IF c \in Specified THEN case.specs[c].scope ELSE None
        collection == IF c \in Specified THEN case.specs[c].collection ELSE None
    IN  <<IF scope = None THEN "_default" ELSE Sanitize[scope],
          Sanitize[IF collection = None THEN NameOf[c] ELSE collection]>>

\* Mutant of NamingResult: names are compared before they are sanitized.
NamingResultRaw ==
    Result("naming", "warning",
           \A c, d \in Counted : NameOf[c] = NameOf[d] => c = d)

NamingResult ==
    Result("naming", "warning",
           \A c, d \in Counted : Expected(c) = Expected(d) => c = d)

\* The checks that need no further request.
CheckPlan ==
    /\ stage = "plan" /\ stage' = "vbuckets"
    /\ checks' = checks \cup
           (IF topology
            THEN {CdcResult, NamingResult, Result("size", "warning", case.large = {})}
            ELSE {}) \cup
           (IF topology /\ target THEN {Result("capacity", "warning", TRUE)} ELSE {})
    /\ UNCHANGED <<case, topology, target, bucket, outcome>>

\* A count that cannot be read, of whichever bucket, is taken for good news.
VbucketResult ==
    IF "source" \notin case.legible \/ ~case.sourceUp THEN Result("vbuckets", "warning", TRUE)
    ELSE IF bucket = Absent \/ "bucket" \notin case.legible \/ ~case.destUp THEN Result("vbuckets", "info", TRUE)
    ELSE Result("vbuckets", "error", bucket = case.sourceV)

CheckVbuckets ==
    /\ stage = "vbuckets" /\ stage' = "tls"
    /\ checks' = checks \cup (IF Continuous /\ case.native THEN {VbucketResult} ELSE {})
    /\ UNCHANGED <<case, topology, target, bucket, outcome>>

\* Mutant of TlsResult: a severity nobody knows.
TlsResultMisspelt == Result("tls", IF case.tls THEN "info" ELSE "warn", case.tls)

TlsResult == Result("tls", IF case.tls THEN "info" ELSE "warning", case.tls)

CheckTls ==
    /\ stage = "tls" /\ stage' = "report"
    /\ checks' = checks \cup {TlsResult}
    /\ UNCHANGED <<case, topology, target, bucket, outcome>>

\* ValidationReport.passed.
Passed == \A c \in checks : c.severity = "error" => c.passed

\* A report that does not pass is the end; one that passes is approved.
Judge ==
    /\ stage = "report" /\ stage' = IF Passed THEN "provision" ELSE "done"
    /\ UNCHANGED <<case, topology, target, checks, bucket, outcome>>

-------------------------------------------------------------------------------
(* What the engine makes of the plan *)

\* The containers the plan moves.
Included == {c \in Specified : case.specs[c].include}

NewCount == IF case.capella THEN CapellaCount ELSE case.newV

\* Mutant of Provision: the bucket is dropped and made anew.
ProvisionAnew ==
    /\ stage = "provision" /\ stage' = "run"
    /\ bucket' = IF case.provisions THEN NewCount ELSE bucket
    /\ UNCHANGED <<case, topology, target, checks, outcome>>

\* _ensure_destination_bucket: ensure_bucket names no number of vBuckets, and an
\* error is logged and passed over.
Provision ==
    /\ stage = "provision" /\ stage' = "run"
    /\ bucket' = IF bucket = Absent /\ case.provisions THEN NewCount ELSE bucket
    /\ UNCHANGED <<case, topology, target, checks, outcome>>

\* The run, as far as the gate looked at what it needs.  It stops at an included
\* container whose changes cannot be read.
Run ==
    /\ stage = "run" /\ stage' = "done"
    /\ outcome' = IF ~case.sourceUp \/ ~case.destUp THEN "unreachable"
                  ELSE IF Continuous /\ ~(Included \subseteq case.streamed) THEN "no_cdc"
                  ELSE IF ~(Continuous /\ case.native) THEN "runs"
                  ELSE IF bucket = Absent THEN "no_bucket"
                  ELSE IF bucket # case.sourceV THEN "mismatch"
                  ELSE "runs"
    /\ UNCHANGED <<case, topology, target, checks, bucket>>

\* Where _target_map sends the documents of an included container.
Target(c) ==
    LET spec == case.specs[c]
    IN  <<IF spec.scope # None THEN Sanitize[spec.scope]
          ELSE IF case.database # None THEN Sanitize[case.database] ELSE "_default",
          Sanitize[IF spec.collection = None THEN NameOf[c] ELSE spec.collection]>>

-------------------------------------------------------------------------------
(* The specification *)

\* Somebody else creates the destination bucket.
BucketAppears ==
    /\ bucket = Absent /\ case.destUp
    /\ bucket' \in Counts
    /\ UNCHANGED <<case, stage, topology, target, checks, outcome>>

Init ==
    /\ case \in Cases
    /\ stage = "source" /\ topology = FALSE /\ target = FALSE
    /\ checks = {}
    /\ bucket = case.bucketV
    /\ outcome = None

Next == CheckSource \/ CheckDestination \/ CheckPlan \/ CheckVbuckets \/ CheckTls
            \/ Judge \/ Provision \/ Run \/ BucketAppears

Spec == Init /\ [][Next]_vars

-------------------------------------------------------------------------------
(* Properties *)

CheckIds == {"source", "edition", "latency", "destination", "cdc", "naming", "size",
             "capacity", "vbuckets", "tls"}

\* Every variable holds values of its kind.
TypeOK ==
    /\ stage \in {"source", "destination", "plan", "vbuckets", "tls", "report",
                  "provision", "run", "done"}
    /\ topology \in BOOLEAN /\ target \in BOOLEAN
    /\ checks \in SUBSET [id : CheckIds, severity : {"error", "warning", "info"}, passed : BOOLEAN]
    /\ bucket \in Counts \cup {Absent}
    /\ outcome \in {None, "runs", "unreachable", "no_cdc", "no_bucket", "mismatch"}

\* The gate could not compare the two buckets, and said so.
NotCompared == \E c \in checks : c.id = "vbuckets" /\ c.severity # "error"

\* The source has change capture for some of its containers only.
PartlyStreamed == case.streamed \notin {{}, Containers}

\* An approved plan does not fail for a reason the gate looked at: neither database
\* is out of reach, change capture is there, unless the source has it per container
\* and not for all, and XDCR finds buckets that match, unless the report says that
\* they were not compared.
PassedPlanRuns ==
    /\ outcome # "unreachable"
    /\ outcome = "no_cdc" => PartlyStreamed
    /\ outcome \in {"mismatch", "no_bucket"} => NotCompared

\* validator.py: "Source supports continuous change-data-capture for the selected
\* replication mode."  PartStreams.cfg shows that the run of a plan that was told so
\* can fail for want of it.
CaptureIsThere == outcome # "no_cdc"

\* Either all included containers are given a scope or none is.
Uniform ==
    \A c, d \in Included : (case.specs[c].scope = None) <=> (case.specs[d].scope = None)

\* Where the naming check passes, the engine sends the containers to collections of
\* their own.
NamingAgrees ==
    Result("naming", "warning", TRUE) \in checks =>
        \A c, d \in Included : Target(c) = Target(d) => c = d

\* The naming check misses no collision in such plans, although the engine's default
\* scope is the source database's and the check's is "_default".
NamingPredicts == Uniform => NamingAgrees

AdviceFor(c) == Advised(c.wanted, c.reported, c.workers)

\* A plan made as advised passes the check for change capture; and a one-time load
\* that is advised for a source is advised for a smaller one, and with more workers.
AdviceHolds ==
    /\ case.strategy = AdviceFor(case) => \A c \in checks : c.id = "cdc" => c.passed
    /\ stage = "source" /\ AdviceFor(case) = "full_load" =>
           \A other \in Cases :
               /\ other.wanted = case.wanted /\ other.reported.cdc = case.reported.cdc
               /\ Total(other.reported) <= Total(case.reported)
               /\ other.workers >= case.workers
               => AdviceFor(other) = "full_load"

\* validator.py: a missing bucket "will be auto-provisioned with {source_vbuckets}
\* vBuckets to match the source".  The bucket the engine makes has that many.
ProvisionedToMatch ==
    [][stage = "provision" /\ bucket # bucket' /\ stage' = "run" /\ Continuous /\ case.native =>
           bucket' = case.sourceV]_vars
================================================================================
