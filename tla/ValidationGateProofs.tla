------------------------- MODULE ValidationGateProofs -------------------------
(***************************************************************************)
(* What a passing report is worth: proofs for every source, every plan,    *)
(* every set of names and every sanitization of them.                      *)
(***************************************************************************)
EXTENDS ValidationGate, TLAPS

(* The inductive invariant: what is known of the case once a check has been made and
   nothing failed. *)
Checked(done) == stage \notin done /\ Passed

SourceIsUp == Checked({"source"}) => case.sourceUp
TopologyIsSource == stage # "source" => (topology <=> case.sourceUp)
DestinationIsUp == Checked({"source", "destination"}) => case.destUp
CaptureReported ==
    Checked({"source", "destination", "plan"}) => (Continuous => case.reported.cdc)
BucketsMatch ==
    Checked({"source", "destination", "plan", "vbuckets"}) /\ Continuous /\ case.native =>
        NotCompared \/ bucket = case.sourceV
Approved == stage \in {"provision", "run"} => Passed
NotYet == stage # "done" => outcome = None

GateInv ==
    /\ case \in Case /\ (case.reported.cdc <=> case.streamed # {})
    /\ SourceIsUp /\ TopologyIsSource /\ DestinationIsUp /\ CaptureReported /\ BucketsMatch
    /\ Approved /\ NotYet /\ PassedPlanRuns

\* A check that is added can only make a report fail.
LEMMA MoreChecks ==
    ASSUME NEW S, checks' = checks \cup S
    PROVE  /\ Passed' => Passed
           /\ Passed' => \A c \in S : c.severity = "error" => c.passed
           /\ NotCompared => NotCompared'
BY DEF Passed, NotCompared

LEMMA ErrorCounts ==
    ASSUME Passed, NEW id, NEW passed, Result(id, "error", passed) \in checks
    PROVE  passed
  <1> DEFINE r == Result(id, "error", passed)
  <1>1. r.severity = "error" /\ r.passed = passed
    BY DEF Result
  <1> QED
    BY <1>1 DEF Passed

LEMMA NoneIsNoOutcome == None \notin {"unreachable", "no_cdc", "mismatch", "no_bucket"}
BY DEF None

LEMMA GateInit == ASSUME Init PROVE GateInv
  <1>1. case \in Case /\ (case.reported.cdc <=> case.streamed # {})
    BY GateAssumption DEF Init
  <1> QED
    BY <1>1 DEF Init, GateInv, Checked, SourceIsUp, TopologyIsSource, DestinationIsUp,
       CaptureReported, BucketsMatch, Approved, NotYet, PassedPlanRuns, None

-------------------------------------------------------------------------------
(* Steps *)

LEMMA CheckSourceSafe == ASSUME GateInv, CheckSource PROVE GateInv'
  <1>1. stage' = "destination" /\ UNCHANGED <<case, outcome>> /\ (topology' <=> case.sourceUp)
    BY DEF CheckSource
  <1>2. Result("source", "error", case.sourceUp) \in checks'
    BY DEF CheckSource
  <1>3. Passed' => case.sourceUp
    BY <1>2 DEF Passed, Result
  <1>4. outcome' = None
    BY <1>1 DEF CheckSource, GateInv, NotYet
  <1>5. PassedPlanRuns'
    BY <1>4, NoneIsNoOutcome DEF PassedPlanRuns
  <1> QED
    BY <1>1, <1>3, <1>4, <1>5 DEF GateInv, Checked, SourceIsUp, TopologyIsSource, DestinationIsUp,
       CaptureReported, BucketsMatch, Approved, NotYet

LEMMA CheckDestinationSafe == ASSUME GateInv, CheckDestination PROVE GateInv'
  <1>1. stage = "destination" /\ stage' = "plan" /\ UNCHANGED <<case, topology, outcome>>
    BY DEF CheckDestination
  <1>2. Passed' => Passed
    BY MoreChecks DEF CheckDestination
  <1>3. Passed' => case.destUp
    <2>1. CASE case.capella
      <3>1. Result("destination", "error", case.apiUp) \in checks'
        BY <2>1 DEF CheckDestination
      <3>2. Passed' => case.apiUp
        BY <3>1 DEF Passed, Result
      <3>3. case.apiUp /\ ~case.destUp => Result("destination", "error", case.destUp) \in checks'
        BY <2>1 DEF CheckDestination
      <3> QED
        BY <3>2, <3>3 DEF Passed, Result
    <2>2. CASE ~case.capella
      <3>1. Result("destination", "error", case.destUp) \in checks'
        BY <2>2 DEF CheckDestination
      <3> QED
        BY <3>1 DEF Passed, Result
    <2> QED BY <2>1, <2>2
  <1>4. PassedPlanRuns'
    BY <1>1, NoneIsNoOutcome DEF GateInv, NotYet, PassedPlanRuns
  <1> QED
    BY <1>1, <1>2, <1>3, <1>4 DEF GateInv, Checked, SourceIsUp, TopologyIsSource,
       DestinationIsUp, CaptureReported, BucketsMatch, Approved, NotYet

LEMMA CheckPlanSafe == ASSUME GateInv, CheckPlan PROVE GateInv'
  <1>1. stage = "plan" /\ stage' = "vbuckets" /\ UNCHANGED <<case, topology, outcome>>
    BY DEF CheckPlan
  <1>2. Passed' => Passed
    BY MoreChecks DEF CheckPlan
  <1>3. Passed' /\ Continuous => case.reported.cdc
    <2> SUFFICES ASSUME Passed', Continuous PROVE case.reported.cdc
      OBVIOUS
    <2>1. topology
      BY <1>1, <1>2 DEF GateInv, SourceIsUp, TopologyIsSource, Checked
    <2>2. CdcResult \in checks'
      BY <2>1 DEF CheckPlan
    <2> QED
      BY <2>2 DEF CdcResult, Passed, Result
  <1>4. PassedPlanRuns'
    BY <1>1, NoneIsNoOutcome DEF GateInv, NotYet, PassedPlanRuns
  <1>5. Continuous' = Continuous
    BY <1>1 DEF Continuous
  <1> QED
    BY <1>1, <1>2, <1>3, <1>4, <1>5 DEF GateInv, Checked, SourceIsUp, TopologyIsSource,
       DestinationIsUp, CaptureReported, BucketsMatch, Approved, NotYet

LEMMA CheckVbucketsSafe == ASSUME GateInv, CheckVbuckets PROVE GateInv'
  <1>1. stage = "vbuckets" /\ stage' = "tls" /\ UNCHANGED <<case, topology, bucket, outcome>>
    BY DEF CheckVbuckets
  <1>2. Passed' => Passed
    BY MoreChecks DEF CheckVbuckets
  <1>3. Passed' /\ Continuous /\ case.native => NotCompared' \/ bucket = case.sourceV
    <2> SUFFICES ASSUME Passed', Continuous, case.native
                 PROVE  NotCompared' \/ bucket = case.sourceV
      OBVIOUS
    <2>1. VbucketResult \in checks'
      BY DEF CheckVbuckets
    <2>2. VbucketResult.id = "vbuckets"
      BY DEF VbucketResult, Result
    <2>3. VbucketResult.severity = "error" => VbucketResult.passed = (bucket = case.sourceV)
      BY DEF VbucketResult, Result
    <2> QED
      BY <2>1, <2>2, <2>3 DEF Passed, NotCompared
  <1>4. PassedPlanRuns'
    BY <1>1, NoneIsNoOutcome DEF GateInv, NotYet, PassedPlanRuns
  <1>5. Continuous' = Continuous
    BY <1>1 DEF Continuous
  <1> QED
    BY <1>1, <1>2, <1>3, <1>4, <1>5 DEF GateInv, Checked, SourceIsUp, TopologyIsSource,
       DestinationIsUp, CaptureReported, BucketsMatch, Approved, NotYet

LEMMA CheckTlsSafe == ASSUME GateInv, CheckTls PROVE GateInv'
  <1>1. stage = "tls" /\ stage' = "report" /\ UNCHANGED <<case, topology, bucket, outcome>>
    BY DEF CheckTls
  <1>2. (Passed' => Passed) /\ (NotCompared => NotCompared')
    BY MoreChecks DEF CheckTls
  <1>3. PassedPlanRuns'
    BY <1>1, NoneIsNoOutcome DEF GateInv, NotYet, PassedPlanRuns
  <1>4. Continuous' = Continuous
    BY <1>1 DEF Continuous
  <1> QED
    BY <1>1, <1>2, <1>3, <1>4 DEF GateInv, Checked, SourceIsUp, TopologyIsSource,
       DestinationIsUp, CaptureReported, BucketsMatch, Approved, NotYet

\* After the report, the checks are history.
LEMMA JudgeSafe == ASSUME GateInv, Judge PROVE GateInv'
  <1>1. stage = "report" /\ UNCHANGED <<case, topology, checks, bucket, outcome>>
    BY DEF Judge
  <1>2. Passed' = Passed /\ NotCompared' = NotCompared /\ Continuous' = Continuous
    BY <1>1 DEF Passed, NotCompared, Continuous
  <1>3. stage' \in {"provision", "done"} /\ (stage' = "provision" => Passed)
    BY DEF Judge
  <1> QED
    BY <1>1, <1>2, <1>3, NoneIsNoOutcome DEF GateInv, Checked, SourceIsUp, TopologyIsSource,
       DestinationIsUp, CaptureReported, BucketsMatch, Approved, NotYet, PassedPlanRuns, PartlyStreamed

\* A bucket that was there is left as it is.
LEMMA BucketStays ==
    ASSUME GateInv, UNCHANGED <<case, checks, outcome, topology>>,
           bucket' = bucket \/ bucket = Absent,
           stage' = stage \/ (stage = "provision" /\ stage' = "run")
    PROVE  GateInv'
  <1>1. Passed' = Passed /\ NotCompared' = NotCompared /\ Continuous' = Continuous
    BY DEF Passed, NotCompared, Continuous
  <1>2. bucket = case.sourceV => bucket' = case.sourceV
    BY GateAssumption DEF GateInv, Case, Absent
  <1> QED
    BY <1>1, <1>2 DEF GateInv, Checked, SourceIsUp, TopologyIsSource,
       DestinationIsUp, CaptureReported, BucketsMatch, Approved, NotYet, PassedPlanRuns, PartlyStreamed

LEMMA RunSafe == ASSUME GateInv, Run PROVE GateInv'
  <1>1. stage = "run" /\ stage' = "done" /\ UNCHANGED <<case, topology, checks, bucket>>
    BY DEF Run
  <1>2. Passed' = Passed /\ NotCompared' = NotCompared /\ Continuous' = Continuous
    BY <1>1 DEF Passed, NotCompared, Continuous
  <1>3. Passed
    BY <1>1 DEF GateInv, Approved
  <1>4. case.sourceUp /\ case.destUp /\ (Continuous => case.streamed # {})
    BY <1>1, <1>3 DEF GateInv, Checked, SourceIsUp, DestinationIsUp, CaptureReported
  <1>5. Continuous /\ case.native => NotCompared \/ bucket = case.sourceV
    BY <1>1, <1>3 DEF GateInv, Checked, BucketsMatch
  <1>6. case.sourceV # Absent
    BY GateAssumption DEF GateInv, Case, Absent
  <1>7. Included \subseteq Containers /\ PartlyStreamed' = PartlyStreamed
    BY <1>1 DEF GateInv, Case, Included, Specified, PartlyStreamed
  <1>9. outcome' = IF Continuous /\ ~(Included \subseteq case.streamed) THEN "no_cdc"
                   ELSE IF ~(Continuous /\ case.native) THEN "runs"
                   ELSE IF bucket = Absent THEN "no_bucket"
                   ELSE IF bucket # case.sourceV THEN "mismatch"
                   ELSE "runs"
    BY <1>4 DEF Run
  <1>10. outcome' # "unreachable"
    BY <1>9
  <1>11. outcome' = "no_cdc" => PartlyStreamed'
    <2> SUFFICES ASSUME outcome' = "no_cdc" PROVE PartlyStreamed
      BY <1>7
    <2>1. Continuous /\ ~(Included \subseteq case.streamed)
      BY <1>9
    <2>2. case.streamed # Containers
      BY <1>7, <2>1
    <2>3. case.streamed # {}
      BY <1>4, <2>1
    <2> QED
      BY <2>2, <2>3 DEF PartlyStreamed
  <1>12. outcome' \in {"mismatch", "no_bucket"} => NotCompared'
    <2> SUFFICES ASSUME outcome' \in {"mismatch", "no_bucket"} PROVE NotCompared
      BY <1>2
    <2>1. Continuous /\ case.native /\ bucket # case.sourceV
      BY <1>6, <1>9
    <2> QED
      BY <1>5, <2>1
  <1>13. PassedPlanRuns'
    BY <1>10, <1>11, <1>12 DEF PassedPlanRuns
  <1> QED
    BY <1>1, <1>2, <1>13 DEF GateInv, Checked, SourceIsUp, TopologyIsSource,
       DestinationIsUp, CaptureReported, BucketsMatch, Approved, NotYet

LEMMA GateStep == ASSUME GateInv, [Next]_vars PROVE GateInv'
  <1>1. CASE UNCHANGED vars
    BY <1>1, BucketStays DEF vars
  <1>2. CASE Provision
    BY <1>2, BucketStays DEF Provision
  <1>3. CASE BucketAppears
    BY <1>3, BucketStays DEF BucketAppears
  <1> QED
    BY <1>1, <1>2, <1>3, CheckSourceSafe, CheckDestinationSafe, CheckPlanSafe,
       CheckVbucketsSafe, CheckTlsSafe, JudgeSafe, RunSafe DEF Next

\* What run() lets pass does not fail for a reason that run() looked at, whatever the
\* source, the plan and the destination are and whoever creates the bucket meanwhile,
\* but for a source that streams some of its containers only.
THEOREM PassedPlansRun == Spec => []PassedPlanRuns
  <1>1. Init => GateInv
    BY GateInit
  <1>2. GateInv /\ [Next]_vars => GateInv'
    BY GateStep
  <1>3. GateInv => PassedPlanRuns
    BY DEF GateInv
  <1> QED
    BY <1>1, <1>2, <1>3, PTL DEF Spec

-------------------------------------------------------------------------------
(* Types *)

Severities == {"error", "warning", "info"}
Results == [id : CheckIds, severity : Severities, passed : BOOLEAN]
GateTypes == case \in Case /\ TypeOK

LEMMA ResultIsTyped ==
    ASSUME NEW id \in CheckIds, NEW severity \in Severities, NEW passed \in BOOLEAN
    PROVE  Result(id, severity, passed) \in Results
BY DEF Result, Results

\* Whatever else the rules of a check look at, they give one of the results.
LEMMA ChecksAreTyped ==
    ASSUME GateTypes
    PROVE  /\ CdcResult \in Results /\ NamingResult \in Results
           /\ VbucketResult \in Results /\ TlsResult \in Results
  <1>1. case.reported.cdc \in BOOLEAN /\ case.tls \in BOOLEAN
    BY DEF GateTypes, Case, Topology
  <1>2. {"cdc", "naming", "vbuckets", "tls"} \subseteq CheckIds
        /\ {"error", "warning", "info"} \subseteq Severities
    BY DEF CheckIds, Severities
  <1>3. CdcResult \in Results
    BY <1>1, <1>2, ResultIsTyped DEF CdcResult
  <1>4. NamingResult \in Results
    <2> DEFINE ok == \A c, d \in Counted : Expected(c) = Expected(d) => c = d
    <2>1. ok \in BOOLEAN
      OBVIOUS
    <2> HIDE DEF ok
    <2>2. Result("naming", "warning", ok) \in Results
      BY <1>2, <2>1, ResultIsTyped
    <2> QED
      BY <2>2 DEF NamingResult, ok
  <1>5. VbucketResult \in Results
    BY <1>2, ResultIsTyped DEF VbucketResult
  <1>6. TlsResult \in Results
    BY <1>1, <1>2, ResultIsTyped DEF TlsResult
  <1> QED
    BY <1>3, <1>4, <1>5, <1>6

LEMMA GateTypesStep == ASSUME GateTypes, [Next]_vars PROVE GateTypes'
  <1>0. /\ case.sourceUp \in BOOLEAN /\ case.destUp \in BOOLEAN /\ case.apiUp \in BOOLEAN
        /\ case.capella \in BOOLEAN /\ case.newV \in Counts /\ checks \in SUBSET Results
    BY DEF GateTypes, Case, TypeOK, Results, Severities
  <1>1. case' = case
    BY DEF Next, vars, CheckSource, CheckDestination, CheckPlan, CheckVbuckets, CheckTls,
       Judge, Provision, Run, BucketAppears
  <1>2. /\ {"source", "edition", "latency", "destination", "size", "capacity"} \subseteq CheckIds
        /\ {"error", "warning", "info"} \subseteq Severities /\ TRUE \in BOOLEAN
    BY DEF CheckIds, Severities
  <1>3. TypeOK <=> /\ stage \in {"source", "destination", "plan", "vbuckets", "tls", "report",
                                "provision", "run", "done"}
                   /\ topology \in BOOLEAN /\ target \in BOOLEAN /\ checks \in SUBSET Results
                   /\ bucket \in Counts \cup {Absent}
                   /\ outcome \in {None, "runs", "unreachable", "no_cdc", "no_bucket", "mismatch"}
    BY DEF TypeOK, Results, Severities
  <1>4. checks' \in SUBSET Results
    <2>1. CASE CheckSource
      <3>1. PICK quick \in BOOLEAN :
              checks' = {Result("source", "error", case.sourceUp)} \cup
                        (IF case.sourceUp
                         THEN {Result("edition", "info", TRUE), Result("latency", "warning", quick)}
                         ELSE {})
        BY <2>1 DEF CheckSource
      <3>2. /\ Result("source", "error", case.sourceUp) \in Results
            /\ Result("edition", "info", TRUE) \in Results
            /\ Result("latency", "warning", quick) \in Results
        BY <1>0, <1>2, ResultIsTyped
      <3> QED
        BY <3>1, <3>2
    <2>2. CASE CheckDestination
      <3>1. /\ Result("destination", "error", case.apiUp) \in Results
            /\ Result("destination", "error", case.destUp) \in Results
        BY <1>0, <1>2, ResultIsTyped
      <3> QED
        BY <1>0, <2>2, <3>1 DEF CheckDestination
    <2>3. CASE CheckPlan
      <3>1. (case.large = {}) \in BOOLEAN
        OBVIOUS
      <3>2. /\ Result("size", "warning", case.large = {}) \in Results
            /\ Result("capacity", "warning", TRUE) \in Results
        BY <1>2, <3>1, ResultIsTyped
      <3> QED
        BY <1>0, <2>3, <3>2, ChecksAreTyped DEF CheckPlan
    <2>4. CASE CheckVbuckets
      BY <1>0, <2>4, ChecksAreTyped DEF CheckVbuckets
    <2>5. CASE CheckTls
      BY <1>0, <2>5, ChecksAreTyped DEF CheckTls
    <2>6. CASE UNCHANGED checks
      BY <1>0, <2>6
    <2> QED
      BY <2>1, <2>2, <2>3, <2>4, <2>5, <2>6 DEF Next, vars, Judge, Provision, Run, BucketAppears
  <1>5. topology' \in BOOLEAN /\ target' \in BOOLEAN
    BY <1>0, <1>3 DEF GateTypes, Next, vars, CheckSource, CheckDestination, CheckPlan,
       CheckVbuckets, CheckTls, Judge, Provision, Run, BucketAppears
  <1>6. bucket' \in Counts \cup {Absent}
    <2>1. NewCount \in Counts
      BY <1>0, GateAssumption DEF NewCount
    <2> QED
      BY <1>3, <2>1 DEF GateTypes, Next, vars, CheckSource, CheckDestination, CheckPlan,
         CheckVbuckets, CheckTls, Judge, Provision, Run, BucketAppears
  <1>7. /\ stage' \in {"source", "destination", "plan", "vbuckets", "tls", "report",
                       "provision", "run", "done"}
        /\ outcome' \in {None, "runs", "unreachable", "no_cdc", "no_bucket", "mismatch"}
    BY <1>3 DEF GateTypes, Next, vars, CheckSource, CheckDestination, CheckPlan,
       CheckVbuckets, CheckTls, Judge, Provision, Run, BucketAppears
  <1> QED
    BY <1>1, <1>4, <1>5, <1>6, <1>7 DEF GateTypes, TypeOK, Results, Severities

\* Every variable holds values of its kind: every check gives a known id, a severity the
\* gate knows and a yes or no, for every source, plan and destination.
THEOREM GateTypeCorrect == Spec => []TypeOK
  <1>1. Init => GateTypes
    BY GateAssumption DEF Init, GateTypes, TypeOK, Case
  <1>2. GateTypes /\ [Next]_vars => GateTypes'
    BY GateTypesStep
  <1>3. GateTypes => TypeOK
    BY DEF GateTypes
  <1> QED
    BY <1>1, <1>2, <1>3, PTL DEF Spec

-------------------------------------------------------------------------------
(* The naming check *)

NoCollision == \A c, d \in Counted : Expected(c) = Expected(d) => c = d
NamingPassed == Result("naming", "warning", TRUE) \in checks
NamingInv ==
    /\ case \in Case
    /\ NamingPassed => NoCollision

\* Only _check_naming_compat makes a result of this kind.
LEMMA NamingStep == ASSUME NamingInv, [Next]_vars PROVE NamingInv'
  <1>1. case' = case
    BY DEF Next, vars, CheckSource, CheckDestination, CheckPlan, CheckVbuckets, CheckTls,
       Judge, Provision, Run, BucketAppears
  <1>2. NoCollision' = NoCollision
    BY <1>1 DEF NoCollision, Counted, Specified, Expected
  <1>3. CASE CheckPlan
    <2>1. NamingPassed' => NamingPassed \/ NamingResult.passed
      BY <1>3 DEF CheckPlan, NamingPassed, CdcResult, NamingResult, Result
    <2>2. NamingResult.passed = NoCollision
      BY DEF NamingResult, Result, NoCollision
    <2> QED
      BY <1>1, <1>2, <2>1, <2>2 DEF NamingInv
  <1>4. CASE CheckSource
    BY <1>1, <1>2, <1>4 DEF CheckSource, NamingInv, NamingPassed, Result
  <1>5. CASE CheckDestination
    BY <1>1, <1>2, <1>5 DEF CheckDestination, NamingInv, NamingPassed, Result
  <1>6. CASE CheckVbuckets
    BY <1>1, <1>2, <1>6 DEF CheckVbuckets, VbucketResult, NamingInv, NamingPassed, Result
  <1>7. CASE CheckTls
    BY <1>1, <1>2, <1>7 DEF CheckTls, TlsResult, NamingInv, NamingPassed, Result
  <1>8. CASE Judge \/ Provision \/ Run \/ BucketAppears \/ UNCHANGED vars
    BY <1>1, <1>2, <1>8 DEF Judge, Provision, Run, BucketAppears, vars, NamingInv, NamingPassed
  <1> QED
    BY <1>3, <1>4, <1>5, <1>6, <1>7, <1>8 DEF Next

\* Where all containers are given a scope or none is, the target map sends two
\* containers to one collection only if the check expects it.
LEMMA CollisionExpected ==
    ASSUME case \in Case, Uniform, NEW c \in Included, NEW d \in Included, Target(c) = Target(d)
    PROVE  c \in Counted /\ d \in Counted /\ Expected(c) = Expected(d)
  <1>1. Specified \subseteq Containers
    BY DEF Specified, Case
  <1>2. c \in Counted /\ d \in Counted
    BY <1>1 DEF Included, Counted
  <1>3. c \in Specified /\ d \in Specified
    BY DEF Included
  <1>4. (case.specs[c].scope = None) <=> (case.specs[d].scope = None)
    BY DEF Uniform
  <1>5. Target(c)[1] = Target(d)[1] /\ Target(c)[2] = Target(d)[2]
    OBVIOUS
  <1>6. Expected(c)[2] = Expected(d)[2]
    BY <1>3, <1>5 DEF Target, Expected
  <1>7. Expected(c)[1] = Expected(d)[1]
    BY <1>3, <1>4, <1>5 DEF Target, Expected
  <1> QED
    BY <1>2, <1>3, <1>6, <1>7 DEF Expected

\* The naming check misses no collision of such a plan, whatever sanitization does.
THEOREM NamingIsPredicted == Spec => []NamingPredicts
  <1>1. Init => NamingInv
    BY GateAssumption DEF Init, NamingInv, NamingPassed
  <1>2. NamingInv /\ [Next]_vars => NamingInv'
    BY NamingStep
  <1>3. NamingInv => NamingPredicts
    BY CollisionExpected DEF NamingInv, NamingPassed, NoCollision, NamingPredicts, NamingAgrees
  <1> QED
    BY <1>1, <1>2, <1>3, PTL DEF Spec

-------------------------------------------------------------------------------
(* The advice *)

CaptureInv == case \in Cases /\ \A c \in checks : c.id = "cdc" => c = CdcResult

LEMMA CaptureStep == ASSUME CaptureInv, [Next]_vars PROVE CaptureInv'
  <1>1. case' = case
    BY DEF Next, vars, CheckSource, CheckDestination, CheckPlan, CheckVbuckets, CheckTls,
       Judge, Provision, Run, BucketAppears
  <1>2. CdcResult' = CdcResult
    BY <1>1 DEF CdcResult, Continuous
  <1>3. CASE CheckPlan
    BY <1>1, <1>2, <1>3 DEF CheckPlan, CaptureInv, NamingResult, Result
  <1>4. CASE CheckSource
    BY <1>1, <1>4 DEF CheckSource, CaptureInv, Result
  <1>5. CASE CheckDestination
    BY <1>1, <1>2, <1>5 DEF CheckDestination, CaptureInv, Result
  <1>6. CASE CheckVbuckets
    BY <1>1, <1>2, <1>6 DEF CheckVbuckets, VbucketResult, CaptureInv, Result
  <1>7. CASE CheckTls
    BY <1>1, <1>2, <1>7 DEF CheckTls, TlsResult, CaptureInv, Result
  <1>8. CASE Judge \/ Provision \/ Run \/ BucketAppears \/ UNCHANGED vars
    BY <1>1, <1>2, <1>8 DEF Judge, Provision, Run, BucketAppears, vars, CaptureInv
  <1> QED
    BY <1>3, <1>4, <1>5, <1>6, <1>7, <1>8 DEF Next

\* The advice asks for change capture only where there is some.
LEMMA AdvisedIsPossible ==
    ASSUME CaptureInv, case.strategy = AdviceFor(case), NEW c \in checks, c.id = "cdc"
    PROVE  c.passed
  <1>1. c = CdcResult
    BY DEF CaptureInv
  <1>2. Continuous => case.reported.cdc
    BY DEF Continuous, ContinuousStrategies, AdviceFor, Advised
  <1> QED
    BY <1>1, <1>2 DEF CdcResult, Result

\* What fits the window still does with more workers and less data.
LEMMA FitsMonotone ==
    ASSUME NEW a, NEW b, NEW i \in 1..64, NEW j \in 1..64,
           Total(a) \in Int, Total(b) \in Int, Total(b) <= Total(a), i <= j,
           FitsWindow(a, i)
    PROVE  FitsWindow(b, j)
  <1>1. Workers(i) \in Nat /\ Workers(j) \in Nat /\ Workers(i) <= Workers(j)
    BY SMT DEF Workers, MaxWorkers
  <1> QED
    BY <1>1, SMT DEF FitsWindow, ShortWindow, MbPerSecondPerWorker

LEMMA OneTimeLoadMonotone ==
    ASSUME NEW a \in Cases, NEW b \in Cases, AdviceFor(a) = "full_load",
           b.wanted = a.wanted, b.reported.cdc = a.reported.cdc,
           Total(b.reported) <= Total(a.reported), b.workers >= a.workers
    PROVE  AdviceFor(b) = "full_load"
  <1>1. a \in Case /\ b \in Case
    BY GateAssumption
  <1>2. a.reported \in Topology /\ b.reported \in Topology
        /\ a.workers \in 1..64 /\ b.workers \in 1..64
    BY <1>1 DEF Case
  <1>3. Total(a.reported) \in Int /\ Total(b.reported) \in Int
    BY <1>2, SMT DEF Topology, Total, Unknown
  <1>4. a.workers <= b.workers
    BY <1>2, SMT
  <1>5. FitsWindow(a.reported, a.workers) => FitsWindow(b.reported, b.workers)
    BY <1>2, <1>3, <1>4, FitsMonotone
  <1> QED
    BY <1>5 DEF AdviceFor, Advised

\* recommend_replication_mode never advises what the gate refuses for want of change
\* capture, and is monotone in the size of the source and the number of workers.
THEOREM AdviceIsSound == Spec => []AdviceHolds
  <1>1. Init => CaptureInv
    BY DEF Init, CaptureInv
  <1>2. CaptureInv /\ [Next]_vars => CaptureInv'
    BY CaptureStep
  <1>3. CaptureInv => AdviceHolds
    BY AdvisedIsPossible, OneTimeLoadMonotone DEF CaptureInv, AdviceHolds
  <1> QED
    BY <1>1, <1>2, <1>3, PTL DEF Spec
================================================================================
