--------------------------- MODULE XdcrManagerProofs ---------------------------
(***************************************************************************)
(* What the set-up and the end of replications keep true on the source     *)
(* cluster: proofs for every number of migrations, references, hosts and   *)
(* attempts.                                                               *)
(***************************************************************************)
EXTENDS XdcrManager, TLAPS

(* The inductive invariant. *)

\* The attempts are counted from the moment the reference is there.
TriesCounted ==
    \A m \in Migrations :
       /\ stage[m] \in {"register", "list", "liststale", "delete", "retry"} => tries[m] = 0
       /\ At(m, "link") => tries[m] < Attempts

\* A replication has its reference, and keeps both until its migration ends.
LinksHaveRefs ==
    /\ links \subseteq refs
    /\ \A m \in Migrations :
          /\ At(m, "linked") => m \in links
          /\ At(m, "replicating") => m \in links \cap known

\* What has replicated is not set up again, and is torn down in order.
KnownEnds ==
    \A m \in Migrations :
       /\ m \in known => stage[m] \in {"replicating", "unlink", "unref", "failed", "stopped"}
       /\ ~faulty /\ At(m, "unref") => m \notin links
       /\ ~faulty /\ At(m, "stopped") /\ m \in known => m \notin refs \cup links

XdcrInv == TypeOK /\ TriesCounted /\ LinksHaveRefs /\ KnownEnds

LEMMA XdcrInit == ASSUME Init PROVE XdcrInv
  <1>1. refs \subseteq Names /\ links \subseteq refs
    BY DEF Init, Leftover, Names
  <1>2. 0 \in 0..Attempts /\ {} \in SUBSET Names
    BY XdcrAssumption, SMT
  <1>3. stage \in [Migrations -> Stages] /\ stale \in [Migrations -> SUBSET Names]
    BY <1>2 DEF Init, Stages
  <1>4. tries \in [Migrations -> 0..Attempts]
    BY <1>2 DEF Init
  <1>5. TypeOK
    BY <1>1, <1>3, <1>4 DEF Init, TypeOK
  <1>6. 0 < Attempts
    BY XdcrAssumption, SMT
  <1> QED
    BY <1>1, <1>5, <1>6 DEF Init, XdcrInv, TriesCounted, LinksHaveRefs, KnownEnds, At

-------------------------------------------------------------------------------
(* Steps *)

LEMMA BeginSafe == ASSUME XdcrInv, NEW m \in Migrations, Begin(m) PROVE XdcrInv'
  <1>1. TypeOK'
    BY SMT, XdcrAssumption DEF Begin, At, Goto, XdcrInv, TypeOK, TriesCounted, Stages, SetUp, TearDown, Names
  <1>2. TriesCounted'
    BY SMT, XdcrAssumption DEF Begin, At, Goto, XdcrInv, TypeOK, TriesCounted
  <1>3. LinksHaveRefs'
    BY SMT DEF Begin, At, Goto, XdcrInv, TypeOK, LinksHaveRefs
  <1>4. KnownEnds'
    BY SMT DEF Begin, At, Goto, XdcrInv, TypeOK, KnownEnds
  <1> QED
    BY <1>1, <1>2, <1>3, <1>4 DEF XdcrInv

LEMMA RegisterSafe == ASSUME XdcrInv, NEW m \in Migrations, Register(m) PROVE XdcrInv'
  <1>1. TypeOK'
    BY SMT, XdcrAssumption DEF Register, At, Goto, Taken, Answered, XdcrInv, TypeOK, TriesCounted, Stages, SetUp, TearDown, Names
  <1>2. TriesCounted'
    BY SMT, XdcrAssumption DEF Register, At, Goto, Taken, Answered, XdcrInv, TypeOK, TriesCounted
  <1>3. LinksHaveRefs'
    BY SMT DEF Register, At, Goto, Taken, Answered, XdcrInv, TypeOK, LinksHaveRefs
  <1>4. KnownEnds'
    BY SMT DEF Register, At, Goto, Taken, Answered, XdcrInv, TypeOK, KnownEnds
  <1> QED
    BY <1>1, <1>2, <1>3, <1>4 DEF XdcrInv

LEMMA ListSafe == ASSUME XdcrInv, NEW m \in Migrations, List(m) PROVE XdcrInv'
  <1>1. TypeOK'
    BY SMT, XdcrAssumption DEF List, At, Goto, Answered, XdcrInv, TypeOK, TriesCounted, Stages, SetUp, TearDown, Names
  <1>2. TriesCounted'
    BY SMT, XdcrAssumption DEF List, At, Goto, Answered, XdcrInv, TypeOK, TriesCounted
  <1>3. LinksHaveRefs'
    BY SMT DEF List, At, Goto, Answered, XdcrInv, TypeOK, LinksHaveRefs
  <1>4. KnownEnds'
    BY SMT DEF List, At, Goto, Answered, XdcrInv, TypeOK, KnownEnds
  <1> QED
    BY <1>1, <1>2, <1>3, <1>4 DEF XdcrInv

LEMMA ListStaleSafe == ASSUME XdcrInv, NEW m \in Migrations, ListStale(m) PROVE XdcrInv'
  <1>1. TypeOK'
    BY SMT, XdcrAssumption DEF ListStale, At, Goto, AfterRemoval, SameHost, XdcrInv, TypeOK, TriesCounted, Stages, SetUp, TearDown, Names
  <1>2. TriesCounted'
    BY SMT, XdcrAssumption DEF ListStale, At, Goto, AfterRemoval, SameHost, XdcrInv, TypeOK, TriesCounted
  <1>3. LinksHaveRefs'
    BY SMT DEF ListStale, At, Goto, AfterRemoval, SameHost, XdcrInv, TypeOK, LinksHaveRefs
  <1>4. KnownEnds'
    BY SMT DEF ListStale, At, Goto, AfterRemoval, SameHost, XdcrInv, TypeOK, KnownEnds
  <1> QED
    BY <1>1, <1>2, <1>3, <1>4 DEF XdcrInv

LEMMA DeleteStaleSafe == ASSUME XdcrInv, NEW m \in Migrations, NEW n \in stale[m], DeleteStale(m, n) PROVE XdcrInv'
  <1>1. TypeOK'
    BY SMT, XdcrAssumption DEF DeleteStale, At, Goto, AfterRemoval, XdcrInv, TypeOK, TriesCounted, Stages, SetUp, TearDown, Names
  <1>2. TriesCounted'
    BY SMT, XdcrAssumption DEF DeleteStale, At, Goto, AfterRemoval, XdcrInv, TypeOK, TriesCounted
  <1>3. LinksHaveRefs'
    BY SMT DEF DeleteStale, At, Goto, AfterRemoval, XdcrInv, TypeOK, LinksHaveRefs
  <1>4. KnownEnds'
    BY SMT DEF DeleteStale, At, Goto, AfterRemoval, XdcrInv, TypeOK, KnownEnds
  <1> QED
    BY <1>1, <1>2, <1>3, <1>4 DEF XdcrInv

LEMMA DeleteRaisesSafe == ASSUME XdcrInv, NEW m \in Migrations, NEW n \in stale[m], DeleteRaises(m, n) PROVE XdcrInv'
  <1>1. TypeOK'
    BY SMT, XdcrAssumption DEF DeleteRaises, At, Goto, AfterRemoval, XdcrInv, TypeOK, TriesCounted, Stages, SetUp, TearDown, Names
  <1>2. TriesCounted'
    BY SMT, XdcrAssumption DEF DeleteRaises, At, Goto, AfterRemoval, XdcrInv, TypeOK, TriesCounted
  <1>3. LinksHaveRefs'
    BY SMT DEF DeleteRaises, At, Goto, AfterRemoval, XdcrInv, TypeOK, LinksHaveRefs
  <1>4. KnownEnds'
    BY SMT DEF DeleteRaises, At, Goto, AfterRemoval, XdcrInv, TypeOK, KnownEnds
  <1> QED
    BY <1>1, <1>2, <1>3, <1>4 DEF XdcrInv

LEMMA RetrySafe == ASSUME XdcrInv, NEW m \in Migrations, Retry(m) PROVE XdcrInv'
  <1>1. TypeOK'
    BY SMT, XdcrAssumption DEF Retry, At, Goto, Taken, Answered, XdcrInv, TypeOK, TriesCounted, Stages, SetUp, TearDown, Names
  <1>2. TriesCounted'
    BY SMT, XdcrAssumption DEF Retry, At, Goto, Taken, Answered, XdcrInv, TypeOK, TriesCounted
  <1>3. LinksHaveRefs'
    BY SMT DEF Retry, At, Goto, Taken, Answered, XdcrInv, TypeOK, LinksHaveRefs
  <1>4. KnownEnds'
    BY SMT DEF Retry, At, Goto, Taken, Answered, XdcrInv, TypeOK, KnownEnds
  <1> QED
    BY <1>1, <1>2, <1>3, <1>4 DEF XdcrInv

LEMMA CreateReplicationSafe == ASSUME XdcrInv, NEW m \in Migrations, CreateReplication(m) PROVE XdcrInv'
  <1>1. TypeOK'
    BY SMT, XdcrAssumption DEF CreateReplication, At, Goto, Answered, XdcrInv, TypeOK, TriesCounted, Stages, SetUp, TearDown, Names
  <1>2. TriesCounted'
    BY SMT, XdcrAssumption DEF CreateReplication, At, Goto, Answered, XdcrInv, TypeOK, TriesCounted
  <1>3. LinksHaveRefs'
    BY SMT DEF CreateReplication, At, Goto, Answered, XdcrInv, TypeOK, LinksHaveRefs
  <1>4. KnownEnds'
    BY SMT DEF CreateReplication, At, Goto, Answered, XdcrInv, TypeOK, KnownEnds
  <1> QED
    BY <1>1, <1>2, <1>3, <1>4 DEF XdcrInv

LEMMA NotVisibleSafe == ASSUME XdcrInv, NEW m \in Migrations, NotVisible(m) PROVE XdcrInv'
  <1>1. TypeOK'
    BY SMT, XdcrAssumption DEF NotVisible, At, Goto, Unfound, XdcrInv, TypeOK, TriesCounted, Stages, SetUp, TearDown, Names
  <1>2. TriesCounted'
    BY SMT, XdcrAssumption DEF NotVisible, At, Goto, Unfound, XdcrInv, TypeOK, TriesCounted
  <1>3. LinksHaveRefs'
    BY SMT DEF NotVisible, At, Goto, Unfound, XdcrInv, TypeOK, LinksHaveRefs
  <1>4. KnownEnds'
    BY SMT DEF NotVisible, At, Goto, Unfound, XdcrInv, TypeOK, KnownEnds
  <1> QED
    BY <1>1, <1>2, <1>3, <1>4 DEF XdcrInv

LEMMA RecordSafe == ASSUME XdcrInv, NEW m \in Migrations, Record(m) PROVE XdcrInv'
  <1>1. TypeOK'
    BY SMT, XdcrAssumption DEF Record, At, Goto, XdcrInv, TypeOK, TriesCounted, Stages, SetUp, TearDown, Names
  <1>2. TriesCounted'
    BY SMT, XdcrAssumption DEF Record, At, Goto, XdcrInv, TypeOK, TriesCounted
  <1>3. LinksHaveRefs'
    BY SMT DEF Record, At, Goto, XdcrInv, TypeOK, LinksHaveRefs
  <1>4. KnownEnds'
    BY SMT DEF Record, At, Goto, XdcrInv, TypeOK, KnownEnds
  <1> QED
    BY <1>1, <1>2, <1>3, <1>4 DEF XdcrInv

LEMMA SetUpRaisesSafe == ASSUME XdcrInv, NEW m \in Migrations, SetUpRaises(m) PROVE XdcrInv'
  <1>1. TypeOK'
    BY SMT, XdcrAssumption DEF SetUpRaises, At, Goto, XdcrInv, TypeOK, TriesCounted, Stages, SetUp, TearDown, Names
  <1>2. TriesCounted'
    BY SMT, XdcrAssumption DEF SetUpRaises, At, Goto, XdcrInv, TypeOK, TriesCounted
  <1>3. LinksHaveRefs'
    BY SMT DEF SetUpRaises, At, Goto, XdcrInv, TypeOK, LinksHaveRefs
  <1>4. KnownEnds'
    BY SMT DEF SetUpRaises, At, Goto, XdcrInv, TypeOK, KnownEnds
  <1> QED
    BY <1>1, <1>2, <1>3, <1>4 DEF XdcrInv

LEMMA StopSafe == ASSUME XdcrInv, NEW m \in Migrations, Stop(m) PROVE XdcrInv'
  <1>1. TypeOK'
    BY SMT, XdcrAssumption DEF Stop, At, Goto, XdcrInv, TypeOK, TriesCounted, Stages, SetUp, TearDown, Names
  <1>2. TriesCounted'
    BY SMT, XdcrAssumption DEF Stop, At, Goto, XdcrInv, TypeOK, TriesCounted
  <1>3. LinksHaveRefs'
    BY SMT DEF Stop, At, Goto, XdcrInv, TypeOK, LinksHaveRefs
  <1>4. KnownEnds'
    BY SMT DEF Stop, At, Goto, XdcrInv, TypeOK, KnownEnds
  <1> QED
    BY <1>1, <1>2, <1>3, <1>4 DEF XdcrInv

LEMMA RollbackSafe == ASSUME XdcrInv, NEW m \in Migrations, Rollback(m) PROVE XdcrInv'
  <1>1. TypeOK'
    BY SMT, XdcrAssumption DEF Rollback, At, Goto, XdcrInv, TypeOK, TriesCounted, Stages, SetUp, TearDown, Names
  <1>2. TriesCounted'
    BY SMT, XdcrAssumption DEF Rollback, At, Goto, XdcrInv, TypeOK, TriesCounted
  <1>3. LinksHaveRefs'
    BY SMT DEF Rollback, At, Goto, XdcrInv, TypeOK, LinksHaveRefs
  <1>4. KnownEnds'
    BY SMT DEF Rollback, At, Goto, XdcrInv, TypeOK, KnownEnds
  <1> QED
    BY <1>1, <1>2, <1>3, <1>4 DEF XdcrInv

LEMMA RemoveReplicationSafe == ASSUME XdcrInv, NEW m \in Migrations, RemoveReplication(m) PROVE XdcrInv'
  <1>1. TypeOK'
    BY SMT, XdcrAssumption DEF RemoveReplication, At, Goto, XdcrInv, TypeOK, TriesCounted, Stages, SetUp, TearDown, Names
  <1>2. TriesCounted'
    BY SMT, XdcrAssumption DEF RemoveReplication, At, Goto, XdcrInv, TypeOK, TriesCounted
  <1>3. LinksHaveRefs'
    BY SMT DEF RemoveReplication, At, Goto, XdcrInv, TypeOK, LinksHaveRefs
  <1>4. KnownEnds'
    BY SMT DEF RemoveReplication, At, Goto, XdcrInv, TypeOK, KnownEnds
  <1> QED
    BY <1>1, <1>2, <1>3, <1>4 DEF XdcrInv

LEMMA RemoveRefSafe == ASSUME XdcrInv, NEW m \in Migrations, RemoveRef(m) PROVE XdcrInv'
  <1>1. TypeOK'
    BY SMT, XdcrAssumption DEF RemoveRef, At, Goto, XdcrInv, TypeOK, TriesCounted, Stages, SetUp, TearDown, Names
  <1>2. TriesCounted'
    BY SMT, XdcrAssumption DEF RemoveRef, At, Goto, XdcrInv, TypeOK, TriesCounted
  <1>3. LinksHaveRefs'
    BY SMT DEF RemoveRef, At, Goto, XdcrInv, TypeOK, LinksHaveRefs
  <1>4. KnownEnds'
    BY SMT DEF RemoveRef, At, Goto, XdcrInv, TypeOK, KnownEnds
  <1> QED
    BY <1>1, <1>2, <1>3, <1>4 DEF XdcrInv

LEMMA RestartSafe == ASSUME XdcrInv, Restart PROVE XdcrInv'
  <1>1. TypeOK'
    BY SMT DEF Restart, XdcrInv, TypeOK, Stages, SetUp, TearDown
  <1>2. TriesCounted'
    BY SMT DEF Restart, XdcrInv, TypeOK, TriesCounted, At, SetUp, TearDown
  <1>3. LinksHaveRefs'
    BY SMT DEF Restart, XdcrInv, TypeOK, LinksHaveRefs, At, SetUp, TearDown
  <1>4. KnownEnds'
    BY SMT DEF Restart, XdcrInv, TypeOK, KnownEnds, At, SetUp, TearDown
  <1> QED
    BY <1>1, <1>2, <1>3, <1>4 DEF XdcrInv

LEMMA XdcrStep == ASSUME XdcrInv, [Next]_vars PROVE XdcrInv'
  <1>1. CASE UNCHANGED vars
    BY <1>1 DEF vars, XdcrInv, TypeOK, TriesCounted, LinksHaveRefs, KnownEnds, At
  <1>2. ASSUME NEW m \in Migrations, Step(m) PROVE XdcrInv'
    BY <1>2, RegisterSafe, ListSafe, ListStaleSafe, RetrySafe, DeleteStaleSafe, DeleteRaisesSafe,
       CreateReplicationSafe, NotVisibleSafe, RecordSafe, SetUpRaisesSafe,
       RemoveReplicationSafe, RemoveRefSafe DEF Step
  <1>3. ASSUME NEW m \in Migrations, Request(m) PROVE XdcrInv'
    BY <1>3, BeginSafe, StopSafe, RollbackSafe DEF Request
  <1> QED
    BY <1>1, <1>2, <1>3, RestartSafe DEF Next

-------------------------------------------------------------------------------
(* Theorems *)

\* Every variable holds values of its kind; create_remote_cluster_ref's caller never
\* makes more than max_attempts attempts.
THEOREM XdcrTypeCorrect == Spec => []TypeOK
  <1>1. Init => XdcrInv
    BY XdcrInit
  <1>2. XdcrInv /\ [Next]_vars => XdcrInv'
    BY XdcrStep
  <1>3. XdcrInv => TypeOK
    BY DEF XdcrInv
  <1> QED
    BY <1>1, <1>2, <1>3, PTL DEF Spec

\* What is shown as REPLICATING is replicated, whatever other migrations register,
\* delete or tear down on the source cluster, and however requests fail.
THEOREM ReplicatingMeansReplicated == Spec => []ReplicatingIsReplicated
  <1>1. Init => XdcrInv
    BY XdcrInit
  <1>2. XdcrInv /\ [Next]_vars => XdcrInv'
    BY XdcrStep
  <1>3. XdcrInv => ReplicatingIsReplicated
    BY DEF XdcrInv, LinksHaveRefs, ReplicatingIsReplicated
  <1> QED
    BY <1>1, <1>2, <1>3, PTL DEF Spec

\* Where requests do not fail, a migration that replicated leaves nothing behind when
\* it is stopped or rolled back, also after a restart in between.
THEOREM StoppedLeavesNothing == Spec => []StopLeavesNothing
  <1>1. Init => XdcrInv
    BY XdcrInit
  <1>2. XdcrInv /\ [Next]_vars => XdcrInv'
    BY XdcrStep
  <1>3. XdcrInv => StopLeavesNothing
    BY DEF XdcrInv, KnownEnds, StopLeavesNothing
  <1> QED
    BY <1>1, <1>2, <1>3, PTL DEF Spec
================================================================================
