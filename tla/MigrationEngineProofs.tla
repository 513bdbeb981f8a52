------------------------ MODULE MigrationEngineProofs ------------------------
(***************************************************************************)
(* Theorems about MigrationEngine, for every set of tasks, containers and  *)
(* offered requests, every budget and every plan.                          *)
(***************************************************************************)
EXTENDS MigrationEngine, TLAPS

\* Every step is one of these actions; the proofs below take them in this order.
LEMMA NextCases ==
    ASSUME Next
    PROVE  \/ Restart
           \/ \E t \in Tasks : Validate(t) \/ Approve(t) \/ Start(t) \/ Delete(t)
           \/ \E t \in Tasks, cutover \in BOOLEAN : Stop(t, cutover)
           \/ \E t \in Tasks, purge \in BOOLEAN : Rollback(t, purge)
           \/ \E t \in Tasks : ValidateFinish(t) \/ ValidateRaises(t)
           \/ \E t \in Tasks : RunEnter(t) \/ BucketReady(t) \/ SetupRaises(t)
                                  \/ CollectionsReady(t)
           \/ \E t \in Tasks, c \in Containers : LoadBatch(t, c) \/ ContainerLoaded(t, c)
           \/ \E t \in Tasks : LoadDone(t) \/ NativeLoadFails(t) \/ AfterLoad(t)
           \/ \E t \in Tasks : RefCreated(t) \/ ReplicationCreated(t)
                                  \/ ReplicationRecorded(t)
           \/ \E t \in Tasks : MonitorEvent(t) \/ MonitorExit(t) \/ EventApplied(t)
           \/ \E t \in Tasks : Verified(t) \/ RunFails(t) \/ CutoverVerified(t)
                                  \/ CutoverRaises(t)
           \/ \E t \in Tasks : RollbackResume(t) \/ PurgeDone(t) \/ PurgeFails(t)
           \/ \E t \in Tasks, c \in Containers : PurgeContainer(t, c)
  BY DEF Next, Request, RunStep, HandlerStep, WorldStep

-------------------------------------------------------------------------------
(* The types of the building blocks *)

\* The field updates the actions make give records again.
LEMMA RecordUpdates ==
    ASSUME NEW r \in Record, NEW p \in Phases, NEW b \in BOOLEAN, NEW c \in BOOLEAN
    PROVE  /\ InPhase(r, p) \in Record
           /\ [r EXCEPT !.phase = p, !.approved = b] \in Record
           /\ [r EXCEPT !.passed = b, !.phase = p] \in Record
           /\ [r EXCEPT !.active = b, !.phase = p] \in Record
           /\ [r EXCEPT !.phase = p, !.active = b] \in Record
           /\ [r EXCEPT !.replId = b] \in Record
           /\ [r EXCEPT !.phase = p, !.purged = b] \in Record
           /\ [r EXCEPT !.phase = p, !.active = b, !.purged = c] \in Record
  BY DEF Record, InPhase

\* Emitting a record leaves a record in the variable, the store and the file.
LEMMA EmitType ==
    ASSUME NEW r \in Record, Emit(r)
    PROVE  rec' \in Record /\ stored' \in BOOLEAN /\ disk' \in SUBSET Record
  BY DEF Emit

\* Not emitting keeps them.
LEMMA NoEmitType ==
    ASSUME TypeOK, NoEmit
    PROVE  rec' \in Record /\ stored' \in BOOLEAN /\ disk' \in SUBSET Record
  BY DEF NoEmit, TypeOK

\* A task that moves to a stage is at a stage.
LEMMA GotoType ==
    ASSUME TypeOK, NEW t \in Tasks, NEW s \in Stages, Goto(t, s)
    PROVE  task' \in [Tasks -> Stages]
  BY DEF Goto, TypeOK

\* What remains to be done is a set of containers.
LEMMA RemainingType ==
    ASSUME TypeOK, NEW t \in Tasks, NEW cs \in SUBSET Containers, Remaining(t, cs)
    PROVE  todo' \in [Tasks -> SUBSET Containers]
  BY DEF Remaining, TypeOK

\* Using up one request keeps the budget natural.
LEMMA BudgetType ==
    ASSUME TypeOK, NEW q \in Requests \cup {"restart"}, budget[q] > 0,
           budget' = [budget EXCEPT ![q] = @ - 1]
    PROVE  budget' \in [Requests \cup {"restart"} -> Nat]
<1>1. budget[q] \in Nat /\ budget[q] - 1 \in Nat
  BY DEF TypeOK
<1>2. QED
  BY <1>1 DEF TypeOK

\* A request that was accepted used one of its own.
LEMMA AskType ==
    ASSUME TypeOK, NEW t \in Tasks, NEW q \in Requests, Ask(t, q)
    PROVE  budget' \in [Requests \cup {"restart"} -> Nat]
  BY BudgetType DEF Ask

-------------------------------------------------------------------------------

LEMMA TypeStep ==
    ASSUME TypeOK, [Next]_vars
    PROVE  TypeOK'
<1> USE RecordUpdates, EmitType, NoEmitType, GotoType, RemainingType, AskType
       DEF Phases, Stages, RunStages, Requests
<1>1. CASE Restart
  <2>1. budget' \in [Requests \cup {"restart"} -> Nat]
    BY <1>1, BudgetType DEF Restart
  <2>2. \A r \in disk : Reconciled(r) \in Record
    BY DEF Reconciled, TypeOK, Phases
  <2>3. rec' \in Record /\ stored' \in BOOLEAN /\ disk' \in SUBSET Record
    BY <1>1, <2>2 DEF Restart, TypeOK
  <2>4. QED
    BY <1>1, <2>1, <2>3 DEF Restart, TypeOK, Stages
<1>2. ASSUME NEW t \in Tasks, Validate(t) \/ Approve(t) \/ Start(t) \/ Delete(t)
      PROVE  TypeOK'
  BY <1>2 DEF TypeOK, Validate, Approve, Start, Delete
<1>3. ASSUME NEW t \in Tasks, NEW cutover \in BOOLEAN, Stop(t, cutover)
      PROVE  TypeOK'
  BY <1>3 DEF TypeOK, Stop, Teardown
<1>4. ASSUME NEW t \in Tasks, NEW purge \in BOOLEAN, Rollback(t, purge)
      PROVE  TypeOK'
  BY <1>4 DEF TypeOK, Rollback
<1>5. ASSUME NEW t \in Tasks, ValidateFinish(t) \/ ValidateRaises(t)
      PROVE  TypeOK'
  BY <1>5 DEF TypeOK, ValidateFinish, ValidateRaises, Judged
<1>6. ASSUME NEW t \in Tasks,
             RunEnter(t) \/ BucketReady(t) \/ SetupRaises(t) \/ CollectionsReady(t)
      PROVE  TypeOK'
  BY <1>6 DEF TypeOK, RunEnter, BucketReady, SetupRaises, CollectionsReady,
              BeginLoad, BeginReplication
<1>7. ASSUME NEW t \in Tasks, NEW c \in Containers, LoadBatch(t, c) \/ ContainerLoaded(t, c)
      PROVE  TypeOK'
  BY <1>7 DEF TypeOK, EmitOrNot, LoadBatch, ContainerLoaded
<1>8. ASSUME NEW t \in Tasks, LoadDone(t) \/ NativeLoadFails(t) \/ AfterLoad(t)
      PROVE  TypeOK'
  BY <1>8 DEF TypeOK, LoadDone, NativeLoadFails, AfterLoad, BeginReplication
<1>9. ASSUME NEW t \in Tasks,
             RefCreated(t) \/ ReplicationCreated(t) \/ ReplicationRecorded(t)
      PROVE  TypeOK'
  BY <1>9 DEF TypeOK, RefCreated, ReplicationCreated, ReplicationRecorded, BeginReplication
<1>10. ASSUME NEW t \in Tasks, MonitorEvent(t) \/ MonitorExit(t) \/ EventApplied(t)
       PROVE  TypeOK'
  BY <1>10 DEF TypeOK, MonitorEvent, MonitorExit, EventApplied, EmitOrNot
<1>11. ASSUME NEW t \in Tasks,
              Verified(t) \/ RunFails(t) \/ CutoverVerified(t) \/ CutoverRaises(t)
       PROVE  TypeOK'
  BY <1>11 DEF TypeOK, Verified, RunFails, CutoverVerified, CutoverRaises
<1>12. ASSUME NEW t \in Tasks, RollbackResume(t) \/ PurgeDone(t) \/ PurgeFails(t)
       PROVE  TypeOK'
  BY <1>12 DEF TypeOK, RollbackResume, PurgeDone, PurgeFails, RolledBack, Teardown
<1>13. ASSUME NEW t \in Tasks, NEW c \in Containers, PurgeContainer(t, c)
       PROVE  TypeOK'
  BY <1>13 DEF TypeOK, PurgeContainer
<1>14. CASE UNCHANGED vars
  BY <1>14 DEF vars, TypeOK
<1> HIDE RecordUpdates, EmitType, NoEmitType, GotoType, RemainingType, AskType
<1>15. ASSUME Next PROVE TypeOK'
  BY <1>15, NextCases, <1>1, <1>2, <1>3, <1>4, <1>5, <1>6, <1>7, <1>8, <1>9, <1>10,
     <1>11, <1>12, <1>13
<1>16. QED
  BY <1>14, <1>15

\* Type correctness: no step takes a field out of its range.
THEOREM TypeCorrect == Spec => []TypeOK
<1>1. Init => TypeOK
  BY EngineAssumption DEF Init, NewRecord, TypeOK, Record, Phases, Stages
<1>2. TypeOK /\ [Next]_vars => TypeOK'
  BY TypeStep
<1>3. QED
  BY <1>1, <1>2, PTL DEF Spec

-------------------------------------------------------------------------------
(* Durability *)

\* Every step emits, leaves record, store and file alone, or takes the record out
\* of store and file.
LEMMA StoreStep ==
    ASSUME TypeOK, Next
    PROVE  \/ \E r \in Record : Emit(r)
           \/ NoEmit
           \/ stored' = FALSE /\ disk' = {} /\ rec' = rec
<1> DEFINE Stored == \/ \E r \in Record : Emit(r)
                     \/ NoEmit
                     \/ stored' = FALSE /\ disk' = {} /\ rec' = rec
<1>0. rec \in Record
  BY DEF TypeOK
<1> USE <1>0, RecordUpdates DEF Phases
<1>1. CASE Restart
  <2>1. \A r \in disk : Reconciled(r) \in Record
    BY DEF Reconciled, TypeOK
  <2>2. QED
    BY <1>1, <2>1 DEF Restart, TypeOK
<1>2. ASSUME NEW t \in Tasks, Validate(t) \/ Approve(t) \/ Start(t) \/ Delete(t)
      PROVE  Stored
  BY <1>2 DEF Validate, Approve, Start, Delete
<1>3. ASSUME NEW t \in Tasks, NEW cutover \in BOOLEAN, Stop(t, cutover)
      PROVE  Stored
  BY <1>3 DEF Stop
<1>4. ASSUME NEW t \in Tasks, NEW purge \in BOOLEAN, Rollback(t, purge)
      PROVE  Stored
  BY <1>4 DEF Rollback
<1>5. ASSUME NEW t \in Tasks, ValidateFinish(t) \/ ValidateRaises(t)
      PROVE  Stored
  BY <1>5 DEF ValidateFinish, ValidateRaises, Judged
<1>6. ASSUME NEW t \in Tasks,
             RunEnter(t) \/ BucketReady(t) \/ SetupRaises(t) \/ CollectionsReady(t)
      PROVE  Stored
  BY <1>6 DEF RunEnter, BucketReady, SetupRaises, CollectionsReady,
              BeginLoad, BeginReplication
<1>7. ASSUME NEW t \in Tasks, NEW c \in Containers, LoadBatch(t, c) \/ ContainerLoaded(t, c)
      PROVE  Stored
  BY <1>7 DEF EmitOrNot, LoadBatch, ContainerLoaded
<1>8. ASSUME NEW t \in Tasks, LoadDone(t) \/ NativeLoadFails(t) \/ AfterLoad(t)
      PROVE  Stored
  BY <1>8 DEF LoadDone, NativeLoadFails, AfterLoad, BeginReplication
<1>9. ASSUME NEW t \in Tasks,
             RefCreated(t) \/ ReplicationCreated(t) \/ ReplicationRecorded(t)
      PROVE  Stored
  BY <1>9 DEF RefCreated, ReplicationCreated, ReplicationRecorded, BeginReplication
<1>10. ASSUME NEW t \in Tasks, MonitorEvent(t) \/ MonitorExit(t) \/ EventApplied(t)
       PROVE  Stored
  BY <1>10 DEF MonitorEvent, MonitorExit, EventApplied, EmitOrNot
<1>11. ASSUME NEW t \in Tasks,
              Verified(t) \/ RunFails(t) \/ CutoverVerified(t) \/ CutoverRaises(t)
       PROVE  Stored
  BY <1>11 DEF Verified, RunFails, CutoverVerified, CutoverRaises
<1>12. ASSUME NEW t \in Tasks, RollbackResume(t) \/ PurgeDone(t) \/ PurgeFails(t)
       PROVE  Stored
  BY <1>12 DEF RollbackResume, PurgeDone, PurgeFails, RolledBack
<1>13. ASSUME NEW t \in Tasks, NEW c \in Containers, PurgeContainer(t, c)
       PROVE  Stored
  BY <1>13 DEF PurgeContainer
<1> HIDE RecordUpdates DEF Stored
<1>14. QED
  <2>1. Stored
    BY NextCases, <1>1, <1>2, <1>3, <1>4, <1>5, <1>6, <1>7, <1>8, <1>9, <1>10,
       <1>11, <1>12, <1>13 DEF Stored
  <2>2. QED
    BY <2>1 DEF Stored

\* So the file keeps agreeing with the store.
LEMMA FileStep ==
    ASSUME TypeOK, Durable, [Next]_vars
    PROVE  Durable'
<1>1. ASSUME NEW r \in Record, Emit(r) PROVE Durable'
  BY <1>1 DEF Durable, Emit
<1>2. CASE NoEmit
  BY <1>2 DEF Durable, NoEmit
<1>3. CASE stored' = FALSE /\ disk' = {} /\ rec' = rec
  BY <1>3 DEF Durable
<1>4. CASE Next
  BY <1>4, <1>1, <1>2, <1>3, StoreStep
<1>5. CASE UNCHANGED vars
  BY <1>5 DEF vars, Durable
<1>6. QED
  BY <1>4, <1>5

\* The state file always holds what a restart needs: the record as it is, or
\* nothing once it is deleted.
THEOREM FileIsCurrent == Spec => []Durable
<1>1. Init => Durable
  BY DEF Init, Durable
<1>2. QED
  BY <1>1, FileStep, TypeCorrect, PTL DEF Spec

-------------------------------------------------------------------------------
(* Approval *)

\* GateOnReport and NothingUnapproved are not inductive: a restart reads the
\* record back from the file, and a run enters on the phase alone.
ApprovalInv ==
    /\ Durable
    /\ GateOnReport
    /\ rec.phase = "approved" => rec.approved
    /\ \A t \in Tasks : task[t] \in {"provision"} \cup RunStages => rec.approved
    /\ dest # {} \/ xdcr # {} => rec.approved

\* It says of the tasks what NothingUnapproved says of the set of live ones.
LEMMA ApprovalGivesGates == ApprovalInv => GateOnReport /\ NothingUnapproved
  BY DEF ApprovalInv, NothingUnapproved, Live

\* Every step preserves it.
LEMMA ApprovalStep ==
    ASSUME TypeOK, ApprovalInv, [Next]_vars
    PROVE  ApprovalInv'
<1> DEFINE J == /\ GateOnReport
                /\ rec.phase = "approved" => rec.approved
                /\ \A t \in Tasks : task[t] \in {"provision"} \cup RunStages => rec.approved
                /\ dest # {} \/ xdcr # {} => rec.approved
<1>0. /\ rec \in Record /\ disk = (IF stored THEN {rec} ELSE {})
      /\ task \in [Tasks -> Stages] /\ J
  BY DEF TypeOK, ApprovalInv, Durable
<1>1. Durable'
  BY FileStep DEF ApprovalInv
<1>2. J'
  <2> USE <1>0 DEF GateOnReport, Record, Phases, RunStages, Emit, NoEmit, InPhase, Goto, At
  <2>1. CASE Restart
    BY <2>1 DEF Restart, Reconciled
  <2>2. ASSUME NEW t \in Tasks,
              Validate(t) \/ Approve(t) \/ Start(t) \/ Delete(t)
       PROVE  J'
    BY <2>2 DEF Validate, Approve, Start, Delete, Ask
  <2>3. ASSUME NEW t \in Tasks, NEW cutover \in BOOLEAN,
              Stop(t, cutover)
       PROVE  J'
    BY <2>3 DEF Stop, Teardown, Ask
  <2>4. ASSUME NEW t \in Tasks, NEW purge \in BOOLEAN,
              Rollback(t, purge)
       PROVE  J'
    BY <2>4 DEF Rollback, Ask
  <2>5. ASSUME NEW t \in Tasks,
              ValidateFinish(t) \/ ValidateRaises(t)
       PROVE  J'
    BY <2>5 DEF ValidateFinish, ValidateRaises, Judged
  <2>6. ASSUME NEW t \in Tasks,
              RunEnter(t) \/ BucketReady(t) \/ SetupRaises(t) \/ CollectionsReady(t)
       PROVE  J'
    BY <2>6 DEF RunEnter, BucketReady, SetupRaises, CollectionsReady, BeginLoad,
          BeginReplication
  <2>7. ASSUME NEW t \in Tasks, NEW c \in Containers,
              LoadBatch(t, c) \/ ContainerLoaded(t, c)
       PROVE  J'
    BY <2>7 DEF EmitOrNot, LoadBatch, ContainerLoaded
  <2>8. ASSUME NEW t \in Tasks,
              LoadDone(t) \/ NativeLoadFails(t) \/ AfterLoad(t)
       PROVE  J'
    BY <2>8 DEF LoadDone, NativeLoadFails, AfterLoad, BeginReplication
  <2>9. ASSUME NEW t \in Tasks,
              RefCreated(t) \/ ReplicationCreated(t) \/ ReplicationRecorded(t)
       PROVE  J'
    BY <2>9 DEF RefCreated, ReplicationCreated, ReplicationRecorded, BeginReplication
  <2>10. ASSUME NEW t \in Tasks,
              MonitorEvent(t) \/ MonitorExit(t) \/ EventApplied(t)
       PROVE  J'
    BY <2>10 DEF MonitorEvent, MonitorExit, EventApplied, EmitOrNot
  <2>11. ASSUME NEW t \in Tasks,
              Verified(t) \/ RunFails(t) \/ CutoverVerified(t) \/ CutoverRaises(t)
       PROVE  J'
    BY <2>11 DEF Verified, RunFails, CutoverVerified, CutoverRaises
  <2>12. ASSUME NEW t \in Tasks,
              RollbackResume(t) \/ PurgeDone(t) \/ PurgeFails(t)
       PROVE  J'
    BY <2>12 DEF RollbackResume, PurgeDone, PurgeFails, RolledBack, Teardown
  <2>13. ASSUME NEW t \in Tasks, NEW c \in Containers,
              PurgeContainer(t, c)
       PROVE  J'
    BY <2>13 DEF PurgeContainer
  <2>14. CASE UNCHANGED vars
    BY <2>14 DEF vars
  <2> HIDE <1>0 DEF J
  <2>15. CASE Next
    BY <2>15, NextCases, <2>1, <2>2, <2>3, <2>4, <2>5, <2>6, <2>7, <2>8, <2>9, <2>10,
       <2>11, <2>12, <2>13
  <2>16. QED
    BY <2>14, <2>15
<1>3. QED
  BY <1>1, <1>2 DEF ApprovalInv

\* A record is awaiting approval or approved only under a passing report, however
\* validations overlap with each other, with runs and with restarts.
THEOREM GateHolds == Spec => []GateOnReport
<1>1. Init => ApprovalInv
  BY DEF Init, NewRecord, ApprovalInv, Durable, GateOnReport, RunStages
<1>2. Spec => []ApprovalInv
  BY <1>1, ApprovalStep, TypeCorrect, PTL DEF Spec
<1>3. QED
  BY <1>2, ApprovalGivesGates, PTL

\* No run goes past its check, no tagged document and no XDCR object exists for a
\* migration nobody approved.
THEOREM NothingMovesUnapproved == Spec => []NothingUnapproved
<1>1. Init => ApprovalInv
  BY DEF Init, NewRecord, ApprovalInv, Durable, GateOnReport, RunStages
<1>2. Spec => []ApprovalInv
  BY <1>1, ApprovalStep, TypeCorrect, PTL DEF Spec
<1>3. QED
  BY <1>2, ApprovalGivesGates, PTL

-------------------------------------------------------------------------------
(* Every active phase is driven *)

\* A deleted record that no task holds any more: it cannot come back.
Gone == ~stored /\ \A t \in Tasks : task[t] = "idle"

\* Drivers(p) for each phase in turn. Only a monitor gives up on a record that
\* is not in the store, so only REPLICATING depends on its being there.
Driven ==
    /\ rec.phase = "validating" /\ "validate" \notin Faults => \E t \in Tasks : task[t] = "validate"
    /\ rec.phase = "migrating" =>
          \E t \in Tasks : task[t] \in {"load", "loaded", "ref", "link", "linked"}
    /\ rec.phase = "replicating" /\ stored => \E t \in Tasks : task[t] \in RunStages
    /\ rec.phase = "verifying" /\ "cutverify" \notin Faults =>
          \E t \in Tasks : task[t] \in {"verify", "cutverify"}
    /\ rec.phase = "rolling_back" => \E t \in Tasks : task[t] \in {"undo", "purging"}

DriverInv == Driven \/ Gone

\* It says of the tasks what ActivePhaseHasDriver says of the set of live ones.
LEMMA DriverGivesPhases == TypeOK /\ DriverInv => ActivePhaseHasDriver
<1> SUFFICES ASSUME TypeOK, Driven, stored, rec.phase \in Orphanable \ Abandoned
             PROVE  Live(Drivers(rec.phase)) # {}
  BY DEF DriverInv, Gone, ActivePhaseHasDriver
<1>1. \E t \in Tasks : task[t] \in Drivers(rec.phase)
  <2>1. CASE rec.phase = "validating"
    BY <2>1 DEF Driven, Drivers, Abandoned
  <2>2. CASE rec.phase = "migrating"
    BY <2>2 DEF Driven, Drivers
  <2>3. CASE rec.phase = "replicating"
    BY <2>3 DEF Driven, Drivers
  <2>4. CASE rec.phase = "verifying"
    BY <2>4 DEF Driven, Drivers, Abandoned
  <2>5. CASE rec.phase = "rolling_back"
    BY <2>5 DEF Driven, Drivers
  <2>6. QED
    BY <2>1, <2>2, <2>3, <2>4, <2>5 DEF Orphanable
<1>2. QED
  BY <1>1 DEF Live

\* A record that is gone stays gone.
LEMMA GoneStays ==
    ASSUME TypeOK, Durable, Gone, [Next]_vars
    PROVE  Gone'
<1> USE DEF Gone, At, Ask
<1>1. CASE Restart
  BY <1>1 DEF Restart, Durable
<1>2. ASSUME NEW t \in Tasks,
            Validate(t) \/ Approve(t) \/ Start(t) \/ Delete(t)
     PROVE  Gone'
  BY <1>2 DEF Validate, Approve, Start, Delete, Ask, RunStages
<1>3. ASSUME NEW t \in Tasks, NEW cutover \in BOOLEAN,
            Stop(t, cutover)
     PROVE  Gone'
  BY <1>3 DEF Stop, Teardown, Ask, RunStages
<1>4. ASSUME NEW t \in Tasks, NEW purge \in BOOLEAN,
            Rollback(t, purge)
     PROVE  Gone'
  BY <1>4 DEF Rollback, Ask, RunStages
<1>5. ASSUME NEW t \in Tasks,
            ValidateFinish(t) \/ ValidateRaises(t)
     PROVE  Gone'
  BY <1>5 DEF ValidateFinish, ValidateRaises, Judged, RunStages
<1>6. ASSUME NEW t \in Tasks,
            RunEnter(t) \/ BucketReady(t) \/ SetupRaises(t) \/ CollectionsReady(t)
     PROVE  Gone'
  BY <1>6 DEF RunEnter, BucketReady, SetupRaises, CollectionsReady, BeginLoad,
        BeginReplication, RunStages
<1>7. ASSUME NEW t \in Tasks, NEW c \in Containers,
            LoadBatch(t, c) \/ ContainerLoaded(t, c)
     PROVE  Gone'
  BY <1>7 DEF EmitOrNot, LoadBatch, ContainerLoaded, RunStages
<1>8. ASSUME NEW t \in Tasks,
            LoadDone(t) \/ NativeLoadFails(t) \/ AfterLoad(t)
     PROVE  Gone'
  BY <1>8 DEF LoadDone, NativeLoadFails, AfterLoad, BeginReplication, RunStages
<1>9. ASSUME NEW t \in Tasks,
            RefCreated(t) \/ ReplicationCreated(t) \/ ReplicationRecorded(t)
     PROVE  Gone'
  BY <1>9 DEF RefCreated, ReplicationCreated, ReplicationRecorded, BeginReplication,
        RunStages
<1>10. ASSUME NEW t \in Tasks,
            MonitorEvent(t) \/ MonitorExit(t) \/ EventApplied(t)
     PROVE  Gone'
  BY <1>10 DEF MonitorEvent, MonitorExit, EventApplied, EmitOrNot, RunStages
<1>11. ASSUME NEW t \in Tasks,
            Verified(t) \/ RunFails(t) \/ CutoverVerified(t) \/ CutoverRaises(t)
     PROVE  Gone'
  BY <1>11 DEF Verified, RunFails, CutoverVerified, CutoverRaises, RunStages
<1>12. ASSUME NEW t \in Tasks,
            RollbackResume(t) \/ PurgeDone(t) \/ PurgeFails(t)
     PROVE  Gone'
  BY <1>12 DEF RollbackResume, PurgeDone, PurgeFails, RolledBack, Teardown, RunStages
<1>13. ASSUME NEW t \in Tasks, NEW c \in Containers,
            PurgeContainer(t, c)
     PROVE  Gone'
  BY <1>13 DEF PurgeContainer, RunStages
<1>14. CASE UNCHANGED vars
  BY <1>14 DEF vars
<1> HIDE DEF Gone, At, Ask
<1>15. CASE Next
  BY <1>15, NextCases, <1>1, <1>2, <1>3, <1>4, <1>5, <1>6, <1>7, <1>8, <1>9, <1>10,
     <1>11, <1>12, <1>13
<1>16. QED
  BY <1>14, <1>15

\* Unless an exception escapes, a task that leaves a phase's drivers takes the
\* record out of that phase.
LEMMA DrivenStep ==
    ASSUME TypeOK, Durable, Driven, [Next]_vars
    PROVE  DriverInv'
<1>0. rec \in Record /\ task \in [Tasks -> Stages]
  BY DEF TypeOK
<1> USE <1>0 DEF DriverInv, Driven, Record, Phases, RunStages, Emit, NoEmit, InPhase, Goto, At
<1>1. CASE Restart
  <2>1. ASSUME NEW r \in disk, Emit(Reconciled(r)) PROVE Driven'
    BY <2>1 DEF Reconciled, Orphanable, TypeOK
  <2>2. QED
    BY <1>1, <2>1 DEF Restart, Gone
<1>2. ASSUME NEW t \in Tasks,
            Validate(t) \/ Approve(t) \/ Start(t) \/ Delete(t)
     PROVE  Driven'
  BY <1>2 DEF Validate, Approve, Start, Delete, Ask
<1>3. ASSUME NEW t \in Tasks, NEW cutover \in BOOLEAN,
            Stop(t, cutover)
     PROVE  Driven'
  BY <1>3 DEF Stop, Teardown, Ask
<1>4. ASSUME NEW t \in Tasks, NEW purge \in BOOLEAN,
            Rollback(t, purge)
     PROVE  Driven'
  BY <1>4 DEF Rollback, Ask
<1>5. ASSUME NEW t \in Tasks,
            ValidateFinish(t) \/ ValidateRaises(t)
     PROVE  Driven'
  <2>1. CASE ValidateFinish(t)
    BY <2>1 DEF ValidateFinish, Judged
  <2>2. CASE ValidateRaises(t)
    <3>1. /\ "validate" \in Faults /\ UNCHANGED rec /\ UNCHANGED stored
          /\ task[t] = "validate" /\ task' = [task EXCEPT ![t] = "idle"]
      BY <2>2 DEF ValidateRaises
    <3>2. \A q \in Tasks : task'[q] = task[q] \/ task[q] = "validate"
      BY <3>1
    <3>3. QED
      BY <3>1, <3>2
  <2>3. QED
    BY <1>5, <2>1, <2>2
<1>6. ASSUME NEW t \in Tasks,
            RunEnter(t) \/ BucketReady(t) \/ SetupRaises(t) \/ CollectionsReady(t)
     PROVE  Driven'
  <2>1. CASE RunEnter(t)
    BY <2>1 DEF RunEnter
  <2>2. CASE BucketReady(t)
    BY <2>2 DEF BucketReady, BeginLoad
  <2>3. CASE SetupRaises(t)
    BY <2>3 DEF SetupRaises
  <2>4. CASE CollectionsReady(t)
    BY <2>4 DEF CollectionsReady, BeginLoad, BeginReplication
  <2>5. QED
    BY <1>6, <2>1, <2>2, <2>3, <2>4
<1>7. ASSUME NEW t \in Tasks, NEW c \in Containers,
            LoadBatch(t, c) \/ ContainerLoaded(t, c)
     PROVE  Driven'
  BY <1>7 DEF EmitOrNot, LoadBatch, ContainerLoaded
<1>8. ASSUME NEW t \in Tasks,
            LoadDone(t) \/ NativeLoadFails(t) \/ AfterLoad(t)
     PROVE  Driven'
  <2>1. CASE LoadDone(t)
    BY <2>1 DEF LoadDone
  <2>2. CASE NativeLoadFails(t)
    BY <2>2 DEF NativeLoadFails
  <2>3. CASE AfterLoad(t)
    BY <2>3 DEF AfterLoad, LoadFailed, BeginReplication
  <2>4. QED
    BY <1>8, <2>1, <2>2, <2>3
<1>9. ASSUME NEW t \in Tasks,
            RefCreated(t) \/ ReplicationCreated(t) \/ ReplicationRecorded(t)
     PROVE  Driven'
  BY <1>9 DEF RefCreated, ReplicationCreated, ReplicationRecorded, BeginReplication
<1>10. ASSUME NEW t \in Tasks,
            MonitorEvent(t) \/ MonitorExit(t) \/ EventApplied(t)
     PROVE  Driven'
  <2>1. CASE MonitorEvent(t)
    BY <2>1 DEF MonitorEvent
  <2>2. CASE MonitorExit(t)
    BY <2>2 DEF MonitorExit, MonitorGoesOn
  <2>3. CASE EventApplied(t)
    BY <2>3 DEF EventApplied, EmitOrNot
  <2>4. QED
    BY <1>10, <2>1, <2>2, <2>3
<1>11. ASSUME NEW t \in Tasks,
            Verified(t) \/ RunFails(t) \/ CutoverVerified(t) \/ CutoverRaises(t)
     PROVE  Driven'
  <2>1. CASE Verified(t)
    BY <2>1 DEF Verified
  <2>2. CASE RunFails(t)
    BY <2>2 DEF RunFails
  <2>3. CASE CutoverVerified(t)
    BY <2>3 DEF CutoverVerified
  <2>4. CASE CutoverRaises(t)
    BY <2>4 DEF CutoverRaises
  <2>5. QED
    BY <1>11, <2>1, <2>2, <2>3, <2>4
<1>12. ASSUME NEW t \in Tasks,
            RollbackResume(t) \/ PurgeDone(t) \/ PurgeFails(t)
     PROVE  Driven'
  BY <1>12 DEF RollbackResume, PurgeDone, PurgeFails, RolledBack, Teardown
<1>13. ASSUME NEW t \in Tasks, NEW c \in Containers,
            PurgeContainer(t, c)
     PROVE  Driven'
  BY <1>13 DEF PurgeContainer
<1>14. CASE UNCHANGED vars
  BY <1>14 DEF vars
<1> HIDE <1>0 DEF Driven, Record, Phases, RunStages, Emit, NoEmit, InPhase, Goto, At
<1>15. CASE Next
  BY <1>15, NextCases, <1>1, <1>2, <1>3, <1>4, <1>5, <1>6, <1>7, <1>8, <1>9, <1>10,
     <1>11, <1>12, <1>13 DEF DriverInv
<1>16. QED
  BY <1>14, <1>15

\* A stored record is VALIDATING, MIGRATING, REPLICATING, VERIFYING or ROLLING_BACK
\* only while a task that can move it on is alive, except where an exception of
\* MigrationValidator.run or of the cutover's _verify abandons it.
THEOREM PhasesAreDriven == Spec => []ActivePhaseHasDriver
<1>1. Init => DriverInv
  BY DEF Init, NewRecord, DriverInv, Driven
<1>2. TypeOK /\ Durable /\ DriverInv /\ [Next]_vars => DriverInv'
  BY GoneStays, DrivenStep DEF DriverInv
<1>3. QED
  BY <1>1, <1>2, DriverGivesPhases, TypeCorrect, FileIsCurrent, PTL DEF Spec

-------------------------------------------------------------------------------
(* Replications are known *)

\* A replication that was answered is recorded, about to be, or a restart is to blame,
\* and restarts are counted.
KnownInv ==
    /\ "repl" \in xdcr => rec.replId \/ (\E t \in Tasks : task[t] = "linked") \/ Restarted
    /\ budget["restart"] <= Budget["restart"]

\* A restart counts for good.
LEMMA RestartsCounted ==
    ASSUME TypeOK, budget["restart"] <= Budget["restart"], [Next]_vars
    PROVE  /\ budget'["restart"] <= Budget["restart"]
           /\ Restarted => Restarted'
           /\ Restart => Restarted'
<1>1. budget["restart"] \in Nat /\ Budget["restart"] \in Nat
  BY EngineAssumption DEF TypeOK
<1>2. CASE Restart
  <2>1. budget'["restart"] = budget["restart"] - 1
    BY <1>2 DEF Restart, TypeOK
  <2>2. QED
    BY <1>1, <2>1, SMT DEF Restarted
<1>3. CASE budget'["restart"] = budget["restart"]
  <2>1. CASE ~Restart
    BY <1>3, <2>1 DEF Restarted
  <2>2. QED
    BY <1>2, <1>3, <2>1 DEF Restarted
<1>4. ASSUME NEW t \in Tasks, NEW q \in Requests, Ask(t, q)
      PROVE  budget'["restart"] = budget["restart"]
  BY <1>4 DEF Ask, TypeOK, Requests
<1>5. CASE Next
  <2> USE <1>3, <1>4 DEF Requests
  <2>1. ASSUME NEW t \in Tasks, Request(t) PROVE budget'["restart"] = budget["restart"]
    BY <2>1 DEF Request, Validate, Approve, Start, Delete, Stop, Rollback
  <2>2. ASSUME NEW t \in Tasks, RunStep(t) PROVE budget'["restart"] = budget["restart"]
    BY <2>2 DEF RunStep, RunEnter, BucketReady, CollectionsReady, ContainerLoaded, LoadDone,
                AfterLoad, RefCreated, ReplicationCreated, ReplicationRecorded, EventApplied,
                Verified
  <2>3. ASSUME NEW t \in Tasks, HandlerStep(t) PROVE budget'["restart"] = budget["restart"]
    BY <2>3 DEF HandlerStep, ValidateFinish, CutoverVerified, RollbackResume, PurgeContainer,
                PurgeDone
  <2>4. ASSUME NEW t \in Tasks, WorldStep(t) PROVE budget'["restart"] = budget["restart"]
    BY <2>4 DEF WorldStep, LoadBatch, MonitorEvent, MonitorExit, ValidateRaises, SetupRaises,
                NativeLoadFails, RunFails, CutoverRaises, PurgeFails
  <2>5. QED
    BY <1>2, <1>3, <1>5, <2>1, <2>2, <2>3, <2>4 DEF Next
<1>6. CASE UNCHANGED vars
  BY <1>3, <1>6 DEF vars
<1>7. QED
  BY <1>5, <1>6

\* No step forgets a recorded id, and the one task that is about to record an id
\* can do nothing else: nothing it awaits can fail there.
LEMMA KnownStep ==
    ASSUME TypeOK, KnownInv, [Next]_vars
    PROVE  KnownInv'
<1> DEFINE Known == "repl" \in xdcr => rec.replId \/ \E t \in Tasks : task[t] = "linked"
<1>0. rec \in Record /\ task \in [Tasks -> Stages]
  BY DEF TypeOK
<1>a. ASSUME Known, Next, ~Restart PROVE Known'
  <2> USE <1>0, <1>a DEF Record, Phases, RunStages, Emit, NoEmit, InPhase, Goto, At
  <2>2. ASSUME NEW t \in Tasks, Validate(t) \/ Approve(t) \/ Start(t) \/ Delete(t) PROVE Known'
    BY <2>2 DEF Validate, Approve, Start, Delete, Ask
  <2>3. ASSUME NEW t \in Tasks, NEW cutover \in BOOLEAN, Stop(t, cutover) PROVE Known'
    BY <2>3 DEF Stop, Teardown, Ask
  <2>4. ASSUME NEW t \in Tasks, NEW purge \in BOOLEAN, Rollback(t, purge) PROVE Known'
    BY <2>4 DEF Rollback, Ask
  <2>5. ASSUME NEW t \in Tasks, ValidateFinish(t) \/ ValidateRaises(t) PROVE Known'
    BY <2>5 DEF ValidateFinish, ValidateRaises, Judged
  <2>6. ASSUME NEW t \in Tasks,
               RunEnter(t) \/ BucketReady(t) \/ SetupRaises(t) \/ CollectionsReady(t)
        PROVE  Known'
    BY <2>6 DEF RunEnter, BucketReady, SetupRaises, CollectionsReady, BeginLoad,
                BeginReplication
  <2>7. ASSUME NEW t \in Tasks, NEW c \in Containers, LoadBatch(t, c) \/ ContainerLoaded(t, c)
        PROVE  Known'
    BY <2>7 DEF EmitOrNot, LoadBatch, ContainerLoaded
  <2>8. ASSUME NEW t \in Tasks, LoadDone(t) \/ NativeLoadFails(t) \/ AfterLoad(t) PROVE Known'
    BY <2>8 DEF LoadDone, NativeLoadFails, AfterLoad, BeginReplication
  <2>9. ASSUME NEW t \in Tasks,
               RefCreated(t) \/ ReplicationCreated(t) \/ ReplicationRecorded(t)
        PROVE  Known'
    <3>1. CASE RefCreated(t)
      BY <3>1 DEF RefCreated
    <3>2. CASE ReplicationCreated(t)
      <4>1. task'[t] = "linked"
        BY <3>2 DEF ReplicationCreated
      <4>2. QED
        BY <4>1
    <3>3. CASE ReplicationRecorded(t)
      <4>1. rec'.replId
        BY <3>3 DEF ReplicationRecorded, BeginReplication
      <4>2. QED
        BY <4>1
    <3>4. QED
      BY <2>9, <3>1, <3>2, <3>3
  <2>10. ASSUME NEW t \in Tasks, MonitorEvent(t) \/ MonitorExit(t) \/ EventApplied(t)
         PROVE  Known'
    BY <2>10 DEF MonitorEvent, MonitorExit, EventApplied, EmitOrNot
  <2>11. ASSUME NEW t \in Tasks,
                Verified(t) \/ RunFails(t) \/ CutoverVerified(t) \/ CutoverRaises(t)
         PROVE  Known'
    BY <2>11, EngineAssumption
       DEF Verified, RunFails, CutoverVerified, CutoverRaises, FaultPoints
  <2>12. ASSUME NEW t \in Tasks, RollbackResume(t) \/ PurgeDone(t) \/ PurgeFails(t)
         PROVE  Known'
    BY <2>12 DEF RollbackResume, PurgeDone, PurgeFails, RolledBack, Teardown
  <2>13. ASSUME NEW t \in Tasks, NEW c \in Containers, PurgeContainer(t, c) PROVE Known'
    BY <2>13 DEF PurgeContainer
  <2> HIDE <1>0, <1>a DEF Known, Record, Phases, RunStages, Emit, NoEmit, InPhase, Goto, At
  <2>14. QED
    BY <1>a, NextCases, <2>2, <2>3, <2>4, <2>5, <2>6, <2>7, <2>8, <2>9, <2>10,
       <2>11, <2>12, <2>13
<1>b. ASSUME Known, UNCHANGED vars PROVE Known'
  BY <1>b DEF vars
<1>1. (Known \/ Restarted) /\ (Known' \/ Restarted' => KnownInv')
  BY RestartsCounted DEF KnownInv
<1> HIDE DEF Known
<1>2. Known' \/ Restarted'
  BY <1>1, <1>a, <1>b, RestartsCounted DEF KnownInv
<1>3. QED
  BY <1>1, <1>2

\* A replication whose creation was answered is one the engine will find again: its id
\* is recorded, or the task that will record it is alive, unless a restart came
\* between creating and recording it.  This holds for every client.
THEOREM ReplicationsAreKnown == Spec => []ReplicationIsKnown
<1>1. Init => KnownInv
  <2>1. Budget["restart"] \in Nat
    BY EngineAssumption
  <2>2. QED
    BY <2>1 DEF Init, KnownInv
<1>2. KnownInv => ReplicationIsKnown
  BY DEF KnownInv, ReplicationIsKnown, Live
<1>3. QED
  BY <1>1, <1>2, KnownStep, TypeCorrect, PTL DEF Spec
-------------------------------------------------------------------------------
(* A patient operator *)

\* An operator who validates before approving, rolls back what replicates or has
\* settled, deletes nothing and starts once (what PatientRequests offers with one
\* start), where neither a running change stream nor cbbackupmgr fails.
PatientOperator ==
    /\ \A p \in Phases :
          /\ <<"delete", p>> \notin Offered
          /\ <<"validate", p>> \in Offered =>
                p \in {"draft", "validation_failed", "awaiting_approval"}
          /\ <<"rollback", p>> \in Offered =>
                p \in {"replicating", "complete", "failed", "stopped"}
    /\ Budget["start"] <= 1
    /\ Faults \cap {"monitor", "apply", "backup"} = {}

\* The phases before replication or verification.
Early == {"draft", "validating", "validation_failed", "awaiting_approval", "approved",
          "migrating"}

\* Everything a task does but to monitor changes the phase when it ends.
Busy == Stages \ {"idle", "monitor", "apply"}

\* So there is one such task at most, and the phase says what it is at.
OneAtATime == \A t, u \in Tasks : task[t] \in Busy /\ task[u] \in Busy => t = u

InStep(stage, r) ==
    /\ stage = "validate" => r.phase = "validating"
    /\ stage \in {"scheduled", "provision", "collections"} => r.phase = "approved"
    /\ stage = "collections" => ~r.plan.native
    /\ stage \in {"load", "loaded"} =>
          r.phase = "migrating" /\ r.plan.strategy \in LoadingStrategies
    /\ stage \in {"ref", "link", "linked"} =>
          /\ r.plan.native /\ r.plan.strategy \in ContinuousStrategies
          /\ r.phase = IF r.plan.strategy \in LoadingStrategies THEN "migrating" ELSE "approved"
    /\ stage = "verify" => r.phase = "verifying" /\ r.plan.strategy \notin ContinuousStrategies
    /\ stage = "cutverify" => r.phase = "verifying" /\ r.plan.strategy \in ContinuousStrategies
    /\ stage \in {"undo", "purging"} => r.phase = "rolling_back"
    /\ stage = "purging" => ~r.plan.native
    /\ stage \in {"monitor", "apply"} =>
          r.phase \notin Early /\ r.plan.strategy \in ContinuousStrategies
    /\ stage # "failing"

TasksInStep == \A t \in Tasks : InStep(task[t], rec)

\* One start is all there is.
StartedOnce ==
    /\ budget["start"] <= 1
    /\ \A t \in Tasks :
          task[t] \in {"scheduled", "provision"} \cup RunStages => budget["start"] = 0

\* What the phase says of the record.
Consistent(r) ==
    /\ r.plan.strategy \in Strategies
    /\ r.phase = "replicating" => r.active /\ r.plan.strategy \in ContinuousStrategies
    /\ r.phase = "migrating" => r.plan.strategy \in LoadingStrategies
    /\ r.phase \in Early => ~r.replId
    /\ r.phase \in Early \cup {"verifying", "complete", "stopped", "rolled_back"} => ~r.active

PatientInv ==
    /\ TypeOK /\ Durable /\ stored
    /\ TasksInStep /\ OneAtATime /\ StartedOnce /\ Consistent(rec)

\* In every other phase no task is busy.
LEMMA NobodyBusy ==
    ASSUME PatientInv,
           rec.phase \notin {"validating", "approved", "migrating", "verifying", "rolling_back"}
    PROVE  \A u \in Tasks : task[u] \notin Busy
<1> SUFFICES ASSUME NEW u \in Tasks, task[u] \in Busy
             PROVE  FALSE
  OBVIOUS
<1>1. InStep(task[u], rec)
  BY DEF PatientInv, TasksInStep
<1>2. QED
  BY <1>1 DEF InStep, Busy, Stages, RunStages

\* A step of one task, where what the phase says of the others stays true: either
\* it leaves the phase alone, or the one busy task is its own.
LEMMA MoveInStep ==
    ASSUME PatientInv, TypeOK', Durable', stored',
           NEW t \in Tasks, NEW s \in Stages, Goto(t, s),
           rec'.plan = rec.plan, Consistent(rec'), InStep(s, rec'), StartedOnce',
           rec'.phase \in Early => rec.phase \in Early,
           \/ task[t] \in Busy
           \/ \A u \in Tasks : task[u] \notin Busy
           \/ rec'.phase = rec.phase /\ s \notin Busy
    PROVE  PatientInv'
<1>1. \A u \in Tasks : task'[u] = IF u = t THEN s ELSE task[u]
  BY DEF PatientInv, TypeOK, Goto
<1>2. TasksInStep'
  <2> SUFFICES ASSUME NEW u \in Tasks, u # t
               PROVE  InStep(task[u], rec')
    BY <1>1 DEF TasksInStep
  <2>1. InStep(task[u], rec) /\ task[u] \in Stages
    BY DEF PatientInv, TasksInStep, TypeOK
  <2>2. CASE task[u] \in Busy
    <3>1. rec'.phase = rec.phase
      BY <2>2 DEF PatientInv, OneAtATime
    <3>2. QED
      BY <2>1, <3>1 DEF InStep
  <2>3. CASE task[u] \notin Busy
    BY <2>1, <2>3 DEF InStep, Busy
  <2>4. QED
    BY <2>2, <2>3
<1>3. OneAtATime'
  BY <1>1 DEF OneAtATime, PatientInv
<1>4. QED
  BY <1>2, <1>3 DEF PatientInv

\* Budget["start"] falls only with a start; no other step puts a task among those
\* that count.
LEMMA StartStays ==
    ASSUME PatientInv, NEW t \in Tasks, NEW s, Goto(t, s),
           budget'["start"] = budget["start"],
           s \in {"scheduled", "provision"} \cup RunStages =>
              task[t] \in {"scheduled", "provision"} \cup RunStages
    PROVE  StartedOnce'
<1>1. \A u \in Tasks : task'[u] = IF u = t THEN s ELSE task[u]
  BY DEF PatientInv, TypeOK, Goto
<1>2. QED
  BY <1>1 DEF PatientInv, StartedOnce

\* A request other than a start leaves that budget alone.
LEMMA AskOther ==
    ASSUME TypeOK, NEW t \in Tasks, NEW q \in Requests \ {"start"}, Ask(t, q)
    PROVE  budget'["start"] = budget["start"]
  BY DEF Ask, TypeOK, Requests

\* What the actions do to the fields that count.
LEMMA PhaseAfter ==
    ASSUME NEW r \in Record, NEW p \in Phases
    PROVE  /\ InPhase(r, p).phase = p /\ InPhase(r, p).plan = r.plan
           /\ InPhase(r, p).active = r.active /\ InPhase(r, p).replId = r.replId
  BY DEF Record, InPhase

\* Every step of a patient operator's migration preserves the invariant.
LEMMA PatientStep ==
    ASSUME PatientOperator, PatientInv, [Next]_vars
    PROVE  PatientInv'
<1>0. /\ TypeOK /\ TypeOK' /\ Durable /\ Durable' /\ stored
      /\ rec \in Record /\ rec.phase \in Phases
      /\ Consistent(rec) /\ task \in [Tasks -> Stages]
      /\ \A t \in Tasks : InStep(task[t], rec)
  BY TypeStep, FileStep DEF PatientInv, TasksInStep, TypeOK, Record
<1> DEFINE Running == {"scheduled", "provision"} \cup RunStages
<1>a. ASSUME NEW t \in Tasks, NEW s \in Stages, Goto(t, s), UNCHANGED budget,
             s \in Running => task[t] \in Running
      PROVE  StartedOnce'
  BY <1>a, StartStays
<1>1. CASE Restart
  <2>1. rec' = Reconciled(rec) /\ stored' /\ task' = [t \in Tasks |-> "idle"]
    BY <1>0, <1>1 DEF Restart, Durable, Emit
  <2>2. rec'.plan = rec.plan /\ Consistent(rec')
    BY <1>0, <2>1, PhaseAfter DEF Reconciled, Consistent, Early, Phases, Orphanable
  <2>3. TasksInStep' /\ OneAtATime'
    BY <2>1 DEF TasksInStep, InStep, OneAtATime, Busy
  <2>4. budget'["start"] = budget["start"]
    BY <1>0, <1>1 DEF Restart, TypeOK, Requests
  <2>5. StartedOnce'
    BY <2>1, <2>4 DEF StartedOnce, PatientInv, RunStages
  <2>6. QED
    BY <1>0, <2>1, <2>2, <2>3, <2>5 DEF PatientInv
<1>2. ASSUME NEW t \in Tasks, Validate(t) PROVE PatientInv'
  <2>1. rec.phase \in {"draft", "validation_failed", "awaiting_approval"}
    BY <1>0, <1>2 DEF Validate, Ask, PatientOperator
  <2>2. rec' = InPhase(rec, "validating") /\ stored' /\ Goto(t, "validate")
    BY <1>2 DEF Validate, Emit
  <2>3. \A u \in Tasks : task[u] \notin Busy
    BY <2>1, NobodyBusy
  <2>4. /\ rec'.plan = rec.plan /\ rec'.phase = "validating" /\ Consistent(rec')
        /\ InStep("validate", rec')
    BY <1>0, <2>1, <2>2, PhaseAfter DEF Consistent, InStep, Early, Phases
  <2>5. StartedOnce'
    BY <1>0, <1>2, <2>2, AskOther, StartStays DEF Validate, RunStages, Requests
  <2>6. QED
    BY <1>0, <2>1, <2>2, <2>3, <2>4, <2>5, MoveInStep DEF Stages, Early
<1>3. ASSUME NEW t \in Tasks, Approve(t) PROVE PatientInv'
  <2>1. /\ rec.phase = "awaiting_approval" /\ task[t] = "idle" /\ stored'
        /\ rec' = [rec EXCEPT !.phase = "approved", !.approved = TRUE]
    BY <1>3 DEF Approve, Ask, At, Emit
  <2>2. Goto(t, "idle")
    BY <1>0, <1>3, <2>1 DEF Approve, Goto
  <2>3. \A u \in Tasks : task[u] \notin Busy
    BY <2>1, NobodyBusy
  <2>4. /\ rec'.plan = rec.plan /\ rec'.phase = "approved" /\ Consistent(rec')
        /\ InStep("idle", rec')
    BY <1>0, <2>1, PhaseAfter DEF Consistent, InStep, Early, Phases
  <2>5. StartedOnce'
    BY <1>0, <1>3, <2>2, AskOther, StartStays DEF Approve, RunStages, Requests
  <2>6. QED
    BY <1>0, <2>1, <2>2, <2>3, <2>4, <2>5, MoveInStep DEF Stages, Early
<1>4. ASSUME NEW t \in Tasks, Start(t) PROVE PatientInv'
  <2>1. /\ rec.phase = "approved" /\ task[t] = "idle" /\ rec' = rec /\ stored'
        /\ budget["start"] > 0 /\ budget' = [budget EXCEPT !["start"] = @ - 1]
        /\ Goto(t, "scheduled")
    BY <1>0, <1>4 DEF Start, Ask, At, NoEmit
  <2>2. budget["start"] = 1 /\ budget'["start"] = 0
    <3>1. budget["start"] \in Nat /\ budget["start"] <= 1
      BY <1>0 DEF PatientInv, StartedOnce, TypeOK, Requests
    <3>2. budget'["start"] = budget["start"] - 1
      BY <1>0, <2>1 DEF TypeOK, Requests
    <3>3. QED
      BY <2>1, <3>1, <3>2, SMT
  <2>3. \A u \in Tasks : task[u] \notin Running
    BY <2>2 DEF PatientInv, StartedOnce
  <2>4. \A u \in Tasks : task[u] \notin Busy
    BY <1>0, <2>1, <2>3 DEF InStep, Busy, Stages, RunStages
  <2>5. StartedOnce'
    BY <2>2 DEF StartedOnce
  <2>6. InStep("scheduled", rec')
    BY <2>1 DEF InStep
  <2>7. QED
    BY <1>0, <2>1, <2>4, <2>5, <2>6, MoveInStep DEF Stages
<1>5. ASSUME NEW t \in Tasks, Delete(t) PROVE PatientInv'
  BY <1>0, <1>5 DEF Delete, Ask, PatientOperator
<1>6. ASSUME NEW t \in Tasks, NEW cutover \in BOOLEAN, Stop(t, cutover) PROVE PatientInv'
  <2> DEFINE s == IF cutover THEN "cutverify" ELSE "idle"
  <2>1. /\ rec.phase = "replicating" /\ task[t] = "idle" /\ stored' /\ Goto(t, s)
        /\ rec' = [rec EXCEPT !.active = FALSE,
                              !.phase = IF cutover THEN "verifying" ELSE "stopped"]
    BY <1>6 DEF Stop, Ask, At, Emit
  <2>2. \A u \in Tasks : task[u] \notin Busy
    BY <2>1, NobodyBusy
  <2>3. /\ rec'.plan = rec.plan /\ Consistent(rec') /\ InStep(s, rec')
        /\ rec'.phase = IF cutover THEN "verifying" ELSE "stopped"
    BY <1>0, <2>1, PhaseAfter DEF Consistent, InStep, Early, Phases
  <2>4. StartedOnce'
    BY <1>0, <1>6, <2>1, AskOther, StartStays DEF Stop, RunStages, Requests
  <2>5. QED
    BY <1>0, <2>1, <2>2, <2>3, <2>4, MoveInStep DEF Stages, Early
<1>7. ASSUME NEW t \in Tasks, NEW purge \in BOOLEAN, Rollback(t, purge) PROVE PatientInv'
  <2>1. rec.phase \in {"replicating", "complete", "failed", "stopped"}
    BY <1>0, <1>7 DEF Rollback, Ask, PatientOperator
  <2>2. /\ stored' /\ Goto(t, "undo")
        /\ rec' = [rec EXCEPT !.phase = "rolling_back", !.purged = FALSE]
    BY <1>7 DEF Rollback, Emit
  <2>3. \A u \in Tasks : task[u] \notin Busy
    BY <2>1, NobodyBusy
  <2>4. /\ rec'.plan = rec.plan /\ Consistent(rec') /\ InStep("undo", rec')
        /\ rec'.phase = "rolling_back"
    BY <1>0, <2>2, PhaseAfter DEF Consistent, InStep, Early, Phases
  <2>5. StartedOnce'
    BY <1>0, <1>7, <2>2, AskOther, StartStays DEF Rollback, RunStages, Requests
  <2>6. QED
    BY <1>0, <2>2, <2>3, <2>4, <2>5, MoveInStep DEF Stages, Early
<1>8. ASSUME NEW t \in Tasks, ValidateFinish(t) PROVE PatientInv'
  <2>1. PICK ok \in BOOLEAN : Emit(Judged(rec, ok))
    BY <1>8 DEF ValidateFinish
  <2>2. task[t] = "validate" /\ Goto(t, "idle") /\ stored' /\ UNCHANGED budget
    BY <1>8, <2>1 DEF ValidateFinish, At, Emit
  <2>3. rec.phase = "validating"
    BY <1>0, <2>2 DEF InStep
  <2>4. /\ rec'.plan = rec.plan /\ Consistent(rec') /\ InStep("idle", rec')
    BY <1>0, <2>1, <2>3, PhaseAfter DEF Emit, Judged, Consistent, InStep, Early, Phases
  <2>5. QED
    BY <1>0, <1>a, <2>2, <2>3, <2>4, MoveInStep DEF Stages, Early, Busy, RunStages
<1>9. ASSUME NEW t \in Tasks, ValidateRaises(t) PROVE PatientInv'
  <2>1. /\ task[t] = "validate" /\ Goto(t, "idle") /\ rec' = rec /\ stored' /\ UNCHANGED budget
    BY <1>0, <1>9 DEF ValidateRaises, At, NoEmit
  <2>2. InStep("idle", rec')
    BY DEF InStep
  <2>3. QED
    BY <1>0, <1>a, <2>1, <2>2, MoveInStep DEF Stages, Busy, RunStages
<1>10. ASSUME NEW t \in Tasks, RunEnter(t) PROVE PatientInv'
  <2>1. /\ task[t] = "scheduled" /\ Goto(t, "provision") /\ rec' = rec /\ stored'
        /\ rec.phase = "approved" /\ UNCHANGED budget
    BY <1>0, <1>10 DEF RunEnter, At, NoEmit, InStep
  <2>2. InStep("provision", rec')
    BY <2>1 DEF InStep
  <2>3. QED
    BY <1>0, <1>a, <2>1, <2>2, MoveInStep DEF Stages, Busy, RunStages
\* A task that begins the load, from "approved".
<1>b. ASSUME NEW t \in Tasks, task[t] \in {"provision", "collections"}, Loads, BeginLoad(t),
             UNCHANGED budget
      PROVE  PatientInv'
  <2>1. rec.phase = "approved"
    BY <1>0, <1>b DEF InStep
  <2>2. rec' = InPhase(rec, "migrating") /\ stored' /\ Goto(t, "load")
    BY <1>b DEF BeginLoad, Emit
  <2>3. /\ rec'.plan = rec.plan /\ rec'.phase = "migrating" /\ Consistent(rec')
        /\ InStep("load", rec')
    BY <1>0, <1>b, <2>1, <2>2, PhaseAfter
       DEF Consistent, InStep, Early, Phases, Loads, Strategy
  <2>4. QED
    BY <1>0, <1>a, <1>b, <2>1, <2>2, <2>3, MoveInStep DEF Stages, Early, Busy, RunStages
\* A busy task of a continuous migration that begins to monitor.
<1>c. ASSUME NEW t \in Tasks, NEW r, task[t] \in RunStages, task[t] \in Busy, Continuous,
             r = rec \/ r = [rec EXCEPT !.replId = TRUE],
             BeginReplication(t, r), UNCHANGED budget
      PROVE  PatientInv'
  <2>1. r \in Record /\ r.plan = rec.plan
    BY <1>0, <1>c DEF Record
  <2>2. /\ rec' = [r EXCEPT !.phase = "replicating", !.active = TRUE]
        /\ stored' /\ Goto(t, "monitor")
    BY <1>c DEF BeginReplication, Emit
  <2>3. rec'.plan = rec.plan /\ rec'.phase = "replicating" /\ rec'.active
    BY <2>1, <2>2, PhaseAfter DEF Phases
  <2>4. Consistent(rec') /\ InStep("monitor", rec')
    BY <1>0, <1>c, <2>3 DEF Consistent, InStep, Early, Continuous, Strategy
  <2>5. QED
    BY <1>0, <1>a, <1>c, <2>2, <2>3, <2>4, MoveInStep DEF Stages, Early, RunStages
<1>11. ASSUME NEW t \in Tasks, BucketReady(t) PROVE PatientInv'
  <2>1. task[t] = "provision" /\ rec.phase = "approved" /\ UNCHANGED budget
    BY <1>0, <1>11 DEF BucketReady, At, InStep
  <2>2. CASE BeginLoad(t) /\ Loads
    BY <1>b, <2>1, <2>2
  <2>3. CASE ~(Native /\ Loads) /\ Goto(t, IF Native THEN "ref" ELSE "collections") /\ NoEmit
    <3> DEFINE s == IF Native THEN "ref" ELSE "collections"
    <3>1. rec' = rec /\ stored' /\ s \in RunStages /\ s \in Stages
      BY <1>0, <2>3 DEF NoEmit, RunStages, Stages
    <3>2. InStep(s, rec')
      BY <1>0, <2>1, <2>3, <3>1
         DEF InStep, Consistent, Native, Loads, Strategy, Strategies, LoadingStrategies,
             ContinuousStrategies
    <3>3. QED
      BY <1>0, <1>a, <2>1, <2>3, <3>1, <3>2, MoveInStep DEF Busy, Stages, RunStages
  <2>4. QED
    BY <1>11, <2>2, <2>3 DEF BucketReady
<1>12. ASSUME NEW t \in Tasks, SetupRaises(t) PROVE PatientInv'
  <2>1. /\ task[t] = "provision" /\ Goto(t, "idle") /\ rec' = rec /\ stored' /\ UNCHANGED budget
    BY <1>0, <1>12 DEF SetupRaises, At, NoEmit
  <2>2. InStep("idle", rec')
    BY DEF InStep
  <2>3. QED
    BY <1>0, <1>a, <2>1, <2>2, MoveInStep DEF Stages, Busy, RunStages
<1>13. ASSUME NEW t \in Tasks, CollectionsReady(t) PROVE PatientInv'
  <2>1. task[t] = "collections" /\ UNCHANGED budget
    BY <1>13 DEF CollectionsReady, At
  <2>2. CASE Loads /\ BeginLoad(t)
    BY <1>b, <2>1, <2>2
  <2>3. CASE ~Loads /\ BeginReplication(t, rec)
    <3>1. Continuous
      BY <1>0, <2>3 DEF Consistent, Continuous, Loads, Strategy, Strategies,
                        LoadingStrategies, ContinuousStrategies
    <3>2. QED
      BY <1>c, <2>1, <2>3, <3>1 DEF Busy, RunStages, Stages
  <2>4. QED
    BY <1>13, <2>2, <2>3 DEF CollectionsReady
\* A busy or monitoring task that stays where it is and leaves the phase alone.
<1>d. ASSUME NEW t \in Tasks, task' = task, EmitOrNot, UNCHANGED budget
      PROVE  PatientInv'
  <2>1. rec' = rec /\ stored' /\ UNCHANGED <<task, budget>>
    BY <1>0, <1>d DEF EmitOrNot, Emit, NoEmit
  <2>2. TasksInStep' /\ OneAtATime' /\ StartedOnce' /\ Consistent(rec')
    BY <2>1 DEF PatientInv, TasksInStep, OneAtATime, StartedOnce
  <2>3. QED
    BY <1>0, <2>1, <2>2 DEF PatientInv
<1>14. ASSUME NEW t \in Tasks, NEW c \in Containers, LoadBatch(t, c) \/ ContainerLoaded(t, c)
       PROVE  PatientInv'
  BY <1>14, <1>d DEF LoadBatch, ContainerLoaded
<1>15. ASSUME NEW t \in Tasks, LoadDone(t) PROVE PatientInv'
  <2>1. /\ task[t] = "load" /\ Goto(t, "loaded") /\ rec' = rec /\ stored' /\ UNCHANGED budget
    BY <1>15 DEF LoadDone, At, Emit
  <2>2. InStep("loaded", rec')
    BY <1>0, <2>1 DEF InStep
  <2>3. QED
    BY <1>0, <1>a, <2>1, <2>2, MoveInStep DEF Stages, Busy, RunStages
<1>16. ASSUME NEW t \in Tasks, NativeLoadFails(t) PROVE PatientInv'
  BY <1>16 DEF NativeLoadFails, PatientOperator
<1>17. ASSUME NEW t \in Tasks, AfterLoad(t) PROVE PatientInv'
  <2>1. /\ task[t] = "loaded" /\ rec.phase = "migrating" /\ Loads /\ UNCHANGED budget
        /\ ~LoadFailed(rec)
    BY <1>0, <1>17 DEF AfterLoad, At, InStep, Loads, Strategy, LoadFailed
  <2>2. CASE ~Continuous /\ Emit(InPhase(rec, "verifying")) /\ Goto(t, "verify")
    <3>1. /\ rec'.plan = rec.plan /\ rec'.phase = "verifying" /\ stored' /\ Consistent(rec')
          /\ InStep("verify", rec')
      BY <1>0, <2>1, <2>2, PhaseAfter
         DEF Emit, Consistent, InStep, Early, Phases, Continuous, Strategy
    <3>2. QED
      BY <1>0, <1>a, <2>1, <2>2, <3>1, MoveInStep DEF Stages, Busy, Early, RunStages
  <2>3. CASE Continuous /\ Native /\ Goto(t, "ref") /\ NoEmit
    <3>1. rec' = rec /\ stored' /\ InStep("ref", rec')
      BY <1>0, <2>1, <2>3 DEF NoEmit, InStep, Continuous, Native, Loads, Strategy
    <3>2. QED
      BY <1>0, <1>a, <2>1, <2>3, <3>1, MoveInStep DEF Stages, Busy, RunStages
  <2>4. CASE Continuous /\ BeginReplication(t, rec)
    BY <1>c, <2>1, <2>4 DEF Busy, Stages, RunStages
  <2>5. QED
    BY <1>17, <2>1, <2>2, <2>3, <2>4 DEF AfterLoad
<1>18. ASSUME NEW t \in Tasks, RefCreated(t) \/ ReplicationCreated(t) PROVE PatientInv'
  <2> DEFINE s == IF task[t] = "ref" THEN "link" ELSE "linked"
  <2>1. /\ task[t] \in {"ref", "link"} /\ Goto(t, s) /\ rec' = rec /\ stored'
        /\ UNCHANGED budget
    BY <1>0, <1>18 DEF RefCreated, ReplicationCreated, At, NoEmit
  <2>2. InStep(s, rec')
    BY <1>0, <2>1 DEF InStep
  <2>3. QED
    BY <1>0, <1>a, <2>1, <2>2, MoveInStep DEF Stages, Busy, RunStages
<1>19. ASSUME NEW t \in Tasks, ReplicationRecorded(t) PROVE PatientInv'
  <2>1. task[t] = "linked" /\ Continuous
    BY <1>0, <1>19 DEF ReplicationRecorded, At, InStep, Continuous, Strategy
  <2>2. QED
    BY <1>c, <1>19, <2>1 DEF ReplicationRecorded, Busy, Stages, RunStages
<1>20. ASSUME NEW t \in Tasks, MonitorEvent(t) \/ MonitorExit(t) \/ EventApplied(t)
       PROVE  PatientInv'
  <2>1. /\ task[t] \in {"monitor", "apply"} /\ rec' = rec /\ stored' /\ UNCHANGED budget
        /\ Goto(t, "apply") \/ Goto(t, "idle") \/ Goto(t, "monitor")
    BY <1>0, <1>20 DEF MonitorEvent, MonitorExit, EventApplied, At, NoEmit, EmitOrNot, Emit
  <2>2. \A s \in {"apply", "idle", "monitor"} : InStep(s, rec')
    BY <1>0, <2>1 DEF InStep
  <2>3. QED
    BY <1>0, <1>a, <2>1, <2>2, MoveInStep DEF Stages, Busy, RunStages
\* A busy task that ends, and the phase it leaves behind.
<1>e. ASSUME NEW t \in Tasks, task[t] \in Busy, Goto(t, "idle"), stored', UNCHANGED budget,
             rec'.plan = rec.plan, rec'.phase \notin Early,
             \/ rec'.phase \in {"complete", "rolled_back"} /\ ~rec'.active
             \/ rec'.phase = "failed"
      PROVE  PatientInv'
  <2>1. Consistent(rec') /\ InStep("idle", rec')
    BY <1>0, <1>e DEF Consistent, InStep, Early
  <2>2. QED
    BY <1>0, <1>a, <1>e, <2>1, MoveInStep DEF Stages, RunStages
<1>21. ASSUME NEW t \in Tasks, Verified(t) \/ CutoverVerified(t) PROVE PatientInv'
  <2>1. /\ task[t] \in {"verify", "cutverify"} /\ Goto(t, "idle") /\ stored' /\ UNCHANGED budget
        /\ rec' = InPhase(rec, "complete")
    BY <1>21 DEF Verified, CutoverVerified, At, Emit
  <2>2. rec.phase = "verifying" /\ ~rec.active
    BY <1>0, <2>1 DEF InStep, Consistent
  <2>3. rec'.plan = rec.plan /\ rec'.phase = "complete" /\ ~rec'.active
    BY <1>0, <2>1, <2>2, PhaseAfter DEF Phases
  <2>4. QED
    BY <1>e, <2>1, <2>3 DEF Busy, Stages, RunStages, Early
<1>22. ASSUME NEW t \in Tasks, RunFails(t) PROVE PatientInv'
  <2>1. /\ task[t] \in RunStages \cap Busy /\ Goto(t, "idle") /\ stored' /\ UNCHANGED budget
        /\ rec' = InPhase(rec, "failed")
    BY <1>22 DEF RunFails, At, Emit, PatientOperator, Busy, RunStages, Stages
  <2>2. rec'.plan = rec.plan /\ rec'.phase = "failed"
    BY <1>0, <2>1, PhaseAfter DEF Phases
  <2>3. QED
    BY <1>e, <2>1, <2>2 DEF Early
<1>23. ASSUME NEW t \in Tasks, CutoverRaises(t) PROVE PatientInv'
  <2>1. /\ task[t] = "cutverify" /\ Goto(t, "idle") /\ rec' = rec /\ stored' /\ UNCHANGED budget
    BY <1>0, <1>23 DEF CutoverRaises, At, NoEmit
  <2>2. InStep("idle", rec')
    BY DEF InStep
  <2>3. QED
    BY <1>0, <1>a, <2>1, <2>2, MoveInStep DEF Stages, Busy, RunStages
\* Both ways a rollback ends well.
<1>f. ASSUME NEW t \in Tasks, NEW p \in BOOLEAN, task[t] \in Busy, RolledBack(t, p),
             UNCHANGED budget
      PROVE  PatientInv'
  <2>1. /\ rec' = [rec EXCEPT !.phase = "rolled_back", !.active = FALSE, !.purged = p]
        /\ stored' /\ Goto(t, "idle")
    BY <1>f DEF RolledBack, Emit
  <2>2. rec'.plan = rec.plan /\ rec'.phase = "rolled_back" /\ ~rec'.active
    BY <1>0, <2>1, PhaseAfter DEF Phases
  <2>3. QED
    BY <1>e, <1>f, <2>1, <2>2 DEF Early
<1>24. ASSUME NEW t \in Tasks, RollbackResume(t) PROVE PatientInv'
  <2>1. task[t] = "undo" /\ rec.phase = "rolling_back" /\ UNCHANGED budget
    BY <1>0, <1>24 DEF RollbackResume, At, InStep
  <2>2. CASE ~Native /\ Goto(t, "purging") /\ NoEmit
    <3>1. rec' = rec /\ stored' /\ InStep("purging", rec')
      BY <1>0, <2>1, <2>2 DEF NoEmit, InStep, Native
    <3>2. QED
      BY <1>0, <1>a, <2>1, <2>2, <3>1, MoveInStep DEF Stages, Busy, RunStages
  <2>3. CASE RolledBack(t, FALSE)
    BY <1>f, <2>1, <2>3 DEF Busy, Stages, RunStages
  <2>4. QED
    BY <1>24, <2>2, <2>3 DEF RollbackResume
<1>25. ASSUME NEW t \in Tasks, PurgeDone(t) PROVE PatientInv'
  BY <1>f, <1>25 DEF PurgeDone, At, Busy, Stages, RunStages
<1>26. ASSUME NEW t \in Tasks, PurgeFails(t) PROVE PatientInv'
  <2>1. /\ task[t] = "purging" /\ Goto(t, "idle") /\ stored' /\ UNCHANGED budget
        /\ rec' = InPhase(rec, "failed")
    BY <1>26 DEF PurgeFails, At, Emit
  <2>2. rec'.plan = rec.plan /\ rec'.phase = "failed"
    BY <1>0, <2>1, PhaseAfter DEF Phases
  <2>3. QED
    BY <1>e, <2>1, <2>2 DEF Early, Busy, Stages, RunStages
<1>27. ASSUME NEW t \in Tasks, NEW c \in Containers, PurgeContainer(t, c) PROVE PatientInv'
  BY <1>27, <1>d DEF PurgeContainer, EmitOrNot
<1>28. CASE UNCHANGED vars
  BY <1>28 DEF vars, PatientInv, TypeOK, Durable, TasksInStep, OneAtATime, StartedOnce
<1>29. CASE Next
  BY <1>29, NextCases, <1>1, <1>2, <1>3, <1>4, <1>5, <1>6, <1>7, <1>8, <1>9, <1>10, <1>11,
     <1>12, <1>13, <1>14, <1>15, <1>16, <1>17, <1>18, <1>19, <1>20, <1>21, <1>22, <1>23,
     <1>24, <1>25, <1>26, <1>27
<1>30. QED
  BY <1>28, <1>29

\* So under a patient operator every step of the engine is an arrow of the
\* lifecycle, or none.
LEMMA LifecycleStep ==
    ASSUME PatientOperator, PatientInv, [Next]_vars
    PROVE  [Lifecycle!Next]_(Lifecycle!lifecycle)
<1> DEFINE Arrow == [Lifecycle!Next]_(Lifecycle!lifecycle)
<1> USE DEF Lifecycle!Next, Lifecycle!lifecycle, Lifecycle!Move
<1>0. /\ rec \in Record /\ rec.phase \in Phases /\ Consistent(rec) /\ stored /\ Durable
      /\ \A t \in Tasks : InStep(task[t], rec)
  BY DEF PatientInv, TasksInStep, TypeOK, Record
<1>a. ASSUME NoEmit \/ EmitOrNot PROVE Arrow
  BY <1>a DEF NoEmit, EmitOrNot, Emit, Strategy
<1>1. CASE Restart
  <2>1. rec' = Reconciled(rec)
    BY <1>0, <1>1 DEF Restart, Durable, Emit
  <2>2. CASE rec.phase \in Orphanable
    <3>1. rec'.phase = "failed" /\ Strategy' = Strategy
      BY <1>0, <2>1, <2>2, PhaseAfter DEF Reconciled, Phases, Strategy
    <3>2. QED
      BY <2>2, <3>1 DEF Lifecycle!Fail, Orphanable, Lifecycle!Orphanable
  <2>3. CASE rec.phase \notin Orphanable
    BY <2>1, <2>3 DEF Reconciled, Strategy
  <2>4. QED
    BY <2>2, <2>3
<1>2. ASSUME NEW t \in Tasks, Validate(t) \/ Approve(t) \/ Start(t) \/ Delete(t) PROVE Arrow
  <2>1. CASE Validate(t)
    <3>1. rec.phase \in {"draft", "validation_failed", "awaiting_approval"}
      BY <1>0, <2>1 DEF Validate, Ask, PatientOperator
    <3>2. rec'.phase = "validating" /\ Strategy' = Strategy
      BY <1>0, <2>1, PhaseAfter DEF Validate, Emit, Phases, Strategy
    <3>3. QED
      BY <3>1, <3>2 DEF Lifecycle!Validate
  <2>2. CASE Approve(t)
    <3>1. rec'.phase = "approved" /\ Strategy' = Strategy /\ rec.phase = "awaiting_approval"
      BY <1>0, <2>2, PhaseAfter DEF Approve, Emit, Phases, Strategy
    <3>2. QED
      BY <3>1 DEF Lifecycle!Approve
  <2>3. CASE Start(t)
    BY <1>a, <2>3 DEF Start
  <2>4. CASE Delete(t)
    BY <1>0, <2>4 DEF Delete, Ask, PatientOperator
  <2>5. QED
    BY <1>2, <2>1, <2>2, <2>3, <2>4
<1>3. ASSUME NEW t \in Tasks, NEW cutover \in BOOLEAN, Stop(t, cutover) PROVE Arrow
  <2>1. /\ rec.phase = "replicating" /\ Strategy' = Strategy
        /\ rec'.phase = IF cutover THEN "verifying" ELSE "stopped"
    BY <1>0, <1>3, PhaseAfter DEF Stop, Emit, Phases, Strategy
  <2>2. Strategy \in ContinuousStrategies
    BY <1>0, <2>1 DEF Consistent, Strategy
  <2>3. QED
    BY <2>1, <2>2 DEF Lifecycle!Verify, Lifecycle!Halt, ContinuousStrategies,
                        Lifecycle!ContinuousStrategies
<1>4. ASSUME NEW t \in Tasks, NEW purge \in BOOLEAN, Rollback(t, purge) PROVE Arrow
  <2>1. rec.phase \in {"replicating", "complete", "failed", "stopped"}
    BY <1>0, <1>4 DEF Rollback, Ask, PatientOperator
  <2>2. rec'.phase = "rolling_back" /\ Strategy' = Strategy
    BY <1>0, <1>4, PhaseAfter DEF Rollback, Emit, Phases, Strategy
  <2>3. QED
    BY <2>1, <2>2 DEF Lifecycle!Rollback
<1>5. ASSUME NEW t \in Tasks, ValidateFinish(t) \/ ValidateRaises(t) PROVE Arrow
  <2>1. CASE ValidateRaises(t)
    BY <1>a, <2>1 DEF ValidateRaises
  <2>2. CASE ValidateFinish(t)
    <3>1. rec.phase = "validating"
      BY <1>0, <2>2 DEF ValidateFinish, At, InStep
    <3>2. rec'.phase \in {"awaiting_approval", "validation_failed"} /\ Strategy' = Strategy
      BY <1>0, <2>2, PhaseAfter DEF ValidateFinish, Emit, Judged, Phases, Strategy
    <3>3. QED
      BY <3>1, <3>2 DEF Lifecycle!Report
  <2>3. QED
    BY <1>5, <2>1, <2>2
\* The two ways on from a task that sets a run up or has loaded.
<1>b. ASSUME NEW t \in Tasks, rec.phase = "approved", Loads, BeginLoad(t) PROVE Arrow
  <2>1. rec'.phase = "migrating" /\ Strategy' = Strategy
    BY <1>0, <1>b, PhaseAfter DEF BeginLoad, Emit, Phases, Strategy
  <2>2. QED
    BY <1>b, <2>1 DEF Lifecycle!Load, Loads, LoadingStrategies, Lifecycle!LoadingStrategies
<1>c. ASSUME NEW t \in Tasks, NEW r, r = rec \/ r = [rec EXCEPT !.replId = TRUE],
             Continuous, rec.phase = IF Loads THEN "migrating" ELSE "approved",
             BeginReplication(t, r)
      PROVE  Arrow
  <2>1. r \in Record /\ r.plan = rec.plan
    BY <1>0, <1>c DEF Record
  <2>2. rec'.phase = "replicating" /\ Strategy' = Strategy
    BY <1>c, <2>1, PhaseAfter DEF BeginReplication, Emit, Phases, Strategy
  <2>3. QED
    BY <1>c, <2>2 DEF Lifecycle!Replicate, Loads, Continuous, LoadingStrategies,
         ContinuousStrategies, Lifecycle!LoadingStrategies, Lifecycle!ContinuousStrategies
<1>6. ASSUME NEW t \in Tasks,
             RunEnter(t) \/ BucketReady(t) \/ SetupRaises(t) \/ CollectionsReady(t)
      PROVE  Arrow
  <2>1. CASE RunEnter(t) \/ SetupRaises(t)
    BY <1>a, <2>1 DEF RunEnter, SetupRaises
  <2>2. CASE BucketReady(t)
    BY <1>0, <1>a, <1>b, <2>2 DEF BucketReady, At, InStep
  <2>3. CASE CollectionsReady(t)
    <3>1. rec.phase = "approved" /\ (Loads \/ Continuous)
      BY <1>0, <2>3 DEF CollectionsReady, At, InStep, Consistent, Loads, Continuous, Strategy,
                        Strategies, LoadingStrategies, ContinuousStrategies
    <3>2. QED
      BY <1>b, <1>c, <2>3, <3>1 DEF CollectionsReady
  <2>4. QED
    BY <1>6, <2>1, <2>2, <2>3
<1>7. ASSUME NEW t \in Tasks, NEW c \in Containers, LoadBatch(t, c) \/ ContainerLoaded(t, c)
      PROVE  Arrow
  BY <1>a, <1>7 DEF LoadBatch, ContainerLoaded
<1>8. ASSUME NEW t \in Tasks, LoadDone(t) \/ NativeLoadFails(t) \/ AfterLoad(t) PROVE Arrow
  <2>1. CASE LoadDone(t)
    BY <1>a, <2>1 DEF LoadDone, EmitOrNot
  <2>2. CASE NativeLoadFails(t)
    BY <2>2 DEF NativeLoadFails, PatientOperator
  <2>3. CASE AfterLoad(t)
    <3>1. rec.phase = "migrating" /\ Loads
      BY <1>0, <2>3 DEF AfterLoad, At, InStep, Loads, Strategy
    <3>2. CASE ~Continuous /\ Emit(InPhase(rec, "verifying"))
      <4>1. rec'.phase = "verifying" /\ Strategy' = Strategy
        BY <1>0, <3>2, PhaseAfter DEF Emit, Phases, Strategy
      <4>2. QED
        BY <3>1, <3>2, <4>1 DEF Lifecycle!Verify, Continuous, ContinuousStrategies,
                                    Lifecycle!ContinuousStrategies
    <3>3. CASE Continuous /\ BeginReplication(t, rec)
      BY <1>c, <3>1, <3>3
    <3>4. QED
      BY <1>a, <2>3, <3>2, <3>3 DEF AfterLoad
  <2>4. QED
    BY <1>8, <2>1, <2>2, <2>3
<1>9. ASSUME NEW t \in Tasks, RefCreated(t) \/ ReplicationCreated(t) \/ ReplicationRecorded(t)
      PROVE  Arrow
  <2>1. CASE ReplicationRecorded(t)
    <3>1. Continuous /\ rec.phase = IF Loads THEN "migrating" ELSE "approved"
      BY <1>0, <2>1 DEF ReplicationRecorded, At, InStep, Continuous, Loads, Strategy
    <3>2. QED
      BY <1>c, <2>1, <3>1 DEF ReplicationRecorded
  <2>2. QED
    BY <1>a, <1>9, <2>1 DEF RefCreated, ReplicationCreated
<1>10. ASSUME NEW t \in Tasks, MonitorEvent(t) \/ MonitorExit(t) \/ EventApplied(t) PROVE Arrow
  BY <1>a, <1>10 DEF MonitorEvent, MonitorExit, EventApplied
<1>11. ASSUME NEW t \in Tasks,
              Verified(t) \/ RunFails(t) \/ CutoverVerified(t) \/ CutoverRaises(t)
       PROVE  Arrow
  <2>1. CASE Verified(t) \/ CutoverVerified(t)
    <3>1. rec.phase = "verifying"
      BY <1>0, <2>1 DEF Verified, CutoverVerified, At, InStep
    <3>2. rec'.phase = "complete" /\ Strategy' = Strategy
      BY <1>0, <2>1, PhaseAfter DEF Verified, CutoverVerified, Emit, Phases, Strategy
    <3>3. QED
      BY <3>1, <3>2 DEF Lifecycle!Complete
  <2>2. CASE RunFails(t)
    <3>1. task[t] \in RunStages \ {"monitor", "apply"}
      BY <2>2 DEF RunFails, At, RunStages, PatientOperator
    <3>2. rec.phase \in Orphanable \cup {"approved"}
      BY <1>0, <3>1 DEF InStep, RunStages, Orphanable
    <3>3. rec'.phase = "failed" /\ Strategy' = Strategy
      BY <1>0, <2>2, PhaseAfter DEF RunFails, Emit, Phases, Strategy
    <3>4. QED
      BY <3>2, <3>3 DEF Lifecycle!Fail, Orphanable, Lifecycle!Orphanable
  <2>3. CASE CutoverRaises(t)
    BY <1>a, <2>3 DEF CutoverRaises
  <2>4. QED
    BY <1>11, <2>1, <2>2, <2>3
<1>12. ASSUME NEW t \in Tasks, RollbackResume(t) \/ PurgeDone(t) \/ PurgeFails(t) PROVE Arrow
  <2>1. rec.phase = "rolling_back"
    BY <1>0, <1>12 DEF RollbackResume, PurgeDone, PurgeFails, At, InStep
  <2>2. CASE \E p \in BOOLEAN : RolledBack(t, p)
    <3>1. rec'.phase = "rolled_back" /\ Strategy' = Strategy
      BY <1>0, <2>2, PhaseAfter DEF RolledBack, Emit, Phases, Strategy
    <3>2. QED
      BY <2>1, <3>1 DEF Lifecycle!RolledBack
  <2>3. CASE PurgeFails(t)
    <3>1. rec'.phase = "failed" /\ Strategy' = Strategy
      BY <1>0, <2>3, PhaseAfter DEF PurgeFails, Emit, Phases, Strategy
    <3>2. QED
      BY <2>1, <3>1 DEF Lifecycle!Fail, Orphanable, Lifecycle!Orphanable
  <2>4. QED
    BY <1>12, <1>a, <2>2, <2>3 DEF RollbackResume, PurgeDone
<1>13. ASSUME NEW t \in Tasks, NEW c \in Containers, PurgeContainer(t, c) PROVE Arrow
  BY <1>a, <1>13 DEF PurgeContainer
<1>14. CASE UNCHANGED vars
  BY <1>14 DEF vars, Strategy
<1> HIDE DEF Lifecycle!Next, Lifecycle!lifecycle, Lifecycle!Move
<1>15. CASE Next
  BY <1>15, NextCases, <1>1, <1>2, <1>3, <1>4, <1>5, <1>6, <1>7, <1>8, <1>9, <1>10,
     <1>11, <1>12, <1>13
<1>16. QED
  BY <1>14, <1>15

\* The invariant holds throughout, whatever the tasks, plans and remaining budget.
LEMMA PatientAlways ==
    ASSUME PatientOperator
    PROVE  Spec => []PatientInv
<1>1. Init => TypeOK /\ Durable
  BY EngineAssumption DEF Init, NewRecord, TypeOK, Durable, Record, Phases, Stages
<1>2. Init => PatientInv
  <2> SUFFICES ASSUME Init PROVE PatientInv
    OBVIOUS
  <2>1. PICK plan \in Plans : rec = NewRecord(plan)
    BY DEF Init
  <2>2. Consistent(rec)
    BY <2>1, EngineAssumption DEF Consistent, NewRecord, Early
  <2>3. TasksInStep /\ OneAtATime
    BY DEF Init, TasksInStep, InStep, OneAtATime, Busy
  <2>4. StartedOnce
    BY DEF Init, StartedOnce, PatientOperator, RunStages
  <2>5. QED
    BY <1>1, <2>2, <2>3, <2>4 DEF Init, PatientInv
<1>3. PatientInv /\ [Next]_vars => PatientInv'
  BY PatientStep
<1>4. QED
  BY <1>2, <1>3, PTL DEF Spec

\* The engine implements the documented lifecycle, progress apart: for a patient
\* operator the phases the record goes through are those the header of
\* migration_engine.py draws, in an order it draws.
THEOREM FollowsLifecycle ==
    ASSUME PatientOperator
    PROVE  Spec => Lifecycle!Init /\ [][Lifecycle!Next]_(Lifecycle!lifecycle)
<1>1. Init => Lifecycle!Init
  BY EngineAssumption DEF Init, NewRecord, Lifecycle!Init, Lifecycle!Strategies, Strategies,
                          Strategy
<1>2. PatientInv /\ [Next]_vars => [Lifecycle!Next]_(Lifecycle!lifecycle)
  BY LifecycleStep
<1>3. QED
  BY <1>1, <1>2, PatientAlways, PTL DEF Spec

\* COMPLETE and STOPPED are left by a rollback alone: no monitor, late event or
\* finished run of a patient operator's migration takes the record out of them.
THEOREM TerminalPhasesStay == ASSUME PatientOperator PROVE Spec => TerminalStays
<1>1. PatientInv /\ [Next]_vars =>
        (rec.phase \in {"complete", "stopped"} => rec.phase' \in {rec.phase, "rolling_back"})
  <2> SUFFICES ASSUME PatientInv, [Next]_vars, rec.phase \in {"complete", "stopped"}
               PROVE  rec.phase' \in {rec.phase, "rolling_back"}
    OBVIOUS
  <2>1. [Lifecycle!Next]_(Lifecycle!lifecycle)
    BY LifecycleStep
  <2>2. CASE UNCHANGED Lifecycle!lifecycle
    BY <2>2 DEF Lifecycle!lifecycle
  <2>3. CASE Lifecycle!Next
    BY <2>3 DEF Lifecycle!Next, Lifecycle!Validate, Lifecycle!Report, Lifecycle!Approve,
         Lifecycle!Load, Lifecycle!Replicate, Lifecycle!Verify, Lifecycle!Complete,
         Lifecycle!Halt, Lifecycle!Fail, Lifecycle!Rollback, Lifecycle!RolledBack,
         Lifecycle!Move, Lifecycle!Orphanable
  <2>4. QED
    BY <2>1, <2>2, <2>3
<1>2. QED
  BY <1>1, PatientAlways, PTL DEF Spec, TerminalStays

\* stats.replication_active is set whenever the record replicates, and cleared
\* whenever it says COMPLETE, STOPPED or ROLLED_BACK.
THEOREM ActiveFlagFollowsPhase == ASSUME PatientOperator PROVE Spec => []ActiveFlagAgrees
<1>1. PatientInv => ActiveFlagAgrees
  BY DEF PatientInv, Consistent, ActiveFlagAgrees
<1>2. QED
  BY <1>1, PatientAlways, PTL

-------------------------------------------------------------------------------
(* A patient operator: no replication left behind, nothing left after a purge *)

\* A replication exists for a Couchbase source with a continuous mode alone.  One the
\* engine never heard of goes with a run that failed before any id was recorded; one
\* it heard of goes with the phases from which a stop or a rollback still leads on,
\* and outlives a rollback only after a restart.
OrphanInv ==
    /\ Linked # {} => Native /\ Continuous
    /\ "unheard" \in xdcr => ~rec.replId /\ rec.phase \in {"failed", "rolling_back", "rolled_back"}
    /\ "repl" \in xdcr => rec.phase \in {"approved", "migrating", "replicating", "failed",
                                         "rolling_back", "rolled_back"}
    /\ "repl" \in xdcr /\ rec.phase = "rolled_back" => Restarted
    /\ Native /\ rec.phase = "replicating" => rec.replId

\* Whoever takes the record out of those phases has taken the replication down
\* first: its id is recorded by then, for a task about to record it is busy.
LEMMA OrphanStep ==
    ASSUME PatientOperator, "teardown" \notin Faults, PatientInv, KnownInv, OrphanInv,
           [Next]_vars
    PROVE  OrphanInv'
<1> DEFINE Lost == {"failed", "rolling_back", "rolled_back"}
           Kept == {"approved", "migrating", "replicating"} \cup Lost
<1>0. /\ rec \in Record /\ rec.phase \in Phases /\ stored /\ Durable
      /\ \A t \in Tasks : InStep(task[t], rec)
  BY DEF PatientInv, TasksInStep, TypeOK, Record
<1>1. /\ Restarted => Restarted'
      /\ Restart => Restarted'
  BY RestartsCounted DEF PatientInv, KnownInv
<1>2. /\ rec.phase \notin Lost => "unheard" \notin xdcr
      /\ rec.phase \notin Kept => Linked = {}
  BY DEF OrphanInv, Linked
\* A step that creates no replication, records no id, and neither begins to
\* replicate nor ends a rollback.
<1>a. ASSUME rec'.plan = rec.plan, rec'.replId = rec.replId, xdcr' \subseteq xdcr,
             rec'.phase \in {"replicating", "rolled_back"} => rec'.phase = rec.phase,
             "unheard" \in xdcr' => rec'.phase \in Lost,
             "repl" \in xdcr' => rec'.phase \in Kept
      PROVE  OrphanInv'
  BY <1>1, <1>a DEF OrphanInv, Linked, Native, Continuous, Strategy
<1>b. ASSUME NoEmit \/ EmitOrNot, xdcr' \subseteq xdcr PROVE OrphanInv'
  <2>1. rec' = rec
    BY <1>b DEF NoEmit, EmitOrNot, Emit
  <2>2. QED
    BY <1>a, <1>b, <2>1 DEF OrphanInv
\* A step to a phase where nothing may be left, from one where nothing is.
<1>c. ASSUME rec.phase \notin Kept, rec'.plan = rec.plan, rec'.replId = rec.replId,
             UNCHANGED xdcr, rec'.phase \notin {"replicating", "rolled_back"}
      PROVE  OrphanInv'
  BY <1>2, <1>a, <1>c DEF Linked
<1>d. ASSUME NEW p \in {"failed", "rolling_back"}, rec'.plan = rec.plan,
             rec'.replId = rec.replId, rec'.phase = p, xdcr' \subseteq xdcr
      PROVE  OrphanInv'
  BY <1>a, <1>d
<1>e. ASSUME Emit(InPhase(rec, "failed")), UNCHANGED xdcr PROVE OrphanInv'
  BY <1>0, <1>d, <1>e, PhaseAfter DEF Emit, Phases
\* A step that begins to replicate, with an id or with a source that needs none.
<1>f. ASSUME NEW t \in Tasks, NEW r, BeginReplication(t, r), UNCHANGED xdcr,
             (r = rec /\ ~Native) \/ r = [rec EXCEPT !.replId = TRUE],
             rec.phase \notin Lost
      PROVE  OrphanInv'
  <2>1. r \in Record /\ r.plan = rec.plan /\ (Native => r.replId)
    BY <1>0, <1>f DEF Record
  <2>2. rec'.phase = "replicating" /\ rec'.plan = rec.plan /\ (Native => rec'.replId)
    BY <1>f, <2>1 DEF BeginReplication, Emit, Record
  <2>3. QED
    BY <1>2, <1>f, <2>2 DEF OrphanInv, Linked, Native, Continuous, Strategy
\* A stop or the end of a rollback, while no task but t is busy.
<1>g. ASSUME NEW t \in Tasks, task[t] # "linked",
             task[t] \in Busy \/ (\A u \in Tasks : task[u] \notin Busy),
             rec'.plan = rec.plan, rec'.replId = rec.replId, Teardown,
             \/ rec.phase = "replicating" /\ rec'.phase \in {"stopped", "verifying"}
             \/ rec.phase = "rolling_back" /\ rec'.phase \in {"rolling_back", "rolled_back"}
      PROVE  OrphanInv'
  <2>1. \A u \in Tasks : task[u] # "linked"
    BY <1>g DEF PatientInv, OneAtATime, Busy, Stages, RunStages
  <2>2. "repl" \in xdcr /\ ~Restarted => rec.replId
    BY <2>1 DEF KnownInv
  <2>3. CASE Native /\ rec.replId
    <3>1. "unheard" \notin xdcr
      BY <2>3 DEF OrphanInv
    <3>2. xdcr' = {}
      BY <1>g, <2>3, <3>1 DEF Teardown
    <3>3. QED
      BY <1>g, <3>2 DEF OrphanInv, Linked, Native
  <2>4. CASE ~(Native /\ rec.replId)
    <3>1. xdcr' = xdcr
      BY <1>g, <2>4 DEF Teardown
    <3>2. "repl" \in xdcr => Restarted
      BY <2>2, <2>4 DEF OrphanInv, Linked
    <3>3. rec.phase = "replicating" => Linked = {}
      BY <2>4 DEF OrphanInv, Linked
    <3>4. QED
      BY <1>1, <1>g, <3>1, <3>2, <3>3 DEF OrphanInv, Linked, Native, Continuous, Strategy
  <2>5. QED
    BY <2>3, <2>4
<1>3. CASE Restart
  <2>1. rec' = Reconciled(rec) /\ UNCHANGED xdcr
    BY <1>0, <1>3 DEF Restart, Durable, Emit
  <2>2. rec' = rec \/ rec' = InPhase(rec, "failed")
    BY <2>1 DEF Reconciled
  <2>3. CASE rec' = rec
    BY <1>a, <2>1, <2>3 DEF OrphanInv
  <2>4. CASE rec' = InPhase(rec, "failed")
    BY <1>0, <1>d, <2>1, <2>4, PhaseAfter DEF Phases
  <2>5. QED
    BY <2>2, <2>3, <2>4
<1>4. ASSUME NEW t \in Tasks, Validate(t) \/ Approve(t) \/ Start(t) \/ Delete(t)
      PROVE  OrphanInv'
  <2>1. CASE Validate(t)
    <3>1. rec.phase \notin Kept
      BY <1>0, <2>1 DEF Validate, Ask, PatientOperator
    <3>2. QED
      BY <1>0, <1>c, <2>1, <3>1, PhaseAfter DEF Validate, Emit, Phases
  <2>2. CASE Approve(t)
    <3>1. rec'.plan = rec.plan /\ rec'.replId = rec.replId /\ rec'.phase = "approved"
      BY <1>0, <2>2 DEF Approve, Emit, Record
    <3>2. QED
      BY <1>c, <2>2, <3>1 DEF Approve
  <2>3. CASE Start(t)
    BY <1>b, <2>3 DEF Start
  <2>4. CASE Delete(t)
    BY <1>0, <2>4 DEF Delete, Ask, PatientOperator
  <2>5. QED
    BY <1>4, <2>1, <2>2, <2>3, <2>4
<1>5. ASSUME NEW t \in Tasks, NEW cutover \in BOOLEAN, Stop(t, cutover) PROVE OrphanInv'
  <2>1. rec.phase = "replicating" /\ task[t] = "idle" /\ Teardown
    BY <1>5 DEF Stop, Ask, At
  <2>2. /\ rec'.plan = rec.plan /\ rec'.replId = rec.replId
        /\ rec'.phase \in {"stopped", "verifying"}
    BY <1>0, <1>5 DEF Stop, Emit, Record
  <2>3. \A u \in Tasks : task[u] \notin Busy
    BY <2>1, NobodyBusy
  <2>4. QED
    BY <1>g, <2>1, <2>2, <2>3
<1>6. ASSUME NEW t \in Tasks, NEW purge \in BOOLEAN, Rollback(t, purge) PROVE OrphanInv'
  <2>1. rec'.plan = rec.plan /\ rec'.replId = rec.replId /\ rec'.phase = "rolling_back"
    BY <1>0, <1>6 DEF Rollback, Emit, Record
  <2>2. QED
    BY <1>6, <1>d, <2>1 DEF Rollback
<1>7. ASSUME NEW t \in Tasks, ValidateFinish(t) \/ ValidateRaises(t) PROVE OrphanInv'
  <2>1. CASE ValidateRaises(t)
    BY <1>b, <2>1 DEF ValidateRaises
  <2>2. CASE ValidateFinish(t)
    <3>1. rec.phase = "validating"
      BY <1>0, <2>2 DEF ValidateFinish, At, InStep
    <3>2. PICK ok \in BOOLEAN : Emit(Judged(rec, ok))
      BY <2>2 DEF ValidateFinish
    <3>3. /\ rec'.plan = rec.plan /\ rec'.replId = rec.replId
          /\ rec'.phase \in {"awaiting_approval", "validation_failed"}
      BY <1>0, <3>2 DEF Emit, Judged, Record
    <3>4. QED
      BY <1>c, <2>2, <3>1, <3>3 DEF ValidateFinish
  <2>3. QED
    BY <1>7, <2>1, <2>2
<1>h. ASSUME NEW t \in Tasks, BeginLoad(t), UNCHANGED xdcr, rec.phase = "approved"
      PROVE  OrphanInv'
  <2>1. rec'.plan = rec.plan /\ rec'.replId = rec.replId /\ rec'.phase = "migrating"
    BY <1>0, <1>h, PhaseAfter DEF BeginLoad, Emit, Phases
  <2>2. QED
    BY <1>2, <1>a, <1>h, <2>1
<1>8. ASSUME NEW t \in Tasks,
             RunEnter(t) \/ BucketReady(t) \/ SetupRaises(t) \/ CollectionsReady(t)
      PROVE  OrphanInv'
  <2>1. CASE RunEnter(t) \/ SetupRaises(t)
    BY <1>b, <2>1 DEF RunEnter, SetupRaises
  <2>2. CASE BucketReady(t)
    <3>1. rec.phase = "approved"
      BY <1>0, <2>2 DEF BucketReady, At, InStep
    <3>2. QED
      BY <1>b, <1>h, <2>2, <3>1 DEF BucketReady
  <2>3. CASE CollectionsReady(t)
    <3>1. rec.phase = "approved" /\ ~Native
      BY <1>0, <2>3 DEF CollectionsReady, At, InStep, Native
    <3>2. QED
      BY <1>f, <1>h, <2>3, <3>1 DEF CollectionsReady
  <2>4. QED
    BY <1>8, <2>1, <2>2, <2>3
<1>9. ASSUME NEW t \in Tasks, NEW c \in Containers, LoadBatch(t, c) \/ ContainerLoaded(t, c)
      PROVE  OrphanInv'
  BY <1>b, <1>9 DEF LoadBatch, ContainerLoaded
<1>10. ASSUME NEW t \in Tasks, LoadDone(t) \/ NativeLoadFails(t) \/ AfterLoad(t)
      PROVE  OrphanInv'
  <2>1. CASE LoadDone(t)
    BY <1>b, <2>1 DEF LoadDone, EmitOrNot
  <2>2. CASE NativeLoadFails(t)
    BY <1>e, <2>2 DEF NativeLoadFails
  <2>3. CASE AfterLoad(t)
    <3>1. task[t] = "loaded" /\ rec.phase = "migrating" /\ UNCHANGED xdcr
      BY <1>0, <2>3 DEF AfterLoad, At, InStep
    <3>2. CASE Emit(InPhase(rec, "verifying")) /\ ~Continuous
      <4>1. rec'.replId = rec.replId /\ rec'.plan = rec.plan /\ rec'.phase = "verifying"
        BY <1>0, <3>2, PhaseAfter DEF Emit, Phases
      <4>2. Linked = {}
        BY <3>2 DEF OrphanInv
      <4>3. QED
        BY <1>a, <3>1, <4>1, <4>2 DEF Linked
    <3>3. CASE BeginReplication(t, rec) /\ ~Native
      BY <1>f, <3>1, <3>3
    <3>4. CASE NoEmit
      BY <1>b, <3>1, <3>4
    <3>5. QED
      BY <2>3, <3>1, <3>2, <3>3, <3>4 DEF AfterLoad
  <2>4. QED
    BY <1>10, <2>1, <2>2, <2>3
<1>11. ASSUME NEW t \in Tasks, RefCreated(t) \/ ReplicationCreated(t) \/ ReplicationRecorded(t)
       PROVE  OrphanInv'
  <2>1. /\ Native /\ Continuous /\ rec.phase \in {"approved", "migrating"}
        /\ "unheard" \notin xdcr
    BY <1>0, <1>2, <1>11
       DEF RefCreated, ReplicationCreated, ReplicationRecorded, At, InStep, Native, Continuous,
           Strategy
  <2>2. CASE ReplicationRecorded(t)
    BY <1>f, <2>1, <2>2 DEF ReplicationRecorded
  <2>3. CASE RefCreated(t) \/ ReplicationCreated(t)
    <3>1. rec' = rec /\ "unheard" \notin xdcr'
      BY <2>1, <2>3 DEF RefCreated, ReplicationCreated, NoEmit
    <3>2. QED
      BY <2>1, <3>1 DEF OrphanInv, Native, Continuous, Strategy
  <2>4. QED
    BY <1>11, <2>2, <2>3
<1>12. ASSUME NEW t \in Tasks, MonitorEvent(t) \/ MonitorExit(t) \/ EventApplied(t)
       PROVE  OrphanInv'
  BY <1>b, <1>12 DEF MonitorEvent, MonitorExit, EventApplied
<1>13. ASSUME NEW t \in Tasks,
              Verified(t) \/ RunFails(t) \/ CutoverVerified(t) \/ CutoverRaises(t)
       PROVE  OrphanInv'
  <2>1. CASE Verified(t) \/ CutoverVerified(t)
    <3>1. rec.phase = "verifying"
      BY <1>0, <2>1 DEF Verified, CutoverVerified, At, InStep
    <3>2. rec'.replId = rec.replId /\ rec'.plan = rec.plan /\ rec'.phase = "complete"
      BY <1>0, <2>1, PhaseAfter DEF Verified, CutoverVerified, Emit, Phases
    <3>3. QED
      BY <1>c, <2>1, <3>1, <3>2 DEF Verified, CutoverVerified
  <2>2. CASE RunFails(t)
    <3>1. rec'.replId = rec.replId /\ rec'.plan = rec.plan /\ rec'.phase = "failed"
      BY <1>0, <2>2, PhaseAfter DEF RunFails, Emit, Phases
    <3>2. CASE UNCHANGED xdcr
      BY <1>d, <3>1, <3>2
\* The request was served: a reference more, or a replication nobody heard of.
    <3>3. CASE At(t, "ref") /\ xdcr' = xdcr \cup {"ref"}
      BY <3>1, <3>3 DEF OrphanInv, Linked, Native, Continuous, Strategy
    <3>4. CASE At(t, "link") /\ Linked = {} /\ xdcr' = xdcr \cup {"unheard"}
      <4>1. Native /\ Continuous /\ rec.phase \in Early
        BY <1>0, <3>4 DEF At, InStep, Native, Continuous, Strategy, Early
      <4>2. ~rec.replId
        BY <4>1 DEF PatientInv, Consistent
      <4>3. QED
        BY <3>1, <3>4, <4>1, <4>2 DEF OrphanInv, Linked, Native, Continuous, Strategy
    <3>5. QED
      BY <2>2, <3>2, <3>3, <3>4 DEF RunFails
  <2>3. CASE CutoverRaises(t)
    BY <1>b, <2>3 DEF CutoverRaises
  <2>4. QED
    BY <1>13, <2>1, <2>2, <2>3
<1>14. ASSUME NEW t \in Tasks, RollbackResume(t) \/ PurgeDone(t) \/ PurgeFails(t)
       PROVE  OrphanInv'
  <2>1. CASE RollbackResume(t)
    <3>1. task[t] = "undo" /\ Teardown /\ rec.phase = "rolling_back"
      BY <1>0, <2>1 DEF RollbackResume, At, InStep
    <3>2. /\ rec'.plan = rec.plan /\ rec'.replId = rec.replId
          /\ rec'.phase \in {"rolling_back", "rolled_back"}
      <4>1. CASE NoEmit
        BY <3>1, <4>1 DEF NoEmit
      <4>2. CASE RolledBack(t, FALSE)
        BY <1>0, <4>2 DEF RolledBack, Emit, Record
      <4>3. QED
        BY <2>1, <4>1, <4>2 DEF RollbackResume
    <3>3. QED
      BY <1>g, <3>1, <3>2 DEF Busy, Stages, RunStages
  <2>2. CASE PurgeDone(t)
    <3>1. ~Native /\ UNCHANGED xdcr
      BY <1>0, <2>2 DEF PurgeDone, At, InStep, Native
    <3>2. rec'.plan = rec.plan
      BY <1>0, <2>2 DEF PurgeDone, RolledBack, Emit
    <3>3. Linked = {}
      BY <3>1 DEF OrphanInv
    <3>4. QED
      BY <3>1, <3>2, <3>3 DEF OrphanInv, Linked, Native
  <2>3. CASE PurgeFails(t)
    BY <1>e, <2>3 DEF PurgeFails
  <2>4. QED
    BY <1>14, <2>1, <2>2, <2>3
<1>15. ASSUME NEW t \in Tasks, NEW c \in Containers, PurgeContainer(t, c) PROVE OrphanInv'
  BY <1>b, <1>15 DEF PurgeContainer
<1>16. CASE UNCHANGED vars
  <2>1. rec' = rec /\ xdcr' = xdcr
    BY <1>16 DEF vars
  <2>2. QED
    BY <1>a, <2>1 DEF OrphanInv
<1>17. CASE Next
  BY <1>17, NextCases, <1>3, <1>4, <1>5, <1>6, <1>7, <1>8, <1>9, <1>10, <1>11, <1>12,
     <1>13, <1>14, <1>15
<1>18. QED
  BY <1>16, <1>17

\* In COMPLETE or STOPPED no replication of this migration runs on, and in
\* ROLLED_BACK none whose creation was answered, where the source cluster answers the
\* teardown and no restart came between.  Creation itself may go unanswered.
THEOREM SettledMeansTornDown ==
    ASSUME PatientOperator, "teardown" \notin Faults
    PROVE  Spec => []NoOrphanReplication
<1>1. Init => KnownInv /\ OrphanInv
  <2>1. Budget["restart"] \in Nat
    BY EngineAssumption
  <2>2. QED
    BY <2>1 DEF Init, NewRecord, KnownInv, OrphanInv, Linked
<1>2. OrphanInv => NoOrphanReplication
  BY DEF OrphanInv, NoOrphanReplication, Linked
<1>3. TypeOK /\ PatientInv /\ KnownInv /\ OrphanInv /\ [Next]_vars => KnownInv' /\ OrphanInv'
  BY KnownStep, OrphanStep
<1>4. QED
  BY <1>1, <1>2, <1>3, PatientAlways, TypeCorrect, PTL DEF Spec

\* The stages of a run, from its start on.
InRun == {"scheduled", "provision"} \cup RunStages

\* Two tasks never run one migration at a time: nobody else is in a run when the
\* one start is used up.
OneRunner == \A t, u \in Tasks : task[t] \in InRun /\ task[u] \in InRun => t = u

LEMMA RunnerStep ==
    ASSUME PatientOperator, PatientInv, OneRunner, [Next]_vars
    PROVE  OneRunner'
<1>0. task \in [Tasks -> Stages]
  BY DEF PatientInv, TypeOK
<1>a. ASSUME NEW t \in Tasks, NEW s, Goto(t, s),
             s \in InRun => task[t] \in InRun \/ \A u \in Tasks : task[u] \notin InRun
      PROVE  OneRunner'
  <2>1. \A u \in Tasks : task'[u] = IF u = t THEN s ELSE task[u]
    BY <1>0, <1>a DEF Goto
  <2>2. QED
    BY <1>a, <2>1 DEF OneRunner
<1>b. ASSUME UNCHANGED task PROVE OneRunner'
  BY <1>b DEF OneRunner
<1> USE DEF At, InRun, RunStages
<1>1. CASE Restart
  BY <1>1 DEF Restart, OneRunner
<1>2. ASSUME NEW t \in Tasks, Validate(t) \/ Approve(t) \/ Start(t) \/ Delete(t)
      PROVE  OneRunner'
  <2>1. CASE Start(t)
    <3>1. budget["start"] > 0
      BY <2>1 DEF Start, Ask
    <3>2. \A u \in Tasks : task[u] \notin InRun
      BY <3>1 DEF PatientInv, StartedOnce
    <3>3. QED
      BY <1>a, <2>1, <3>2 DEF Start
  <2>2. CASE Validate(t) \/ Approve(t) \/ Delete(t)
    BY <1>a, <1>b, <2>2 DEF Validate, Approve, Delete
  <2>3. QED
    BY <1>2, <2>1, <2>2
<1>3. ASSUME NEW t \in Tasks, NEW cutover \in BOOLEAN, Stop(t, cutover) PROVE OneRunner'
  BY <1>3, <1>a DEF Stop
<1>4. ASSUME NEW t \in Tasks, NEW purge \in BOOLEAN, Rollback(t, purge) PROVE OneRunner'
  BY <1>4, <1>a DEF Rollback
<1>5. ASSUME NEW t \in Tasks, ValidateFinish(t) \/ ValidateRaises(t) PROVE OneRunner'
  BY <1>5, <1>a DEF ValidateFinish, ValidateRaises
<1>6. ASSUME NEW t \in Tasks,
             RunEnter(t) \/ BucketReady(t) \/ SetupRaises(t) \/ CollectionsReady(t)
      PROVE  OneRunner'
  BY <1>6, <1>a DEF RunEnter, BucketReady, SetupRaises, CollectionsReady, BeginLoad,
                    BeginReplication
<1>7. ASSUME NEW t \in Tasks, NEW c \in Containers, LoadBatch(t, c) \/ ContainerLoaded(t, c)
      PROVE  OneRunner'
  BY <1>7, <1>b DEF LoadBatch, ContainerLoaded
<1>8. ASSUME NEW t \in Tasks, LoadDone(t) \/ NativeLoadFails(t) \/ AfterLoad(t)
      PROVE  OneRunner'
  BY <1>8, <1>a DEF LoadDone, NativeLoadFails, AfterLoad, BeginReplication
<1>9. ASSUME NEW t \in Tasks, RefCreated(t) \/ ReplicationCreated(t) \/ ReplicationRecorded(t)
      PROVE  OneRunner'
  BY <1>9, <1>a DEF RefCreated, ReplicationCreated, ReplicationRecorded, BeginReplication
<1>10. ASSUME NEW t \in Tasks, MonitorEvent(t) \/ MonitorExit(t) \/ EventApplied(t)
       PROVE  OneRunner'
  BY <1>10, <1>a DEF MonitorEvent, MonitorExit, EventApplied
<1>11. ASSUME NEW t \in Tasks,
              Verified(t) \/ RunFails(t) \/ CutoverVerified(t) \/ CutoverRaises(t)
       PROVE  OneRunner'
  BY <1>11, <1>a DEF Verified, RunFails, CutoverVerified, CutoverRaises
<1>12. ASSUME NEW t \in Tasks, RollbackResume(t) \/ PurgeDone(t) \/ PurgeFails(t)
       PROVE  OneRunner'
  BY <1>12, <1>a DEF RollbackResume, PurgeDone, PurgeFails, RolledBack
<1>13. ASSUME NEW t \in Tasks, NEW c \in Containers, PurgeContainer(t, c) PROVE OneRunner'
  BY <1>13, <1>b DEF PurgeContainer
<1>14. CASE UNCHANGED vars
  BY <1>b, <1>14 DEF vars
<1> HIDE DEF At, InRun, RunStages
<1>15. CASE Next
  BY <1>15, NextCases, <1>1, <1>2, <1>3, <1>4, <1>5, <1>6, <1>7, <1>8, <1>9, <1>10, <1>11,
     <1>12, <1>13
<1>16. QED
  BY <1>14, <1>15

\* What is left in the destination is in S or was missed by a query, except for the
\* last change event, once that is applied.
PurgedTo(S) ==
    \/ dest \subseteq S \cup missed
    \/ /\ Continuous
       /\ \E c \in Containers : dest \subseteq S \cup missed \cup {c}
       /\ \A u \in Tasks : task[u] # "apply"

\* A rollback purges everything or nothing, and what is left in the destination is
\* what it has still to purge.
PurgeInv ==
    /\ OneRunner
    /\ \A t \in Tasks : task[t] = "undo" => todo[t] \in {{}, Containers}
    /\ \A t \in Tasks : task[t] = "purging" => PurgedTo(todo[t])
    /\ rec.phase = "rolled_back" /\ rec.purged => PurgedTo({})

\* Nothing is loaded while a rollback purges, for loading and purging are both busy;
\* and of the one monitor at most one event is under way.
LEMMA PurgeStep ==
    ASSUME PatientOperator, PatientInv, PurgeInv, [Next]_vars
    PROVE  PurgeInv'
<1>0. /\ rec \in Record /\ rec.phase \in Phases /\ stored /\ Durable
      /\ task \in [Tasks -> Stages] /\ todo \in [Tasks -> SUBSET Containers]
      /\ dest \in SUBSET Containers
      /\ \A t \in Tasks : InStep(task[t], rec)
  BY DEF PatientInv, TasksInStep, TypeOK, Record
<1>z. OneRunner'
  BY RunnerStep DEF PurgeInv
<1> DEFINE Settled == rec'.phase = "rolled_back" =>
                         rec.phase = "rolled_back" /\ rec'.purged = rec.purged
           Untouched == \A u \in Tasks :
                           /\ task'[u] \in {"undo", "purging"} =>
                                 task'[u] = task[u] /\ todo'[u] = todo[u]
                           /\ task'[u] = "apply" => task[u] = "apply"
\* What holds of a set holds of it still, and of a larger one.
<1>y. ASSUME NEW S, NEW T, PurgedTo(S), S \subseteq T, rec'.plan = rec.plan,
             UNCHANGED <<dest, missed>>,
             \A u \in Tasks : task'[u] = "apply" => task[u] = "apply"
      PROVE  PurgedTo(T)'
  BY <1>y DEF PurgedTo, Continuous, Strategy
\* A step that neither begins, continues nor ends a rollback, and loads nothing.
<1>a. ASSUME rec'.plan = rec.plan, UNCHANGED <<dest, missed>>, Settled, Untouched
      PROVE  PurgeInv'
  <2>1. ASSUME NEW t \in Tasks, task'[t] = "purging" PROVE PurgedTo(todo[t])'
    <3>1. task[t] = "purging" /\ todo'[t] = todo[t]
      BY <1>a, <2>1
    <3>2. PurgedTo(todo[t])
      BY <3>1 DEF PurgeInv
    <3>3. QED
      BY <1>a, <3>1, <3>2 DEF PurgedTo, Continuous, Strategy
  <2>2. ASSUME rec'.phase = "rolled_back", rec'.purged PROVE PurgedTo({})'
    <3>1. PurgedTo({})
      BY <1>a, <2>2 DEF PurgeInv
    <3>2. QED
      BY <1>a, <1>y, <3>1
  <2>3. QED
    BY <1>a, <1>z, <2>1, <2>2 DEF PurgeInv
\* What a task does elsewhere leaves rollbacks untouched.
<1>b. ASSUME NEW t \in Tasks, NEW s, s \notin {"undo", "purging", "apply"}, Goto(t, s),
             UNCHANGED todo \/ \E cs \in SUBSET Containers : Remaining(t, cs)
      PROVE  Untouched
  <2>1. \A u \in Tasks : task'[u] = IF u = t THEN s ELSE task[u]
    BY <1>0, <1>b DEF Goto
  <2>2. \A u \in Tasks \ {t} : todo'[u] = todo[u]
    BY <1>0, <1>b DEF Remaining
  <2>3. QED
    BY <1>b, <2>1, <2>2
<1>c. ASSUME NEW p \in Phases \ {"rolled_back"}, Emit(InPhase(rec, p))
      PROVE  rec'.plan = rec.plan /\ Settled
  BY <1>0, <1>c, PhaseAfter DEF Emit
<1>d. ASSUME NoEmit \/ EmitOrNot PROVE rec'.plan = rec.plan /\ Settled
  BY <1>d DEF NoEmit, EmitOrNot, Emit
<1>e. ASSUME UNCHANGED <<task, todo>> PROVE Untouched
  BY <1>e
<1>f. ASSUME NEW t \in Tasks, NEW r, r = rec \/ r = [rec EXCEPT !.replId = TRUE],
             BeginReplication(t, r), UNCHANGED <<todo, dest, missed>>
      PROVE  PurgeInv'
  <2>1. r \in Record /\ r.plan = rec.plan
    BY <1>0, <1>f DEF Record
  <2>2. rec'.plan = rec.plan /\ Settled
    BY <1>f, <2>1 DEF BeginReplication, Emit, Record
  <2>3. Untouched
    BY <1>b, <1>f DEF BeginReplication
  <2>4. QED
    BY <1>a, <1>f, <2>2, <2>3
<1>1. CASE Restart
  <2>1. rec' = Reconciled(rec) /\ UNCHANGED <<dest, missed>>
    BY <1>0, <1>1 DEF Restart, Durable, Emit
  <2>2. rec'.plan = rec.plan /\ Settled
    BY <1>0, <2>1, PhaseAfter DEF Reconciled, Phases
  <2>3. Untouched
    BY <1>1 DEF Restart
  <2>4. QED
    BY <1>a, <2>1, <2>2, <2>3
<1>2. ASSUME NEW t \in Tasks, Validate(t) \/ Approve(t) \/ Start(t) \/ Delete(t)
      PROVE  PurgeInv'
  <2>1. CASE Validate(t)
    BY <1>a, <1>b, <1>c, <2>1 DEF Validate, Phases
  <2>2. CASE Approve(t)
    <3>1. rec'.plan = rec.plan /\ Settled
      BY <1>0, <2>2 DEF Approve, Emit, Record
    <3>2. QED
      BY <1>a, <1>e, <2>2, <3>1 DEF Approve
  <2>3. CASE Start(t)
    BY <1>a, <1>b, <1>d, <2>3 DEF Start
  <2>4. CASE Delete(t)
    BY <1>0, <2>4 DEF Delete, Ask, PatientOperator
  <2>5. QED
    BY <1>2, <2>1, <2>2, <2>3, <2>4
<1>3. ASSUME NEW t \in Tasks, NEW cutover \in BOOLEAN, Stop(t, cutover) PROVE PurgeInv'
  <2>1. rec'.plan = rec.plan /\ Settled
    <3>1. rec'.phase = IF cutover THEN "verifying" ELSE "stopped"
      BY <1>0, <1>3 DEF Stop, Emit, Record
    <3>2. rec'.plan = rec.plan
      BY <1>0, <1>3 DEF Stop, Emit, Record
    <3>3. QED
      BY <3>1, <3>2
  <2>2. Untouched
    BY <1>b, <1>3 DEF Stop
  <2>3. QED
    BY <1>a, <1>3, <2>1, <2>2 DEF Stop
<1>4. ASSUME NEW t \in Tasks, NEW purge \in BOOLEAN, Rollback(t, purge) PROVE PurgeInv'
  <2>1. /\ rec'.plan = rec.plan /\ rec'.phase = "rolling_back"
        /\ dest' = dest /\ missed' = missed
    BY <1>0, <1>4 DEF Rollback, Emit, Record
  <2>2. \A u \in Tasks : /\ task'[u] = IF u = t THEN "undo" ELSE task[u]
                         /\ u # t => todo'[u] = todo[u]
    BY <1>0, <1>4 DEF Rollback, Goto, Remaining
  <2>3. todo'[t] \in {{}, Containers}
    BY <1>0, <1>4 DEF Rollback, Remaining
  <2>4. ASSUME NEW u \in Tasks, task'[u] = "purging" PROVE PurgedTo(todo[u])'
    <3>1. task[u] = "purging" /\ todo'[u] = todo[u]
      BY <2>2, <2>4
    <3>2. QED
      BY <2>1, <2>2, <3>1 DEF PurgeInv, PurgedTo, Continuous, Strategy
  <2>5. QED
    BY <1>z, <2>1, <2>2, <2>3, <2>4 DEF PurgeInv
<1>5. ASSUME NEW t \in Tasks, ValidateFinish(t) \/ ValidateRaises(t) PROVE PurgeInv'
  <2>1. CASE ValidateRaises(t)
    BY <1>a, <1>b, <1>d, <2>1 DEF ValidateRaises
  <2>2. CASE ValidateFinish(t)
    <3>1. PICK ok \in BOOLEAN : Emit(Judged(rec, ok))
      BY <2>2 DEF ValidateFinish
    <3>2. rec'.plan = rec.plan /\ rec'.phase # "rolled_back"
      BY <1>0, <3>1 DEF Emit, Judged, Record
    <3>3. QED
      BY <1>a, <1>b, <2>2, <3>2 DEF ValidateFinish
  <2>3. QED
    BY <1>5, <2>1, <2>2
<1>g. ASSUME NEW t \in Tasks, BeginLoad(t), UNCHANGED <<dest, missed>> PROVE PurgeInv'
  BY <1>a, <1>b, <1>c, <1>g DEF BeginLoad, Phases
<1>6. ASSUME NEW t \in Tasks,
             RunEnter(t) \/ BucketReady(t) \/ SetupRaises(t) \/ CollectionsReady(t)
      PROVE  PurgeInv'
  <2>1. CASE RunEnter(t) \/ SetupRaises(t)
    BY <1>a, <1>b, <1>d, <2>1 DEF RunEnter, SetupRaises
  <2>2. CASE BucketReady(t)
    BY <1>a, <1>b, <1>d, <1>g, <2>2 DEF BucketReady
  <2>3. CASE CollectionsReady(t)
    BY <1>f, <1>g, <2>3 DEF CollectionsReady
  <2>4. QED
    BY <1>6, <2>1, <2>2, <2>3
<1>7. ASSUME NEW t \in Tasks, NEW c \in Containers, LoadBatch(t, c) \/ ContainerLoaded(t, c)
      PROVE  PurgeInv'
  <2>1. rec' = rec /\ UNCHANGED task /\ task[t] = "load" /\ rec.phase = "migrating"
    BY <1>0, <1>7 DEF LoadBatch, ContainerLoaded, At, InStep, EmitOrNot, Emit, NoEmit
  <2>2. \A u \in Tasks : task[u] \notin {"undo", "purging"}
    BY <1>0, <2>1 DEF InStep
  <2>3. QED
    BY <1>z, <2>1, <2>2 DEF PurgeInv
<1>8. ASSUME NEW t \in Tasks, LoadDone(t) \/ NativeLoadFails(t) \/ AfterLoad(t)
      PROVE  PurgeInv'
  <2>1. CASE LoadDone(t)
    BY <1>a, <1>b, <1>d, <2>1 DEF LoadDone, EmitOrNot
  <2>2. CASE NativeLoadFails(t)
    BY <2>2 DEF NativeLoadFails, PatientOperator
  <2>3. CASE AfterLoad(t)
    <3>1. CASE Emit(InPhase(rec, "verifying")) /\ Goto(t, "verify")
      BY <1>a, <1>b, <1>c, <2>3, <3>1 DEF AfterLoad, Phases
    <3>2. CASE NoEmit /\ (Goto(t, "ref") \/ Goto(t, "idle"))
      BY <1>a, <1>b, <1>d, <2>3, <3>2 DEF AfterLoad
    <3>3. CASE BeginReplication(t, rec)
      BY <1>f, <2>3, <3>3 DEF AfterLoad
    <3>4. QED
      BY <2>3, <3>1, <3>2, <3>3 DEF AfterLoad
  <2>4. QED
    BY <1>8, <2>1, <2>2, <2>3
<1>9. ASSUME NEW t \in Tasks, RefCreated(t) \/ ReplicationCreated(t) \/ ReplicationRecorded(t)
      PROVE  PurgeInv'
  <2>1. CASE ReplicationRecorded(t)
    BY <1>f, <2>1 DEF ReplicationRecorded
  <2>2. CASE RefCreated(t) \/ ReplicationCreated(t)
    BY <1>a, <1>b, <1>d, <2>2 DEF RefCreated, ReplicationCreated
  <2>3. QED
    BY <1>9, <2>1, <2>2
<1>10. ASSUME NEW t \in Tasks, MonitorEvent(t) \/ MonitorExit(t) \/ EventApplied(t)
       PROVE  PurgeInv'
  <2>1. CASE MonitorExit(t)
    BY <1>a, <1>b, <1>d, <2>1 DEF MonitorExit
\* An event is taken while replicating, when nobody purges.
  <2>2. CASE MonitorEvent(t)
    <3>1. rec' = rec /\ rec.phase = "replicating" /\ Goto(t, "apply")
      BY <2>2 DEF MonitorEvent, MonitorGoesOn, NoEmit
    <3>2. \A u \in Tasks : task'[u] \notin {"undo", "purging"}
      BY <1>0, <3>1 DEF InStep, Goto
    <3>3. QED
      BY <1>z, <3>1, <3>2 DEF PurgeInv
\* The last one is applied: no other is under way.
  <2>3. CASE EventApplied(t)
    <3>1. task[t] = "apply" /\ Continuous /\ rec' = rec /\ missed' = missed /\ todo' = todo
      BY <1>0, <2>3 DEF EventApplied, At, InStep, Continuous, Strategy, EmitOrNot, Emit, NoEmit
    <3>2. \A u \in Tasks : task'[u] = IF u = t THEN "monitor" ELSE task[u]
      BY <1>0, <2>3 DEF EventApplied, Goto
    <3>3. \A u \in Tasks : task'[u] # "apply"
      BY <3>1, <3>2 DEF PurgeInv, OneRunner, InRun, RunStages
    <3>4. UNCHANGED dest \/ \E c \in Containers : dest' \in {dest \cup {c}, dest \ {c}}
      BY <2>3 DEF EventApplied
    <3>5. ASSUME NEW S, PurgedTo(S) PROVE PurgedTo(S)'
      <4>1. dest \subseteq S \cup missed
        BY <3>1, <3>5 DEF PurgedTo
      <4>2. QED
        BY <3>1, <3>3, <3>4, <4>1 DEF PurgedTo, Continuous, Strategy
    <3>6. ASSUME NEW u \in Tasks, task'[u] = "purging" PROVE PurgedTo(todo[u])'
      <4>1. PurgedTo(todo[u]) /\ todo'[u] = todo[u]
        BY <3>1, <3>2, <3>6 DEF PurgeInv
      <4>2. QED
        BY <3>1, <3>3, <3>4, <4>1 DEF PurgedTo, Continuous, Strategy
    <3>7. QED
      BY <1>z, <3>1, <3>2, <3>5, <3>6 DEF PurgeInv
  <2>4. QED
    BY <1>10, <2>1, <2>2, <2>3
<1>11. ASSUME NEW t \in Tasks,
              Verified(t) \/ RunFails(t) \/ CutoverVerified(t) \/ CutoverRaises(t)
       PROVE  PurgeInv'
  <2>1. CASE Verified(t) \/ CutoverVerified(t)
    BY <1>a, <1>b, <1>c, <2>1 DEF Verified, CutoverVerified, Phases
  <2>2. CASE RunFails(t)
    BY <1>a, <1>b, <1>c, <2>2 DEF RunFails, Phases
  <2>3. CASE CutoverRaises(t)
    BY <1>a, <1>b, <1>d, <2>3 DEF CutoverRaises
  <2>4. QED
    BY <1>11, <2>1, <2>2, <2>3
<1>12. ASSUME NEW t \in Tasks, RollbackResume(t) \/ PurgeDone(t) \/ PurgeFails(t)
       PROVE  PurgeInv'
\* A rollback that ends with nothing purged, or with nothing left.
  <2>a. ASSUME NEW p \in BOOLEAN, RolledBack(t, p), UNCHANGED <<dest, missed>>,
               p => PurgedTo({})
        PROVE  PurgeInv'
    <3>1. rec'.plan = rec.plan /\ rec'.purged = p
      BY <1>0, <2>a DEF RolledBack, Emit, Record
    <3>2. Untouched
      BY <1>b, <2>a DEF RolledBack
    <3>3. ASSUME NEW u \in Tasks, task'[u] = "purging" PROVE PurgedTo(todo[u])'
      <4>1. task[u] = "purging" /\ todo'[u] = todo[u]
        BY <3>2, <3>3
      <4>2. PurgedTo(todo[u])
        BY <4>1 DEF PurgeInv
      <4>3. QED
        BY <2>a, <3>1, <3>2, <4>1, <4>2 DEF PurgedTo, Continuous, Strategy
    <3>4. rec'.purged => PurgedTo({})'
      BY <1>y, <2>a, <3>1, <3>2
    <3>5. QED
      BY <1>z, <3>2, <3>3, <3>4 DEF PurgeInv
  <2>1. CASE RollbackResume(t)
    <3>1. CASE todo[t] # {} /\ Goto(t, "purging") /\ NoEmit /\ UNCHANGED todo
      <4>1. /\ task[t] = "undo" /\ rec' = rec /\ rec.phase = "rolling_back"
            /\ dest' = dest /\ missed' = missed
        BY <1>0, <2>1, <3>1 DEF RollbackResume, At, NoEmit, InStep
      <4>2. dest \subseteq todo[t]
        BY <1>0, <3>1, <4>1 DEF PurgeInv
      <4>3. \A u \in Tasks : task'[u] = IF u = t THEN "purging" ELSE task[u]
        BY <1>0, <3>1 DEF Goto
      <4>4. ASSUME NEW u \in Tasks, task'[u] = "purging" PROVE PurgedTo(todo[u])'
        <5>1. CASE u = t
          BY <3>1, <4>1, <4>2, <5>1 DEF PurgedTo
        <5>2. CASE u # t
          <6>1. PurgedTo(todo[u]) /\ todo'[u] = todo[u]
            BY <3>1, <4>3, <4>4, <5>2 DEF PurgeInv
          <6>2. QED
            BY <4>1, <4>3, <6>1 DEF PurgedTo, Continuous, Strategy
        <5>3. QED
          BY <5>1, <5>2
      <4>5. QED
        BY <1>z, <3>1, <4>1, <4>3, <4>4 DEF PurgeInv
    <3>2. CASE RolledBack(t, FALSE)
      BY <2>1, <2>a, <3>2 DEF RollbackResume
    <3>3. QED
      BY <2>1, <3>1, <3>2 DEF RollbackResume
  <2>2. CASE PurgeDone(t)
    <3>1. PurgedTo({})
      BY <2>2 DEF PurgeDone, At, PurgeInv
    <3>2. QED
      BY <2>2, <2>a, <3>1 DEF PurgeDone
  <2>3. CASE PurgeFails(t)
    BY <1>a, <1>b, <1>c, <2>3 DEF PurgeFails, Phases
  <2>4. QED
    BY <1>12, <2>1, <2>2, <2>3
<1>13. ASSUME NEW t \in Tasks, NEW c \in Containers, PurgeContainer(t, c) PROVE PurgeInv'
  <2>1. /\ task[t] = "purging" /\ rec' = rec /\ UNCHANGED task
        /\ rec.phase = "rolling_back"
    BY <1>0, <1>13 DEF PurgeContainer, At, NoEmit, InStep
  <2>2. \A u \in Tasks : todo'[u] = IF u = t THEN todo[t] \ {c} ELSE todo[u]
    BY <1>0, <1>13 DEF PurgeContainer, Remaining
  <2>3. \/ dest' = dest \ {c} /\ missed' = missed \ {c}
        \/ missed' = missed \cup {c} /\ dest' = dest
    BY <1>13 DEF PurgeContainer
  <2>4. ASSUME NEW u \in Tasks, task'[u] = "purging" PROVE PurgedTo(todo[u])'
    <3>1. u = t
      BY <2>1, <2>4 DEF PatientInv, OneAtATime, Busy, Stages, RunStages
    <3>2. PurgedTo(todo[t])
      BY <2>1 DEF PurgeInv
    <3>3. CASE dest \subseteq todo[t] \cup missed
      BY <2>2, <2>3, <3>1, <3>3 DEF PurgedTo
    <3>4. CASE /\ Continuous
               /\ \E e \in Containers : dest \subseteq todo[t] \cup missed \cup {e}
               /\ \A v \in Tasks : task[v] # "apply"
      <4>1. PICK e \in Containers : dest \subseteq todo[t] \cup missed \cup {e}
        BY <3>4
      <4>2. dest' \subseteq todo'[t] \cup missed' \cup {e}
        BY <2>2, <2>3, <4>1
      <4>3. QED
        BY <2>1, <3>1, <3>4, <4>2 DEF PurgedTo, Continuous, Strategy
    <3>5. QED
      BY <3>2, <3>3, <3>4 DEF PurgedTo
  <2>5. QED
    BY <1>z, <2>1, <2>2, <2>4 DEF PurgeInv
<1>14. CASE UNCHANGED vars
  BY <1>a, <1>e, <1>14 DEF vars
<1>15. CASE Next
  BY <1>15, NextCases, <1>1, <1>2, <1>3, <1>4, <1>5, <1>6, <1>7, <1>8, <1>9, <1>10, <1>11,
     <1>12, <1>13
<1>16. QED
  BY <1>14, <1>15

\* ROLLED_BACK with a purge logged means that the destination is clean, up to the
\* containers whose query failed and up to one change event that was under way.
THEOREM PurgeLeavesNothing ==
    ASSUME PatientOperator
    PROVE  Spec => []PurgedStaysClean
<1>1. Init => PurgeInv
  BY DEF Init, NewRecord, PurgeInv, OneRunner, InRun, RunStages
<1>2. PatientInv /\ PurgeInv /\ [Next]_vars => PurgeInv'
  BY PurgeStep
<1>3. PurgeInv => PurgedStaysClean
  BY DEF PurgeInv, PurgedTo, PurgedStaysClean
<1>4. QED
  BY <1>1, <1>2, <1>3, PatientAlways, PTL DEF Spec
==============================================================================
