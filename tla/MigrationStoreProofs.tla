------------------------- MODULE MigrationStoreProofs -------------------------
(***************************************************************************)
(* What a save() of the record store promises: proofs for every number of  *)
(* migrations, versions and restarts.                                      *)
(***************************************************************************)
EXTENDS MigrationStore, TLAPS

(* The inductive invariant: a record of the store is in the file and the other way
   round, the file is never ahead of the objects, and it holds what was promised
   unless it was torn once. *)
InFile == stored = DOMAIN file
FileBehind == \A m \in DOMAIN file : file[m] <= object[m]
PromiseKept == ~torn => \A m \in Ids : promised[m] > 0 => m \in DOMAIN file /\ promised[m] <= file[m]

StoreInv == StoreTypeOK /\ FileBehind

KeepInv == StoreInv /\ InFile /\ PromiseKept

LEMMA InitKeeps == ASSUME StoreInit PROVE KeepInv
  <1>1. DOMAIN file = {}
    BY DEF StoreInit
  <1>2. object \in [Ids -> Nat] /\ promised \in [Ids -> Nat] /\ \A m \in Ids : ~(promised[m] > 0)
    BY SMT DEF StoreInit
  <1>3. stored = {} /\ torn \in BOOLEAN /\ restarts \in Nat
    BY DEF StoreInit
  <1> QED
    BY <1>1, <1>2, <1>3 DEF KeepInv, StoreInv, StoreTypeOK, FileBehind, InFile, PromiseKept

\* What save() and delete() leave in the file.
LEMMA PersistWrites ==
    ASSUME NEW S \in SUBSET Ids, StoreTypeOK, Persist(S), object' \in [Ids -> Nat]
    PROVE  /\ DOMAIN file' = S
           /\ \A m \in S : file'[m] = object'[m] /\ file'[m] \in Nat
BY DEF Persist, StoreTypeOK

\* Every step of the store keeps the file behind the objects.
LEMMA TouchSafe == ASSUME NEW m \in Ids, StoreInv, Touch(m) PROVE StoreInv'
  <1>1. object' \in [Ids -> Nat] /\ \A n \in Ids : object[n] <= object'[n]
    BY SMT DEF StoreInv, StoreTypeOK, Touch
  <1> QED
    BY <1>1, SMT DEF StoreInv, StoreTypeOK, FileBehind, Touch

LEMMA SaveSafe == ASSUME NEW m \in Ids, StoreInv, Save(m) PROVE StoreInv'
  <1>1. object' \in [Ids -> Nat] /\ stored' \in SUBSET Ids /\ promised' \in [Ids -> Nat]
    BY SMT DEF StoreInv, StoreTypeOK, Save
  <1>2. DOMAIN file' = stored' /\ \A n \in stored' : file'[n] = object'[n] /\ file'[n] \in Nat
    BY <1>1, PersistWrites DEF Save, StoreInv
  <1> QED
    BY <1>1, <1>2, SMT DEF StoreInv, StoreTypeOK, FileBehind, Save

LEMMA DeleteSafe == ASSUME NEW m \in Ids, StoreInv, Delete(m) PROVE StoreInv'
  <1>1. object' \in [Ids -> Nat] /\ stored' \in SUBSET Ids /\ promised' \in [Ids -> Nat]
    BY SMT DEF StoreInv, StoreTypeOK, Delete
  <1>2. DOMAIN file' = stored' /\ \A n \in stored' : file'[n] = object'[n] /\ file'[n] \in Nat
    BY <1>1, PersistWrites DEF Delete, StoreInv
  <1> QED
    BY <1>1, <1>2, SMT DEF StoreInv, StoreTypeOK, FileBehind, Delete

LEMMA RestartSafe == ASSUME StoreInv, Restart PROVE StoreInv'
  <1>1. stored' \in SUBSET (DOMAIN file) /\ stored' \in SUBSET Ids
    BY DEF Restart, Loaded, StoreInv, StoreTypeOK
  <1>2. object' \in [Ids -> Nat]
    BY <1>1, SMT DEF Restart, StoreInv, StoreTypeOK
  <1>3. \A m \in DOMAIN file : file[m] <= object'[m]
    BY <1>1, SMT DEF Restart, StoreInv, StoreTypeOK, FileBehind
  <1> QED
    BY <1>1, <1>2, <1>3, SMT DEF Restart, StoreInv, StoreTypeOK, FileBehind

LEMMA TornSafe == ASSUME StoreInv, TornRestart PROVE StoreInv'
BY SMT DEF TornRestart, StoreInv, StoreTypeOK, FileBehind

LEMMA StoreStep == ASSUME StoreInv, [StoreNext]_storeVars PROVE StoreInv'
  <1>1. CASE UNCHANGED storeVars
    BY <1>1 DEF storeVars, StoreInv, StoreTypeOK, FileBehind
  <1> QED
    BY <1>1, TouchSafe, SaveSafe, DeleteSafe, RestartSafe, TornSafe DEF StoreNext

\* With records that all load again, the store and the file name the same migrations
\* and no promise is broken.
LEMMA KeepStep ==
    ASSUME Unreadable = {}, KeepInv, [StoreNext]_storeVars
    PROVE  KeepInv'
  <1>1. StoreInv'
    BY StoreStep DEF KeepInv
  <1>2. CASE UNCHANGED storeVars
    BY <1>1, <1>2 DEF storeVars, KeepInv, InFile, PromiseKept
  <1>3. ASSUME NEW m \in Ids, Touch(m) PROVE KeepInv'
    BY <1>1, <1>3 DEF KeepInv, InFile, PromiseKept, Touch
  <1>4. ASSUME NEW m \in Ids, Save(m) PROVE KeepInv'
    <2>1. object' \in [Ids -> Nat] /\ stored' \in SUBSET Ids /\ object'[m] > 0
      BY <1>4, SMT DEF KeepInv, StoreInv, StoreTypeOK, Save
    <2>2. \A n \in Ids : object[n] <= object'[n]
      BY <1>4, SMT DEF KeepInv, StoreInv, StoreTypeOK, Save
    <2>3. DOMAIN file' = stored' /\ \A n \in stored' : file'[n] = object'[n]
      BY <1>4, <2>1, PersistWrites DEF Save, KeepInv, StoreInv
    <2>4. PromiseKept'
      <3> SUFFICES ASSUME ~torn, NEW n \in Ids, promised'[n] > 0
                   PROVE  n \in DOMAIN file' /\ promised'[n] <= file'[n]
        BY <1>4 DEF PromiseKept, Save
      <3>1. CASE n = m
        BY <1>4, <2>1, <2>3, <3>1, SMT DEF Save, KeepInv, StoreInv, StoreTypeOK
      <3>2. CASE n # m
        <4>1. promised[n] > 0 /\ promised'[n] = promised[n]
          BY <1>4, <3>2 DEF Save, KeepInv, StoreInv, StoreTypeOK
        <4>2. n \in DOMAIN file /\ promised[n] <= file[n] /\ file[n] <= object[n]
          BY <4>1 DEF KeepInv, StoreInv, PromiseKept, FileBehind
        <4>3. n \in stored'
          BY <1>4, <4>2 DEF KeepInv, InFile, Save
        <4> QED
          BY <2>1, <2>2, <2>3, <4>1, <4>2, <4>3, SMT DEF KeepInv, StoreInv, StoreTypeOK
      <3> QED BY <3>1, <3>2
    <2> QED
      BY <1>1, <2>3, <2>4 DEF KeepInv, InFile
  <1>5. ASSUME NEW m \in Ids, Delete(m) PROVE KeepInv'
    <2>1. object' \in [Ids -> Nat] /\ stored' \in SUBSET Ids /\ object' = object
      BY <1>5 DEF KeepInv, StoreInv, StoreTypeOK, Delete
    <2>2. DOMAIN file' = stored' /\ \A n \in stored' : file'[n] = object'[n]
      BY <1>5, <2>1, PersistWrites DEF Delete, KeepInv, StoreInv
    <2>3. PromiseKept'
      <3> SUFFICES ASSUME ~torn, NEW n \in Ids, promised'[n] > 0
                   PROVE  n \in DOMAIN file' /\ promised'[n] <= file'[n]
        BY <1>5 DEF PromiseKept, Delete
      <3>1. n # m /\ promised[n] > 0 /\ promised'[n] = promised[n]
        BY <1>5, SMT DEF Delete, KeepInv, StoreInv, StoreTypeOK
      <3>2. n \in DOMAIN file /\ promised[n] <= file[n] /\ file[n] <= object[n]
        BY <3>1 DEF KeepInv, StoreInv, PromiseKept, FileBehind
      <3>3. n \in stored'
        BY <1>5, <3>1, <3>2 DEF KeepInv, InFile, Delete
      <3> QED
        BY <2>1, <2>2, <3>1, <3>2, <3>3, SMT DEF KeepInv, StoreInv, StoreTypeOK
    <2> QED
      BY <1>1, <2>2, <2>3 DEF KeepInv, InFile
  <1>6. CASE Restart
    <2>1. stored' = DOMAIN file
      BY <1>6 DEF Restart, Loaded
    <2> QED
      BY <1>1, <1>6, <2>1 DEF Restart, KeepInv, InFile, PromiseKept
  <1>7. CASE TornRestart
    BY <1>1, <1>7 DEF TornRestart, KeepInv, InFile, PromiseKept
  <1> QED
    BY <1>2, <1>3, <1>4, <1>5, <1>6, <1>7 DEF StoreNext

LEMMA KeepImplies == ASSUME KeepInv PROVE SavedSurvives
BY SMT DEF KeepInv, StoreInv, StoreTypeOK, InFile, FileBehind, PromiseKept, SavedSurvives

\* Whatever is saved, deleted and restarted, the variables hold values of their kind.
THEOREM StoreTypeCorrect == StoreSpec => []StoreTypeOK
  <1>1. StoreInit => StoreInv
    BY InitKeeps DEF KeepInv
  <1>2. StoreInv /\ [StoreNext]_storeVars => StoreInv'
    BY StoreStep
  <1>3. StoreInv => StoreTypeOK
    BY DEF StoreInv
  <1> QED
    BY <1>1, <1>2, <1>3, PTL DEF StoreSpec

\* No version whose save() returned is lost to a later save, delete or restart, if the
\* records load again and no crash hits write_text.
THEOREM SavesSurvive ==
    ASSUME Unreadable = {}
    PROVE  StoreSpec => []SavedSurvives
  <1>1. StoreInit => KeepInv
    BY InitKeeps
  <1>2. KeepInv /\ [StoreNext]_storeVars => KeepInv'
    BY KeepStep
  <1>3. KeepInv => SavedSurvives
    BY KeepImplies
  <1> QED
    BY <1>1, <1>2, <1>3, PTL DEF StoreSpec
================================================================================
