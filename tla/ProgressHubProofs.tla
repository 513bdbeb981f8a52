--------------------------- MODULE ProgressHubProofs ---------------------------
(***************************************************************************)
(* What pages are pushed is in the state file, a broadcast waits where it  *)
(* has come to, pages that keep their connection go forward only and are   *)
(* right when nothing is under way to them: proofs for every number of     *)
(* migrations, pages and concurrent broadcasts.  The hub is shown to use   *)
(* the record store as the store's own specification allows, so that what  *)
(* is proved of the store holds under it.                                  *)
(***************************************************************************)
EXTENDS ProgressHub, MigrationStoreProofs, SequenceTheorems, WellFoundedInduction

\* Every step of the hub is a step of the store or leaves it alone.
LEMMA HubStepsAreStoreSteps ==
    ASSUME [Next]_vars PROVE [StoreNext]_storeVars
  <1>1. ASSUME NEW m \in Ids, Emit(m) \/ Reconcile(m) PROVE StoreNext
    BY <1>1 DEF Emit, Reconcile, StoreNext
  <1>2. ASSUME NEW m \in Ids, Alone(Touch(m) \/ Delete(m)) PROVE StoreNext
    BY <1>2 DEF Alone, StoreNext
  <1>3. ASSUME Kill PROVE StoreNext
    BY <1>3 DEF Kill, StoreNext
  <1>4. ASSUME Serve PROVE UNCHANGED storeVars
    BY <1>4 DEF Serve
  <1>5. ASSUME NEW c \in 1..MaxCasts, Resume(c) PROVE UNCHANGED storeVars
    BY <1>5 DEF Resume
  <1>6. ASSUME NEW p \in Pages, Connect(p) \/ Drop(p) \/ Unregister(p) \/ Answer(p) \/ Receive(p)
        PROVE  UNCHANGED storeVars
    BY <1>6 DEF Connect, Drop, Unregister, Answer, Receive
  <1>7. ASSUME UNCHANGED vars PROVE UNCHANGED storeVars
    BY <1>7 DEF vars
  <1> QED
    BY <1>1, <1>2, <1>3, <1>4, <1>5, <1>6, <1>7 DEF Next

\* The hub implements the record store.
THEOREM HubImplementsStore == Spec => StoreSpec
  <1>1. Init => StoreInit
    BY DEF Init
  <1>2. [Next]_vars => [StoreNext]_storeVars
    BY HubStepsAreStoreSteps
  <1> QED
    BY <1>1, <1>2, PTL DEF Spec, StoreSpec

\* Under the hub, too, no version whose save() returned is lost.
THEOREM SavesSurviveUnderHub ==
    ASSUME Unreadable = {}
    PROVE  Spec => []SavedSurvives
  <1>1. StoreSpec => []SavedSurvives
    BY SavesSurvive
  <1> QED
    BY <1>1, HubImplementsStore, PTL

-------------------------------------------------------------------------------
(* Frames that a restart cannot take back *)

Frame == [m : Ids, v : Nat]

\* Neither ahead of the object nor of what the file holds of the migration.
Safe == {f \in Frame : f.v <= object[f.m] /\ (f.m \in DOMAIN file => f.v <= file[f.m])}

IsCast(x) == {"m", "v"} \subseteq DOMAIN x
FrameOf(x) == [m |-> x.m, v |-> x.v]

CastsIn(S) ==
    /\ casts = [c \in 1..MaxCasts |-> casts[c]]
    /\ \A c \in 1..MaxCasts :
          casts[c] = NoCast \/ (IsCast(casts[c]) /\ FrameOf(casts[c]) \in S)
InboxIn(S) == inbox \in [Pages -> Seq(S)]
LiveIn(S) ==
    /\ live \in [Pages -> [Ids -> Nat]]
    /\ \A p \in Pages, m \in Ids : [m |-> m, v |-> live[p][m]] \in S

PushInv == StoreInv /\ CastsIn(Safe) /\ InboxIn(Safe) /\ LiveIn(Safe)

LEMMA SafeFrames == Safe \subseteq Frame
BY DEF Safe

\* A safe frame stays safe whatever the store does: what is saved is newer, and what
\* is loaded was saved.
LEMMA SafeStays ==
    ASSUME StoreInv, [StoreNext]_storeVars
    PROVE  Safe \subseteq Safe'
  <1> SUFFICES ASSUME NEW f \in Safe PROVE f \in Safe'
    OBVIOUS
  <1> DEFINE n == f.m
  <1>0. n \in Ids /\ f.v \in Nat /\ f \in Frame
    BY DEF Safe, Frame
  <1>1. f.v <= object[n] /\ (n \in DOMAIN file => f.v <= file[n])
    BY DEF Safe
  <1>2. object[n] \in Nat /\ (n \in DOMAIN file => file[n] \in Nat)
    BY <1>0 DEF StoreInv, StoreTypeOK
  <1> SUFFICES f.v <= object'[n] /\ (n \in DOMAIN file' => f.v <= file'[n])
    BY <1>0 DEF Safe
  <1> HIDE DEF n
  <1>3. CASE UNCHANGED storeVars
    BY <1>1, <1>3 DEF storeVars
  <1>4. ASSUME NEW m \in Ids, Touch(m)
        PROVE  f.v <= object'[n] /\ (n \in DOMAIN file' => f.v <= file'[n])
    BY <1>0, <1>1, <1>2, <1>4, SMT DEF Touch, StoreInv, StoreTypeOK
  <1>5. ASSUME NEW m \in Ids, Save(m)
        PROVE  f.v <= object'[n] /\ (n \in DOMAIN file' => f.v <= file'[n])
    <2>1. object' \in [Ids -> Nat] /\ stored' \in SUBSET Ids /\ object[n] <= object'[n]
      BY <1>0, <1>2, <1>5, SMT DEF Save, StoreInv, StoreTypeOK
    <2>2. DOMAIN file' = stored' /\ \A k \in stored' : file'[k] = object'[k]
      BY <1>5, <2>1, PersistWrites DEF Save, StoreInv
    <2> QED
      BY <1>0, <1>1, <1>2, <2>1, <2>2, SMT
  <1>6. ASSUME NEW m \in Ids, Delete(m)
        PROVE  f.v <= object'[n] /\ (n \in DOMAIN file' => f.v <= file'[n])
    <2>1. object' = object /\ stored' \in SUBSET Ids /\ object' \in [Ids -> Nat]
      BY <1>6 DEF Delete, StoreInv, StoreTypeOK
    <2>2. DOMAIN file' = stored' /\ \A k \in stored' : file'[k] = object'[k]
      BY <1>6, <2>1, PersistWrites DEF Delete, StoreInv
    <2> QED
      BY <1>0, <1>1, <2>1, <2>2
  <1>7. CASE Restart
    <2>1. stored' \in SUBSET (DOMAIN file) /\ file' = file
      BY <1>7 DEF Restart, Loaded
    <2>2. object'[n] = IF n \in stored' THEN file[n] ELSE object[n]
      BY <1>0, <1>7 DEF Restart
    <2> QED
      BY <1>1, <2>1, <2>2
  <1>8. CASE TornRestart
    BY <1>1, <1>8 DEF TornRestart
  <1> QED
    BY <1>3, <1>4, <1>5, <1>6, <1>7, <1>8 DEF StoreNext

\* The frame of a saved record is safe.
LEMMA SavedIsSafe ==
    ASSUME StoreInv, NEW m \in Ids, Save(m)
    PROVE  [m |-> m, v |-> object'[m]] \in Safe'
  <1>1. object' \in [Ids -> Nat] /\ stored' \in SUBSET Ids
    BY SMT DEF Save, StoreInv, StoreTypeOK
  <1>2. \A k \in stored' : file'[k] = object'[k]
    BY <1>1, PersistWrites DEF Save, StoreInv
  <1>3. DOMAIN file' = stored'
    BY <1>1, PersistWrites DEF Save, StoreInv
  <1> QED
    BY <1>1, <1>2, <1>3, SMT DEF Safe, Frame

\* What holds of a set of frames holds of a larger one.
LEMMA Widen ==
    ASSUME NEW S, NEW T, S \subseteq T
    PROVE  /\ CastsIn(S) => CastsIn(T)
           /\ InboxIn(S) => InboxIn(T)
           /\ LiveIn(S) => LiveIn(T)
  <1>1. Seq(S) \subseteq Seq(T)
    BY SMT
  <1> QED
    BY <1>1 DEF CastsIn, InboxIn, LiveIn

LEMMA CastChanged ==
    ASSUME NEW x, IsCast(x), NEW L, NEW p
    PROVE  LET y == [x EXCEPT !.left = L, !.at = p]
               z == [x EXCEPT !.wide = TRUE, !.left = L]
           IN  /\ IsCast(y) /\ FrameOf(y) = FrameOf(x)
               /\ IsCast(z) /\ FrameOf(z) = FrameOf(x)
BY DEF IsCast, FrameOf

LEMMA RestKeepsFrame ==
    ASSUME NEW x, IsCast(x), NEW T
    PROVE  IsCast(Rest(x, T)) /\ FrameOf(Rest(x, T)) = FrameOf(x)
BY CastChanged DEF Rest

LEMMA Appended ==
    ASSUME NEW S, NEW s \in Seq(S), NEW e \in S PROVE Append(s, e) \in Seq(S)
BY SMT

LEMMA Received ==
    ASSUME NEW S, NEW s \in Seq(S), s # <<>>
    PROVE  Head(s) \in S /\ Tail(s) \in Seq(S)
BY SMT

\* A broadcast that goes on sends nothing but its own frame.
LEMMA GoOnSafe ==
    ASSUME NEW S, CastsIn(S), InboxIn(S), NEW c \in 1..MaxCasts,
           NEW x, IsCast(x), FrameOf(x) \in S, NEW T, NEW w, GoOn(c, x, T, w)
    PROVE  CastsIn(S)' /\ InboxIn(S)'
  <1> DEFINE rest == Rest(x, T)
  <1> DEFINE p == First(rest.left)
  <1> DEFINE y == [rest EXCEPT !.left = @ \ {p}, !.at = p]
  <1>1. IsCast(rest) /\ FrameOf(rest) = FrameOf(x)
    BY RestKeepsFrame
  <1>2. IsCast(y) /\ FrameOf(y) \in S
    BY <1>1 DEF IsCast, FrameOf
  <1>3. FrameOf(x) = [m |-> x.m, v |-> x.v]
    BY DEF FrameOf
  <1> HIDE DEF rest
  <1>4. CASE casts' = [casts EXCEPT ![c] = NoCast] /\ UNCHANGED inbox
    BY <1>4 DEF CastsIn, InboxIn
  <1>5. CASE /\ casts' = [casts EXCEPT ![c] = y]
             /\ inbox' = IF p \in open
                         THEN [inbox EXCEPT ![p] = Append(@, [m |-> x.m, v |-> x.v])]
                         ELSE inbox
    <2> HIDE DEF y, p
    <2>1. CastsIn(S)'
      BY <1>2, <1>5 DEF CastsIn
    <2>2. p \in Pages => Append(inbox[p], FrameOf(x)) \in Seq(S)
      BY Appended DEF InboxIn
    <2>3. InboxIn(S)'
      BY <1>3, <1>5, <2>2 DEF InboxIn
    <2> QED BY <2>1, <2>3
  <1> QED
    BY <1>4, <1>5 DEF GoOn, rest

-------------------------------------------------------------------------------
(* Steps *)

LEMMA EmitSafe ==
    ASSUME PushInv, NEW m \in Ids, Emit(m) PROVE PushInv'
  <1>1. Save(m) /\ Broadcast(m) /\ UNCHANGED live
    BY DEF Emit
  <1>2. StoreInv' /\ Safe \subseteq Safe'
    BY <1>1, StoreStep, SafeStays DEF PushInv, StoreNext
  <1>3. CastsIn(Safe') /\ InboxIn(Safe') /\ LiveIn(Safe')
    BY <1>2, Widen DEF PushInv
  <1>4. PICK S : S = Safe'
    OBVIOUS
  <1>5. PICK x : x = [m |-> m, v |-> object'[m], left |-> On(m, subs), wide |-> FALSE, at |-> NoPage]
    OBVIOUS
  <1>6. IsCast(x) /\ FrameOf(x) \in S
    BY <1>1, <1>4, <1>5, SavedIsSafe DEF IsCast, FrameOf, PushInv
  <1>7. PICK T : T = subs
    OBVIOUS
  <1>8. PICK w : w = waiting
    OBVIOUS
  <1>9. PICK c \in 1..MaxCasts : GoOn(c, x, T, w)
    BY <1>1, <1>5, <1>7, <1>8 DEF Broadcast, Idle
  <1>10. CastsIn(S)' /\ InboxIn(S)'
    BY <1>3, <1>4, <1>6, <1>9, GoOnSafe
  <1> QED
    BY <1>1, <1>2, <1>3, <1>4, <1>10 DEF PushInv, CastsIn, InboxIn, LiveIn

LEMMA ResumeSafe ==
    ASSUME PushInv, NEW c \in 1..MaxCasts, Resume(c) PROVE PushInv'
  <1>1. UNCHANGED <<storeVars, live>>
    BY DEF Resume
  <1>2. StoreInv' /\ Safe' = Safe
    BY <1>1 DEF storeVars, PushInv, StoreInv, StoreTypeOK, FileBehind, Safe
  <1>3. PICK S : S = Safe
    OBVIOUS
  <1>4. PICK x : x = casts[c]
    OBVIOUS
  <1>5. PICK T : T = IF casts[c].at \in open THEN subs ELSE subs \ {casts[c].at}
    OBVIOUS
  <1>6. PICK w : w = [waiting EXCEPT ![casts[c].at] = Without(c, @)]
    OBVIOUS
  <1>7. GoOn(c, x, T, w)
    BY <1>4, <1>5, <1>6 DEF Resume
  <1>8. IsCast(x) /\ FrameOf(x) \in S
    BY <1>3, <1>4 DEF Resume, PushInv, CastsIn, NoCast
  <1>9. CastsIn(S)' /\ InboxIn(S)'
    BY <1>3, <1>7, <1>8, GoOnSafe DEF PushInv
  <1> QED
    BY <1>1, <1>2, <1>3, <1>9 DEF PushInv, CastsIn, InboxIn, LiveIn

LEMMA ReceiveSafe ==
    ASSUME PushInv, NEW p \in Pages, Receive(p) PROVE PushInv'
  <1>1. UNCHANGED <<storeVars, casts>> /\ inbox[p] \in Seq(Safe) /\ inbox[p] # <<>>
    BY DEF Receive, hubVars, PushInv, InboxIn
  <1>2. Head(inbox[p]) \in Safe /\ Tail(inbox[p]) \in Seq(Safe)
    BY <1>1, Received
  <1>3. StoreInv' /\ Safe' = Safe
    BY <1>1 DEF storeVars, PushInv, StoreInv, StoreTypeOK, FileBehind, Safe
  <1>4. inbox' \in [Pages -> Seq(Safe)]
    BY <1>2 DEF Receive, PushInv, InboxIn
  <1>5. PICK f : f = Head(inbox[p])
    OBVIOUS
  <1>6. f \in Safe /\ f.m \in Ids /\ f.v \in Nat /\ f = [m |-> f.m, v |-> f.v]
    BY <1>2, <1>5 DEF Safe, Frame
  <1>7. live' = [live EXCEPT ![p][f.m] = f.v]
    BY <1>5 DEF Receive
  <1>8. live' \in [Pages -> [Ids -> Nat]]
    BY <1>6, <1>7 DEF PushInv, LiveIn
  <1>9. ASSUME NEW q \in Pages, NEW m \in Ids PROVE [m |-> m, v |-> live'[q][m]] \in Safe
    <2>1. CASE q = p /\ m = f.m
      BY <1>6, <1>7, <2>1 DEF PushInv, LiveIn
    <2>2. CASE ~(q = p /\ m = f.m)
      <3>1. live'[q][m] = live[q][m]
        BY <1>6, <1>7, <2>2 DEF PushInv, LiveIn
      <3> QED
        BY <3>1 DEF PushInv, LiveIn
    <2> QED BY <2>1, <2>2
  <1> QED
    BY <1>1, <1>3, <1>4, <1>8, <1>9 DEF PushInv, CastsIn, InboxIn, LiveIn

\* The steps that send nothing: casts are unchanged or ended, inboxes unchanged or
\* emptied.
LEMMA QuietSafe ==
    ASSUME PushInv, [StoreNext]_storeVars, UNCHANGED live,
           casts' = casts \/ casts' = [c \in 1..MaxCasts |-> NoCast],
           inbox' = inbox \/ inbox' = [p \in Pages |-> <<>>]
               \/ \E p \in Pages : inbox' = [inbox EXCEPT ![p] = <<>>]
    PROVE  PushInv'
  <1>1. StoreInv' /\ Safe \subseteq Safe'
    BY StoreStep, SafeStays DEF PushInv
  <1>2. CastsIn(Safe') /\ InboxIn(Safe') /\ LiveIn(Safe')
    BY <1>1, Widen DEF PushInv
  <1>3. <<>> \in Seq(Safe')
    BY SMT
  <1>4. PICK S : S = Safe'
    OBVIOUS
  <1>5. CastsIn(S)'
    BY <1>2, <1>4 DEF CastsIn
  <1>6. InboxIn(S)'
    BY <1>2, <1>3, <1>4 DEF InboxIn
  <1> QED
    BY <1>1, <1>2, <1>4, <1>5, <1>6 DEF PushInv, CastsIn, InboxIn, LiveIn

LEMMA PushStep == ASSUME PushInv, [Next]_vars PROVE PushInv'
  <1>1. [StoreNext]_storeVars
    BY HubStepsAreStoreSteps
  <1>2. ASSUME NEW m \in Ids, Emit(m) PROVE PushInv'
    BY <1>2, EmitSafe
  <1>3. ASSUME NEW c \in 1..MaxCasts, Resume(c) PROVE PushInv'
    BY <1>3, ResumeSafe
  <1>4. ASSUME NEW p \in Pages, Receive(p) PROVE PushInv'
    BY <1>4, ReceiveSafe
  <1>5. ASSUME NEW m \in Ids, Reconcile(m) \/ Alone(Touch(m) \/ Delete(m)) PROVE PushInv'
    BY <1>1, <1>5, QuietSafe DEF Reconcile, Alone, hubVars, pageVars
  <1>6. ASSUME Kill \/ Serve \/ UNCHANGED vars PROVE PushInv'
    BY <1>1, <1>6, QuietSafe DEF Kill, Serve, vars, hubVars, pageVars
  <1>7. ASSUME NEW p \in Pages, Connect(p) \/ Drop(p) \/ Unregister(p) \/ Answer(p) PROVE PushInv'
    BY <1>1, <1>7, QuietSafe DEF Connect, Drop, Unregister, Answer, hubVars, pageVars
  <1> QED
    BY <1>2, <1>3, <1>4, <1>5, <1>6, <1>7 DEF Next

LEMMA PushInit == ASSUME Init PROVE PushInv
  <1>1. StoreInv /\ object = [m \in Ids |-> 0] /\ DOMAIN file = {}
    BY InitKeeps DEF Init, KeepInv, StoreInit
  <1>2. ASSUME NEW m \in Ids PROVE [m |-> m, v |-> 0] \in Safe
    <2>1. object[m] = 0 /\ m \notin DOMAIN file /\ 0 <= 0
      BY <1>1, SMT
    <2> QED
      BY <2>1 DEF Safe, Frame
  <1>3. <<>> \in Seq(Safe)
    BY SMT
  <1> QED
    BY <1>1, <1>2, <1>3 DEF Init, PushInv, CastsIn, InboxIn, LiveIn

LEMMA PushImplies == ASSUME PushInv PROVE PushedIsSaved
  <1> SUFFICES ASSUME NEW m \in DOMAIN file
               PROVE  /\ \A p \in Pages :
                            /\ live[p][m] <= file[m]
                            /\ \A i \in DOMAIN inbox[p] : inbox[p][i].m = m => inbox[p][i].v <= file[m]
                      /\ \A c \in 1..MaxCasts : casts[c].m = m => casts[c].v <= file[m]
    BY DEF PushedIsSaved
  <1>1. m \in Ids
    BY DEF PushInv, StoreInv, StoreTypeOK
  <1>2. \A f \in Safe : f.m = m => f.v <= file[m]
    BY DEF Safe
  <1>3. ASSUME NEW p \in Pages PROVE live[p][m] <= file[m]
    BY <1>1, <1>2 DEF PushInv, LiveIn
  <1>4. ASSUME NEW p \in Pages, NEW i \in DOMAIN inbox[p] PROVE inbox[p][i] \in Safe
    <2>1. inbox[p] \in Seq(Safe)
      BY DEF PushInv, InboxIn
    <2> QED
      BY <2>1, SMT
  <1>5. ASSUME NEW c \in 1..MaxCasts, casts[c].m = m PROVE casts[c].v <= file[m]
    <2>1. casts[c] # NoCast
      BY <1>1, <1>5, HubAssumption DEF NoCast
    <2>2. FrameOf(casts[c]) \in Safe
      BY <2>1 DEF PushInv, CastsIn
    <2> QED
      BY <1>2, <1>5, <2>2 DEF FrameOf
  <1> QED
    BY <1>2, <1>3, <1>4, <1>5

\* However broadcasts overtake each other and wherever the process is killed, no page
\* is pushed a version that the state file does not hold or has replaced.
THEOREM PushesAreSaved == Spec => []PushedIsSaved
  <1>1. Init => PushInv
    BY PushInit
  <1>2. PushInv /\ [Next]_vars => PushInv'
    BY PushStep
  <1>3. PushInv => PushedIsSaved
    BY PushImplies
  <1> QED
    BY <1>1, <1>2, <1>3, PTL DEF Spec
-------------------------------------------------------------------------------
(* Queues in which nothing waits twice *)

Has(queue, c) == \E i \in DOMAIN queue : queue[i] = c
Once(queue) == \A i, j \in DOMAIN queue : queue[i] = queue[j] => i = j

LEMMA Joined ==
    ASSUME NEW S, NEW q \in Seq(S), NEW c \in S, ~Has(q, c), Once(q)
    PROVE  LET r == Append(q, c)
           IN  r \in Seq(S) /\ Once(r) /\ \A d : Has(r, d) <=> d = c \/ Has(q, d)
  <1> DEFINE r == Append(q, c)
             n == Len(q)
  <1>1. /\ r \in Seq(S) /\ n \in Nat /\ DOMAIN q = 1..n /\ DOMAIN r = 1..(n + 1)
        /\ r[n + 1] = c /\ \A i \in 1..n : r[i] = q[i]
    BY SMT
  <1>2. \A i \in 1..(n + 1) : i = n + 1 \/ i \in 1..n
    BY <1>1, SMT
  <1>3. n + 1 \in 1..(n + 1) /\ 1..n \subseteq 1..(n + 1)
    BY <1>1, SMT
  <1> HIDE DEF r, n
  <1>4. Once(r)
    BY <1>1, <1>2 DEF Once, Has
  <1>5. \A d : Has(r, d) <=> d = c \/ Has(q, d)
    BY <1>1, <1>2, <1>3 DEF Has
  <1> QED
    BY <1>1, <1>4, <1>5 DEF r

\* What Without takes out, and where the rest goes.
LEMMA TakenOut ==
    ASSUME NEW S, NEW q \in Seq(S), NEW c, Has(q, c)
    PROVE  \E at \in DOMAIN q :
              /\ q[at] = c /\ Len(q) \in Nat /\ DOMAIN q = 1..Len(q)
              /\ Without(c, q) \in Seq(S) /\ DOMAIN Without(c, q) = 1..(Len(q) - 1)
              /\ \A i \in 1..(Len(q) - 1) : Without(c, q)[i] = IF i < at THEN q[i] ELSE q[i + 1]
  <1> DEFINE at == CHOOSE i \in DOMAIN q : q[i] = c
             r == SubSeq(q, 1, at - 1) \o SubSeq(q, at + 1, Len(q))
             n == Len(q)
  <1>1. at \in DOMAIN q /\ q[at] = c
    BY DEF Has
  <1>2. r = Without(c, q)
    BY DEF Without
  <1>3. n \in Nat /\ DOMAIN q = 1..n
    BY SMT
  <1> HIDE DEF at
  <1>4. /\ r \in Seq(S) /\ DOMAIN r = 1..(n - 1)
        /\ \A i \in 1..(n - 1) : r[i] = IF i < at THEN q[i] ELSE q[i + 1]
    <2> DEFINE u == SubSeq(q, 1, at - 1)
               v == SubSeq(q, at + 1, n)
    <2>0. at \in 1..n /\ \A i \in 1..n : q[i] \in S
      BY <1>1, <1>3, SMT
    <2>1. u \in Seq(S) /\ Len(u) = at - 1 /\ \A i \in 1..(at - 1) : u[i] = q[i]
      <3> HIDE DEF n
      <3>1. 1 \in Int /\ at - 1 \in Int /\ \A i \in 1..(at - 1) : q[i] \in S
        BY <1>3, <2>0, SMT
      <3>2. /\ u \in Seq(S) /\ Len(u) = IF 1 <= at - 1 THEN (at - 1) - 1 + 1 ELSE 0
            /\ \A i \in 1..((at - 1) - 1 + 1) : u[i] = q[1 + i - 1]
        BY <3>1, SubSeqProperties
      <3> HIDE DEF u
      <3> QED
        BY <1>3, <2>0, <3>2, SMT
    <2>2. v \in Seq(S) /\ Len(v) = n - at /\ \A i \in 1..(n - at) : v[i] = q[at + i]
      <3> HIDE DEF n
      <3>1. at + 1 \in Int /\ n \in Int /\ \A i \in (at + 1)..n : q[i] \in S
        BY <1>3, <2>0, SMT
      <3>2. /\ v \in Seq(S) /\ Len(v) = IF at + 1 <= n THEN n - (at + 1) + 1 ELSE 0
            /\ \A i \in 1..(n - (at + 1) + 1) : v[i] = q[(at + 1) + i - 1]
        BY <3>1, SubSeqProperties
      <3> HIDE DEF v
      <3> QED
        BY <1>3, <2>0, <3>2, SMT
    <2> HIDE DEF u, v
    <2>3. /\ u \o v \in Seq(S) /\ DOMAIN (u \o v) = 1..(Len(u) + Len(v))
          /\ \A i \in 1..(Len(u) + Len(v)) :
                (u \o v)[i] = IF i <= Len(u) THEN u[i] ELSE v[i - Len(u)]
      <3>1. /\ u \o v \in Seq(S) /\ Len(u \o v) = Len(u) + Len(v)
            /\ \A i \in 1..(Len(u) + Len(v)) :
                  (u \o v)[i] = IF i <= Len(u) THEN u[i] ELSE v[i - Len(u)]
        BY <2>1, <2>2, ConcatProperties, Zenon
      <3>2. DOMAIN (u \o v) = 1..Len(u \o v)
        BY <3>1, LenProperties, Zenon
      <3> QED
        BY <3>1, <3>2
    <2>4. r = u \o v
      BY DEF u, v
    <2> HIDE DEF n, r
    <2>5. Len(u) + Len(v) = n - 1
      BY <1>3, <2>0, <2>1, <2>2, SMT
    <2>6. ASSUME NEW i \in 1..(n - 1) PROVE r[i] = IF i < at THEN q[i] ELSE q[i + 1]
      <3>1. CASE i < at
        <4>1. i <= Len(u) /\ i \in 1..(at - 1)
          BY <1>3, <2>0, <2>1, <3>1, SMT
        <4> QED
          BY <2>1, <2>3, <2>4, <2>5, <3>1, <4>1
      <3>2. CASE ~(i < at)
        <4>1. ~(i <= Len(u)) /\ i - Len(u) \in 1..(n - at) /\ at + (i - Len(u)) = i + 1
          BY <1>3, <2>0, <2>1, <3>2, SMT
        <4>2. r[i] = v[i - Len(u)]
          BY <2>3, <2>4, <2>5, <4>1
        <4> QED
          BY <2>2, <3>2, <4>1, <4>2
      <3> QED BY <3>1, <3>2
    <2> QED
      BY <2>3, <2>4, <2>5, <2>6
  <1> QED
    BY <1>1, <1>2, <1>3, <1>4

LEMMA Left ==
    ASSUME NEW S, NEW q \in Seq(S), NEW c, Has(q, c), Once(q)
    PROVE  /\ Without(c, q) \in Seq(S) /\ Once(Without(c, q))
           /\ \A d : Has(Without(c, q), d) <=> d # c /\ Has(q, d)
  <1> DEFINE r == Without(c, q)
             n == Len(q)
  <1>1. PICK at \in DOMAIN q :
           /\ q[at] = c /\ n \in Nat /\ DOMAIN q = 1..n
           /\ r \in Seq(S) /\ DOMAIN r = 1..(n - 1)
           /\ \A i \in 1..(n - 1) : r[i] = IF i < at THEN q[i] ELSE q[i + 1]
    BY TakenOut
  <1>2. r = Without(c, q)
    OBVIOUS
  <1>3. n \in Nat /\ DOMAIN q = 1..n
    BY <1>1
  <1>4. /\ r \in Seq(S) /\ DOMAIN r = 1..(n - 1)
        /\ \A i \in 1..(n - 1) : r[i] = IF i < at THEN q[i] ELSE q[i + 1]
    BY <1>1
  <1> HIDE DEF r, n
  <1>5. at \in Nat /\ at \in 1..n
    BY <1>1, <1>3
  <1>6. \A i \in 1..(n - 1) : /\ i < at => i \in 1..n /\ i # at
                              /\ ~(i < at) => i + 1 \in 1..n /\ i + 1 # at
    BY <1>3, <1>5, SMT
  <1>7. \A i \in 1..n : /\ i < at => i \in 1..(n - 1)
                        /\ i > at => i - 1 \in 1..(n - 1) /\ ~(i - 1 < at) /\ (i - 1) + 1 = i
                        /\ i = at \/ i < at \/ i > at
    BY <1>3, <1>5, SMT
  <1>8. Once(r)
    <2> SUFFICES ASSUME NEW i \in 1..(n - 1), NEW j \in 1..(n - 1), r[i] = r[j] PROVE i = j
      BY <1>4 DEF Once
    <2> DEFINE x == IF i < at THEN i ELSE i + 1
               y == IF j < at THEN j ELSE j + 1
    <2>1. x \in DOMAIN q /\ y \in DOMAIN q /\ q[x] = q[y]
      BY <1>3, <1>4, <1>6
    <2>2. x = y
      BY <2>1 DEF Once
    <2> QED
      BY <1>3, <1>5, <2>2, SMT
  <1>9. ASSUME NEW d PROVE Has(r, d) <=> d # c /\ Has(q, d)
    <2>1. ASSUME NEW i \in 1..(n - 1), r[i] = d PROVE d # c /\ Has(q, d)
      <3> DEFINE x == IF i < at THEN i ELSE i + 1
      <3>1. x \in DOMAIN q /\ q[x] = d /\ x # at
        BY <1>3, <1>4, <1>6, <2>1
      <3> HIDE DEF x
      <3> QED
        BY <1>1, <3>1 DEF Has, Once
    <2>2. ASSUME NEW i \in 1..n, q[i] = d, d # c PROVE Has(r, d)
      <3>1. i # at
        BY <1>1, <2>2
      <3>2. CASE i < at
        BY <1>4, <1>7, <2>2, <3>2 DEF Has
      <3>3. CASE i > at
        <4>1. i - 1 \in 1..(n - 1) /\ r[i - 1] = d
          BY <1>4, <1>7, <2>2, <3>3
        <4> QED
          BY <1>4, <4>1 DEF Has
      <3> QED BY <1>7, <3>1, <3>2, <3>3
    <2> QED
      BY <1>3, <1>4, <2>1, <2>2 DEF Has
  <1> QED
    BY <1>2, <1>4, <1>8, <1>9

LEMMA FirstIsOne ==
    ASSUME NEW S \in SUBSET Pages, S # {}
    PROVE  First(S) \in S /\ \A q \in S : First(S) <= q
  <1>1. S \in SUBSET Nat
    BY HubAssumption
  <1>2. PICK p \in S : \A q \in S : ~(<<q, p>> \in OpToRel(<, Nat))
    BY <1>1, NatLessThanWellFounded, WFMin
  <1>3. \A q \in S : ~(q < p)
    BY <1>1, <1>2 DEF OpToRel
  <1>4. p \in S /\ \A q \in S : p <= q
    BY <1>1, <1>3, SMT
  <1> QED
    BY <1>4 DEF First

-------------------------------------------------------------------------------
(* Types: every running broadcast waits at the socket it is at, once, and nowhere else. *)

Cast == [m : Ids, v : 1..MaxVersion, left : SUBSET Pages, wide : BOOLEAN, at : Pages]

Bounded ==
    /\ object \in [Ids -> 0..MaxVersion]
    /\ \A m \in DOMAIN file : file[m] \in 0..MaxVersion

CastTypes == casts \in [1..MaxCasts -> Cast \cup {NoCast}]

Queues(w) == w \in [Pages -> Seq(1..MaxCasts)] /\ \A p \in Pages : Once(w[p])

Enlisted ==
    /\ Queues(waiting)
    /\ \A c \in 1..MaxCasts, p \in Pages : Has(waiting[p], c) <=> p = casts[c].at

Frames == [m : Ids, v : 1..MaxVersion]
InboxTypes == inbox \in [Pages -> Seq(Frames)]

PageTypes ==
    /\ open \subseteq Pages /\ answered \subseteq Pages
    /\ early \subseteq answered /\ lost \subseteq Pages
    /\ initial \in [Pages -> [Ids -> 0..MaxVersion]]
    /\ live \in [Pages -> [Ids -> 0..MaxVersion]]

HubTypes ==
    /\ StoreInv /\ Bounded
    /\ serving \in BOOLEAN /\ subs \subseteq Pages
    /\ CastTypes /\ Enlisted
    /\ InboxTypes /\ PageTypes

LEMMA NowhereYet == NoPage \notin Pages /\ NoCast.at = NoPage
BY HubAssumption DEF NoPage, NoCast

LEMMA BoundedStep ==
    ASSUME StoreInv, Bounded, [StoreNext]_storeVars
    PROVE  Bounded'
  <1>0. MaxVersion \in Nat /\ object \in [Ids -> 0..MaxVersion]
    BY StoreAssumption DEF Bounded
  <1>1. CASE UNCHANGED storeVars
    BY <1>1 DEF storeVars, Bounded
  <1>2. ASSUME NEW m \in Ids, Touch(m) PROVE Bounded'
    <2>1. object[m] + 1 \in 0..MaxVersion
      BY <1>0, <1>2, SMT DEF Touch
    <2> QED
      BY <1>2, <2>1 DEF Touch, Bounded
  <1>3. ASSUME NEW m \in Ids, Save(m) PROVE Bounded'
    <2>1. object[m] + 1 \in 0..MaxVersion
      BY <1>0, <1>3, SMT DEF Save
    <2>2. object' \in [Ids -> 0..MaxVersion]
      BY <1>0, <1>3, <2>1 DEF Save
    <2>3. \A n \in DOMAIN file' : n \in Ids /\ file'[n] = object'[n]
      BY <1>3 DEF Save, Persist, StoreInv, StoreTypeOK
    <2> QED
      BY <2>2, <2>3 DEF Bounded
  <1>4. ASSUME NEW m \in Ids, Delete(m) PROVE Bounded'
    <2>1. \A n \in DOMAIN file' : n \in Ids /\ file'[n] = object[n]
      BY <1>4 DEF Delete, Persist, StoreInv, StoreTypeOK
    <2> QED
      BY <1>0, <1>4, <2>1 DEF Delete, Bounded
  <1>5. CASE Restart
    <2>1. stored' \subseteq DOMAIN file
      BY <1>5 DEF Restart, Loaded
    <2> QED
      BY <1>0, <1>5, <2>1 DEF Restart, Bounded
  <1>6. CASE TornRestart
    BY <1>6 DEF TornRestart, Bounded
  <1> QED
    BY <1>1, <1>2, <1>3, <1>4, <1>5, <1>6 DEF StoreNext

\* A broadcast before it awaits its next socket.
Going == [m : Ids, v : 1..MaxVersion, left : SUBSET Pages, wide : BOOLEAN, at : Pages \cup {NoPage}]

LEMMA RestIsTyped ==
    ASSUME NEW x \in Going, NEW T \in SUBSET Pages
    PROVE  Rest(x, T) \in Going /\ FrameOf(Rest(x, T)) = FrameOf(x)
  <1>1. On(Every, T) \in SUBSET Pages
    BY DEF On
  <1> QED
    BY <1>1 DEF Rest, Going, FrameOf

LEMMA GoOnTyped ==
    ASSUME CastTypes, InboxTypes, NEW c \in 1..MaxCasts, NEW x \in Going, NEW T \in SUBSET Pages,
           NEW w, Queues(w), GoOn(c, x, T, w),
           \A d \in 1..MaxCasts, p \in Pages : Has(w[p], d) <=> d # c /\ p = casts[d].at
    PROVE  CastTypes' /\ Enlisted' /\ InboxTypes'
  <1> DEFINE rest == Rest(x, T)
             p == First(rest.left)
             y == [rest EXCEPT !.left = @ \ {p}, !.at = p]
             frame == [m |-> x.m, v |-> x.v]
  <1>1. rest \in Going
    BY RestIsTyped
  <1>2. frame \in Frames
    BY DEF Going, Frames
  <1>3. CASE /\ casts' = [casts EXCEPT ![c] = NoCast]
             /\ waiting' = w /\ UNCHANGED inbox
    <2>1. casts'[c].at \notin Pages /\ \A d \in 1..MaxCasts : d # c => casts'[d] = casts[d]
      BY <1>3, NowhereYet DEF CastTypes
    <2>2. Enlisted'
      BY <1>3, <2>1 DEF Enlisted
    <2> QED
      BY <1>3, <2>2 DEF CastTypes, InboxTypes
  <1>4. CASE /\ rest.left # {}
             /\ casts' = [casts EXCEPT ![c] = y]
             /\ waiting' = [w EXCEPT ![p] = Append(@, c)]
             /\ inbox' = IF p \in open THEN [inbox EXCEPT ![p] = Append(@, frame)] ELSE inbox
    <2>1. p \in Pages
      BY <1>1, <1>4, FirstIsOne DEF Going
    <2>2. y \in Cast /\ y.at = p
      BY <1>1, <2>1 DEF Going, Cast
    <2> HIDE DEF y, p, rest, frame
    <2>3. CastTypes'
      BY <1>4, <2>2 DEF CastTypes
    <2>4. w[p] \in Seq(1..MaxCasts) /\ Once(w[p]) /\ ~Has(w[p], c)
      BY <2>1 DEF Queues
    <2>5. PICK r : r = Append(w[p], c)
      OBVIOUS
    <2>6. r \in Seq(1..MaxCasts) /\ Once(r) /\ \A d : Has(r, d) <=> d = c \/ Has(w[p], d)
      BY <2>4, <2>5, Joined
    <2>7. waiting' = [w EXCEPT ![p] = r]
      BY <1>4, <2>5
    <2>8. \A q \in Pages : waiting'[q] = IF q = p THEN r ELSE w[q]
      BY <2>7 DEF Queues
    <2>9. Queues(waiting')
      BY <2>1, <2>6, <2>7, <2>8 DEF Queues
    <2>10. \A d \in 1..MaxCasts : casts'[d].at = IF d = c THEN p ELSE casts[d].at
      BY <1>4, <2>2 DEF CastTypes
    <2>11. ASSUME NEW d \in 1..MaxCasts, NEW q \in Pages
           PROVE  Has(waiting'[q], d) <=> q = casts'[d].at
      BY <2>6, <2>8, <2>10
    <2>12. Append(inbox[p], frame) \in Seq(Frames)
      BY <1>2, <2>1, Appended DEF InboxTypes
    <2>13. InboxTypes'
      BY <1>4, <2>12 DEF InboxTypes
    <2> QED
      BY <2>3, <2>9, <2>11, <2>13 DEF Enlisted
  <1>5. x.m = rest.m /\ x.v = rest.v
    BY RestIsTyped DEF FrameOf
  <1> QED
    BY <1>3, <1>4 DEF GoOn

LEMMA EmitTyped == ASSUME HubTypes, NEW m \in Ids, Emit(m) PROVE HubTypes'
  <1>1. Save(m) /\ Broadcast(m) /\ UNCHANGED <<serving, subs, open, answered, initial, live, early, lost>>
    BY DEF Emit
  <1>2. StoreInv' /\ Bounded'
    BY <1>1, StoreStep, BoundedStep DEF HubTypes, StoreNext
  <1>3. object'[m] \in 1..MaxVersion
    BY <1>1, StoreAssumption, SMT DEF Save, HubTypes, Bounded
  <1>4. PICK x : x = [m |-> m, v |-> object'[m], left |-> On(m, subs), wide |-> FALSE, at |-> NoPage]
    OBVIOUS
  <1>5. x \in Going
    BY <1>3, <1>4 DEF Going, On, HubTypes
  <1>6. PICK T \in SUBSET Pages : T = subs
    BY DEF HubTypes
  <1>7. PICK w : w = waiting
    OBVIOUS
  <1>8. PICK c \in 1..MaxCasts : casts[c] = NoCast /\ GoOn(c, x, T, w)
    BY <1>1, <1>4, <1>6, <1>7 DEF Broadcast, Idle
  <1>9. \A d \in 1..MaxCasts, p \in Pages : Has(w[p], d) <=> d # c /\ p = casts[d].at
    BY <1>7, <1>8, NowhereYet DEF HubTypes, Enlisted
  <1>10. CastTypes' /\ Enlisted' /\ InboxTypes'
    BY <1>5, <1>7, <1>8, <1>9, GoOnTyped DEF HubTypes, Enlisted
  <1> QED
    BY <1>1, <1>2, <1>10 DEF HubTypes, PageTypes

\* A broadcast that resumes has left the queue of the socket it waited at.
LEMMA Resumed ==
    ASSUME HubTypes, NEW c \in 1..MaxCasts, Resume(c)
    PROVE  \E p \in Pages, T \in SUBSET Pages : \E w :
              /\ p = casts[c].at /\ casts[c] \in Cast /\ casts[c] \in Going
              /\ T = (IF p \in open THEN subs ELSE subs \ {p}) /\ subs' = T
              /\ GoOn(c, casts[c], T, w)
              /\ waiting[p] \in Seq(1..MaxCasts) /\ Once(waiting[p]) /\ Has(waiting[p], c)
              /\ \A q \in Pages : w[q] = IF q = p THEN Without(c, waiting[p]) ELSE waiting[q]
              /\ Queues(w)
              /\ \A d \in 1..MaxCasts, q \in Pages : Has(w[q], d) <=> d # c /\ q = casts[d].at
  <1>1. PICK p \in Pages : p = casts[c].at
    BY NowhereYet DEF Resume, HubTypes, CastTypes, Cast
  <1>2. p \in Pages /\ casts[c] \in Cast
    BY <1>1, NowhereYet DEF Resume, HubTypes, CastTypes, Cast
  <1>3. casts[c] \in Going
    BY <1>2 DEF Cast, Going
  <1>4. PICK T \in SUBSET Pages : T = IF p \in open THEN subs ELSE subs \ {p}
    BY DEF HubTypes
  <1>5. PICK r : r = Without(c, waiting[p])
    OBVIOUS
  <1>6. PICK w : w = [waiting EXCEPT ![p] = r]
    OBVIOUS
  <1>7. GoOn(c, casts[c], T, w) /\ subs' = T
    BY <1>1, <1>4, <1>5, <1>6 DEF Resume
  <1>8. waiting[p] \in Seq(1..MaxCasts) /\ Once(waiting[p]) /\ Has(waiting[p], c)
    BY <1>1, <1>2 DEF HubTypes, Enlisted, Queues
  <1>9. /\ r \in Seq(1..MaxCasts) /\ Once(r)
         /\ \A d : Has(r, d) <=> d # c /\ Has(waiting[p], d)
    BY <1>5, <1>8, Left
  <1>10. w \in [Pages -> Seq(1..MaxCasts)] /\ \A q \in Pages : w[q] = IF q = p THEN r ELSE waiting[q]
    BY <1>6, <1>9 DEF HubTypes, Enlisted, Queues
  <1>11. Queues(w)
    BY <1>9, <1>10 DEF HubTypes, Enlisted, Queues
  <1>12. \A d \in 1..MaxCasts, q \in Pages : Has(w[q], d) <=> d # c /\ q = casts[d].at
    BY <1>1, <1>9, <1>10 DEF HubTypes, Enlisted
  <1> WITNESS p \in Pages, T \in SUBSET Pages
  <1> WITNESS w
  <1> QED
    BY <1>1, <1>2, <1>3, <1>4, <1>5, <1>7, <1>8, <1>10, <1>11, <1>12

LEMMA ResumeTyped == ASSUME HubTypes, NEW c \in 1..MaxCasts, Resume(c) PROVE HubTypes'
  <1>1. UNCHANGED <<storeVars, serving, open, answered, initial, live, early, lost>>
    BY DEF Resume
  <1>2. StoreInv' /\ Bounded'
    BY <1>1, StoreStep, BoundedStep DEF HubTypes
  <1>3. PICK T \in SUBSET Pages : \E w :
           /\ casts[c] \in Going /\ subs' = T /\ GoOn(c, casts[c], T, w) /\ Queues(w)
           /\ \A d \in 1..MaxCasts, q \in Pages : Has(w[q], d) <=> d # c /\ q = casts[d].at
    BY Resumed
  <1>4. PICK x \in Going : x = casts[c]
    BY <1>3
  <1>5. PICK w :
           /\ GoOn(c, x, T, w) /\ Queues(w)
           /\ \A d \in 1..MaxCasts, q \in Pages : Has(w[q], d) <=> d # c /\ q = casts[d].at
    BY <1>3, <1>4
  <1>6. CastTypes' /\ Enlisted' /\ InboxTypes'
    BY <1>5, GoOnTyped DEF HubTypes
  <1> QED
    BY <1>1, <1>2, <1>3, <1>6 DEF HubTypes, PageTypes

LEMMA ReceiveTyped == ASSUME HubTypes, NEW p \in Pages, Receive(p) PROVE HubTypes'
  <1>1. UNCHANGED <<storeVars, hubVars, open, answered, initial, early, lost>>
        /\ inbox[p] \in Seq(Frames) /\ inbox[p] # <<>>
    BY DEF Receive, HubTypes, InboxTypes
  <1>2. Head(inbox[p]) \in Frames /\ Tail(inbox[p]) \in Seq(Frames)
    BY <1>1, Received
  <1>3. PICK f \in Frames : f = Head(inbox[p])
    BY <1>2
  <1>4. f.m \in Ids /\ f.v \in 0..MaxVersion
    BY StoreAssumption, SMT DEF Frames
  <1>5. live' = [live EXCEPT ![p][f.m] = f.v]
    BY <1>3 DEF Receive
  <1>6. live' \in [Pages -> [Ids -> 0..MaxVersion]]
    BY <1>4, <1>5 DEF HubTypes, PageTypes
  <1>7. InboxTypes'
    BY <1>2 DEF Receive, HubTypes, InboxTypes
  <1>8. StoreInv' /\ Bounded'
    BY <1>1, StoreStep, BoundedStep DEF HubTypes
  <1> QED
    BY <1>1, <1>6, <1>7, <1>8 DEF HubTypes, PageTypes, CastTypes, Enlisted, hubVars

\* A page's request is answered from memory.
LEMMA AnswerTyped == ASSUME HubTypes, NEW p \in Pages, Answer(p) PROVE HubTypes'
  <1>1. UNCHANGED <<storeVars, hubVars, open, inbox, live, lost>>
    BY DEF Answer
  <1>2. PICK asked : initial' = [initial EXCEPT ![p] = [m \in Ids |-> IF m \in asked THEN object[m] ELSE 0]]
    BY DEF Answer
  <1>3. 0 \in 0..MaxVersion
    BY StoreAssumption, SMT
  <1>4. [m \in Ids |-> IF m \in asked THEN object[m] ELSE 0] \in [Ids -> 0..MaxVersion]
    BY <1>3 DEF HubTypes, Bounded
  <1>5. initial' \in [Pages -> [Ids -> 0..MaxVersion]]
    BY <1>2, <1>4 DEF HubTypes, PageTypes
  <1>6. answered' \subseteq Pages /\ early' \subseteq answered'
    BY DEF Answer, HubTypes, PageTypes
  <1>7. StoreInv' /\ Bounded'
    BY <1>1, StoreStep, BoundedStep DEF HubTypes
  <1> QED
    BY <1>1, <1>5, <1>6, <1>7 DEF HubTypes, PageTypes, CastTypes, Enlisted, InboxTypes, hubVars

LEMMA KillTyped == ASSUME HubTypes, Kill PROVE HubTypes'
  <1>1. StoreInv' /\ Bounded'
    BY StoreStep, BoundedStep DEF HubTypes, Kill, StoreNext
  <1>2. CastTypes'
    BY DEF Kill, CastTypes
  <1>3. <<>> \in Seq(1..MaxCasts) /\ <<>> \in Seq(Frames) /\ Once(<<>>) /\ \A c : ~Has(<<>>, c)
    BY SMT DEF Once, Has
  <1>4. Enlisted'
    BY <1>3, NowhereYet DEF Kill, Enlisted, Queues
  <1>5. InboxTypes'
    BY <1>3 DEF Kill, InboxTypes
  <1> QED
    BY <1>1, <1>2, <1>4, <1>5 DEF Kill, HubTypes, PageTypes

\* The steps of the other components, and of a page that comes and goes.
LEMMA QuietTyped ==
    ASSUME HubTypes, [StoreNext]_storeVars, UNCHANGED <<casts, waiting, answered, initial, live, early>>,
           serving' \in BOOLEAN, subs' \subseteq Pages, open' \subseteq Pages, lost' \subseteq Pages,
           inbox' = inbox \/ \E p \in Pages : inbox' = [inbox EXCEPT ![p] = <<>>]
    PROVE  HubTypes'
  <1>1. StoreInv' /\ Bounded'
    BY StoreStep, BoundedStep DEF HubTypes
  <1>2. <<>> \in Seq(Frames)
    BY SMT
  <1>3. InboxTypes'
    BY <1>2 DEF HubTypes, InboxTypes
  <1> QED
    BY <1>1, <1>3 DEF HubTypes, PageTypes, CastTypes, Enlisted

LEMMA HubTypesStep == ASSUME HubTypes, [Next]_vars PROVE HubTypes'
  <1>1. [StoreNext]_storeVars
    BY HubStepsAreStoreSteps
  <1>2. serving \in BOOLEAN /\ subs \subseteq Pages /\ open \subseteq Pages /\ lost \subseteq Pages
    BY DEF HubTypes, PageTypes
  <1>3. ASSUME NEW m \in Ids, Emit(m) PROVE HubTypes'
    BY <1>3, EmitTyped
  <1>4. ASSUME NEW c \in 1..MaxCasts, Resume(c) PROVE HubTypes'
    BY <1>4, ResumeTyped
  <1>5. ASSUME NEW p \in Pages, Receive(p) \/ Answer(p) PROVE HubTypes'
    BY <1>5, ReceiveTyped, AnswerTyped
  <1>6. ASSUME NEW m \in Ids, Reconcile(m) \/ Alone(Touch(m) \/ Delete(m)) PROVE HubTypes'
    BY <1>1, <1>2, <1>6, QuietTyped DEF Reconcile, Alone, hubVars, pageVars
  <1>7. ASSUME Serve \/ UNCHANGED vars PROVE HubTypes'
    BY <1>1, <1>2, <1>7, QuietTyped DEF Serve, vars, hubVars, pageVars
  <1>8. ASSUME NEW p \in Pages, Connect(p) \/ Drop(p) \/ Unregister(p) PROVE HubTypes'
    BY <1>1, <1>2, <1>8, QuietTyped DEF Connect, Drop, Unregister, hubVars, pageVars
  <1> QED
    BY <1>3, <1>4, <1>5, <1>6, <1>7, <1>8, KillTyped DEF Next

LEMMA HubTypesInit == ASSUME Init PROVE HubTypes
  <1>1. StoreInv /\ object = [m \in Ids |-> 0] /\ DOMAIN file = {}
    BY InitKeeps DEF Init, KeepInv, StoreInit
  <1>2. 0 \in 0..MaxVersion
    BY StoreAssumption, SMT
  <1>3. Bounded
    BY <1>1, <1>2 DEF Bounded
  <1>4. <<>> \in Seq(1..MaxCasts) /\ <<>> \in Seq(Frames) /\ Once(<<>>) /\ \A c : ~Has(<<>>, c)
    BY SMT DEF Once, Has
  <1>5. CastTypes /\ Enlisted
    BY <1>4, NowhereYet DEF Init, CastTypes, Enlisted, Queues
  <1>6. InboxTypes /\ PageTypes
    BY <1>2, <1>4 DEF Init, InboxTypes, PageTypes
  <1> QED
    BY <1>1, <1>3, <1>5, <1>6 DEF Init, HubTypes

LEMMA HubTypesImply == ASSUME HubTypes PROVE TypeOK
  <1>1. ASSUME NEW c \in 1..MaxCasts, casts[c] # NoCast
        PROVE  /\ casts[c].m \in Ids /\ casts[c].v \in 1..MaxVersion
               /\ casts[c].left \subseteq Pages
    BY <1>1 DEF HubTypes, CastTypes, Cast
  <1>2. ASSUME NEW c \in 1..MaxCasts, NEW p \in Pages
        PROVE  (\E i \in DOMAIN waiting[p] : waiting[p][i] = c) <=> p = casts[c].at
    BY DEF HubTypes, Enlisted, Has
  <1>3. \A p \in Pages, m \in Ids : {initial[p][m], live[p][m]} \subseteq 0..MaxVersion
    BY DEF HubTypes, PageTypes
  <1>4. DOMAIN casts = 1..MaxCasts
    BY DEF HubTypes, CastTypes
  <1> QED
    BY <1>1, <1>2, <1>3, <1>4 DEF HubTypes, PageTypes, StoreInv, TypeOK

\* Every variable holds values of its kind, and a broadcast waits at the socket it has
\* come to and at no other, however broadcasts overtake each other, sockets fail and the
\* process is killed.
THEOREM HubTypeCorrect == Spec => []TypeOK
  <1>1. Init => HubTypes
    BY HubTypesInit
  <1>2. HubTypes /\ [Next]_vars => HubTypes'
    BY HubTypesStep
  <1>3. HubTypes => TypeOK
    BY HubTypesImply
  <1> QED
    BY <1>1, <1>2, <1>3, PTL DEF Spec
-------------------------------------------------------------------------------
(* Pages go forward *)

\* The pages whose connection does not fail, and the hypothesis that a broadcast comes
\* to those before it comes to one whose connection may.
Firm == Pages \ Dropping

DroppingLast ==
    \A p \in Firm, d \in Dropping :
        /\ TopicOf[p] = TopicOf[d] => p < d
        /\ TopicOf[p] = Every => TopicOf[d] = Every

\* The sockets that broadcast x is still to come to, T being registered.
Visits(x, T) == x.left \cup (IF x.wide THEN {} ELSE On(Every, T))

Stage(x) == IF x.wide THEN On(Every, Pages) ELSE On(x.m, Pages)
Listed(x, T) == x.left \subseteq Stage(x) /\ x.left \cap Firm \subseteq T
Stands(x, T) ==
    /\ x.at \in Stage(x) /\ (x.at \in Firm => x.at \in T)
    /\ \A q \in x.left : x.at < q

Casts == {c \in 1..MaxCasts : casts[c] # NoCast}
Ahead(queue, c, d) == \E i, j \in DOMAIN queue : i < j /\ queue[i] = c /\ queue[j] = d
Older(c, d) == casts[c].m = casts[d].m /\ casts[c].v < casts[d].v

FirmStay == Firm \cap subs = Firm \cap open
Way == \A c \in Casts : Listed(casts[c], subs) /\ Stands(casts[c], subs)
Apart == \A c, d \in Casts : c # d /\ casts[c].m = casts[d].m => casts[c].v # casts[d].v

\* Where an older broadcast waits or is still to come to, the newer one of the same
\* record comes after it.
InTurn ==
    \A c, d \in Casts :
        Older(c, d) =>
            /\ casts[c].at \in Firm =>
                  \/ casts[c].at \in Visits(casts[d], subs)
                  \/ casts[d].at = casts[c].at /\ Ahead(waiting[casts[c].at], c, d)
            /\ Visits(casts[c], subs) \cap Firm \subseteq Visits(casts[d], subs)

\* What is under way to a page is newer than what it shows, in the order in which it
\* will arrive.
Fresh ==
    \A p \in Firm :
        /\ \A i, j \in DOMAIN inbox[p] :
              i < j /\ inbox[p][i].m = inbox[p][j].m => inbox[p][i].v < inbox[p][j].v
        /\ \A i \in DOMAIN inbox[p] : live[p][inbox[p][i].m] < inbox[p][i].v
        /\ \A c \in Casts :
              p \in Visits(casts[c], subs) =>
                  /\ live[p][casts[c].m] < casts[c].v
                  /\ \A i \in DOMAIN inbox[p] :
                        inbox[p][i].m = casts[c].m => inbox[p][i].v < casts[c].v
        /\ p \notin open =>
              inbox[p] = <<>> /\ \A c \in Casts : live[p][casts[c].m] < casts[c].v

ForwardInv == FirmStay /\ Way /\ Apart /\ InTurn /\ Fresh

\* The version that a page was last sent never falls.
PagesGoForward == [][\A p \in Firm, m \in Ids : live'[p][m] >= live[p][m]]_vars

LEMMA PageNumbers == Pages \subseteq Nat /\ Every \notin Ids /\ \A p \in Pages : p \in Nat
  BY HubAssumption

LEMMA SameVisits ==
    ASSUME NEW x, NEW T, NEW U, Firm \cap T = Firm \cap U, NEW p \in Firm
    PROVE  p \in Visits(x, T) <=> p \in Visits(x, U)
  <1>1. p \in T <=> p \in U
    OBVIOUS
  <1> QED
    BY <1>1 DEF Visits, On

\* Taking up the sockets of "*" changes nothing in what is still to come.
LEMMA RestVisits ==
    ASSUME NEW x \in Going, NEW T \in SUBSET Pages, Listed(x, T)
    PROVE  /\ Rest(x, T) \in Going
           /\ Rest(x, T).m = x.m /\ Rest(x, T).v = x.v
           /\ Listed(Rest(x, T), T)
           /\ \A p : p \in Visits(Rest(x, T), T) <=> p \in Visits(x, T)
  <1>1. Rest(x, T) \in Going /\ Rest(x, T).m = x.m /\ Rest(x, T).v = x.v
    BY RestIsTyped DEF FrameOf
  <1>2. CASE x.left # {} \/ x.wide
    <2>1. Rest(x, T) = x
      BY <1>2 DEF Rest
    <2> QED
      BY <1>1, <2>1
  <1>3. CASE ~(x.left # {} \/ x.wide)
    <2>1. Rest(x, T).wide = TRUE /\ Rest(x, T).left = On(Every, T)
      BY <1>3 DEF Rest, Going
    <2>2. Listed(Rest(x, T), T)
      BY <2>1 DEF Listed, Stage, On
    <2>3. \A p : p \in Visits(Rest(x, T), T) <=> p \in Visits(x, T)
      BY <1>3, <2>1 DEF Visits
    <2> QED
      BY <1>1, <2>2, <2>3
  <1> QED BY <1>2, <1>3

\* A broadcast that has come to its next socket.
LEMMA Moved ==
    ASSUME NEW x \in Going, NEW T \in SUBSET Pages, Listed(x, T), x.left # {},
           NEW p, p = First(x.left), NEW y \in Going,
           y.m = x.m, y.v = x.v, y.wide = x.wide, y.left = x.left \ {p}, y.at = p
    PROVE  /\ y \in Cast /\ y.m = x.m /\ y.v = x.v /\ y.at = p /\ p \in Pages
           /\ Listed(y, T) /\ Stands(y, T)
           /\ p \in Visits(x, T)
           /\ \A q : q \in Visits(y, T) <=> q # p /\ q \in Visits(x, T)
  <1>1. x.left \in SUBSET Pages /\ x.m \in Ids /\ x.wide \in BOOLEAN
    BY DEF Going
  <1>2. p \in x.left /\ \A q \in x.left : p <= q
    BY <1>1, FirstIsOne
  <1>3. y \in Cast /\ y.m = x.m /\ y.v = x.v /\ y.at = p /\ y.left = x.left \ {p} /\ y.wide = x.wide
    BY <1>1, <1>2 DEF Going, Cast
  <1>4. \A q \in y.left : p < q
    <2> SUFFICES ASSUME NEW q \in x.left, q # p PROVE p < q
      BY <1>3
    <2>1. p \in Nat /\ q \in Nat /\ p <= q
      BY <1>1, <1>2, PageNumbers
    <2> QED
      BY <2>1
  <1>5. Stage(y) = Stage(x)
    BY <1>3 DEF Stage
  <1>6. Listed(y, T)
    BY <1>3, <1>5 DEF Listed
  <1>7. Stands(y, T)
    BY <1>2, <1>3, <1>4, <1>5 DEF Listed, Stands
  <1>8. ~x.wide => p \notin On(Every, T)
    BY <1>1, <1>2, PageNumbers DEF Listed, Stage, On
  <1>9. \A q : q \in Visits(y, T) <=> q # p /\ q \in Visits(x, T)
    BY <1>3, <1>8 DEF Visits
  <1> QED
    BY <1>1, <1>2, <1>3, <1>6, <1>7, <1>9 DEF Visits

\* No broadcast d that is before x, as x is about to come to page p, comes there later.
LEMMA NextIsClear ==
    ASSUME DroppingLast, NEW x \in Going, NEW T \in SUBSET Pages, Listed(x, T), x.left # {},
           NEW p, p = First(x.left), p \in Firm,
           NEW d \in Cast, NEW U \in SUBSET Pages, Listed(d, U), Stands(d, U), d.m = x.m,
           d.at \in Firm => d.at \in Visits(x, T)
    PROVE  p \notin Visits(d, U)
  <1>1. x.left \in SUBSET Pages /\ x.m \in Ids /\ d.m \in Ids /\ d.at \in Pages
    BY DEF Going, Cast
  <1>2. p \in x.left /\ \A q \in x.left : p <= q
    BY <1>1, FirstIsOne
  <1> SUFFICES ASSUME p \in Visits(d, U) PROVE FALSE
    OBVIOUS
  <1>3. p \in d.left \/ (~d.wide /\ TopicOf[p] = Every)
    BY DEF Visits, On
  <1>4. p \in d.left => TopicOf[p] = TopicOf[d.at] /\ d.at < p
    BY DEF Listed, Stands, Stage, On
  <1>5. ~d.wide => TopicOf[d.at] = d.m
    BY DEF Stands, Stage, On
  <1>6. d.wide => TopicOf[d.at] = Every
    BY DEF Stands, Stage, On
  <1>7. p \in Nat /\ d.at \in Nat
    BY <1>1, <1>2, PageNumbers
  <1>8. ~(p < d.at /\ d.at < p) /\ ~(p <= d.at /\ d.at < p)
    BY <1>7
  <1>9. d.at \in Firm
    <2>1. d.at \notin Dropping
      BY <1>1, <1>3, <1>4, <1>5, <1>8, PageNumbers DEF DroppingLast
    <2> QED
      BY <1>1, <2>1 DEF Firm
  <1>10. d.at \in x.left \/ (~x.wide /\ TopicOf[d.at] = Every)
    BY <1>9 DEF Visits, On
  <1>11. CASE d.at \in x.left
    <2>1. TopicOf[d.at] = TopicOf[p]
      BY <1>2, <1>11 DEF Listed, Stage, On
    <2>2. p <= d.at
      BY <1>2, <1>11
    <2> QED
      BY <1>1, <1>3, <1>4, <1>5, <1>8, <2>1, <2>2, PageNumbers
  <1>12. CASE ~x.wide /\ TopicOf[d.at] = Every
    <2>1. TopicOf[p] = x.m
      BY <1>2, <1>12 DEF Listed, Stage, On
    <2> QED
      BY <1>1, <1>3, <1>4, <1>5, <1>12, <2>1, PageNumbers
  <1> QED BY <1>10, <1>11, <1>12

\* Queues keep their order.
LEMMA AheadJoined ==
    ASSUME NEW S, NEW q \in Seq(S), NEW c \in S
    PROVE  LET r == Append(q, c)
           IN  /\ \A a, b : Ahead(q, a, b) => Ahead(r, a, b)
               /\ \A a : Has(q, a) => Ahead(r, a, c)
  <1> DEFINE r == Append(q, c)
             n == Len(q)
  <1>1. /\ n \in Nat /\ DOMAIN q = 1..n /\ DOMAIN r = 1..(n + 1)
        /\ r[n + 1] = c /\ \A i \in 1..n : r[i] = q[i]
    BY SMT
  <1>2. n + 1 \in 1..(n + 1) /\ \A i \in 1..n : i < n + 1 /\ i \in 1..(n + 1)
    BY <1>1, SMT
  <1> HIDE DEF r, n
  <1>3. \A a, b : Ahead(q, a, b) => Ahead(r, a, b)
    BY <1>1, <1>2 DEF Ahead
  <1>4. \A a : Has(q, a) => Ahead(r, a, c)
    BY <1>1, <1>2 DEF Ahead, Has
  <1> QED
    BY <1>3, <1>4 DEF r

LEMMA AheadLeft ==
    ASSUME NEW S, NEW q \in Seq(S), NEW c, Has(q, c), NEW a, NEW b, a # c, b # c, Ahead(q, a, b)
    PROVE  Ahead(Without(c, q), a, b)
  <1> DEFINE r == Without(c, q)
             n == Len(q)
  <1>1. PICK at \in DOMAIN q :
           /\ q[at] = c /\ n \in Nat /\ DOMAIN q = 1..n
           /\ r \in Seq(S) /\ DOMAIN r = 1..(n - 1)
           /\ \A i \in 1..(n - 1) : r[i] = IF i < at THEN q[i] ELSE q[i + 1]
    BY TakenOut
  <1>2. PICK i, j \in DOMAIN q : i < j /\ q[i] = a /\ q[j] = b
    BY DEF Ahead
  <1> HIDE DEF r, n
  <1>3. i # at /\ j # at /\ n \in Nat /\ at \in 1..n /\ i \in 1..n /\ j \in 1..n
    BY <1>1, <1>2
  <1> DEFINE k == IF i < at THEN i ELSE i - 1
             l == IF j < at THEN j ELSE j - 1
  <1>4. k \in 1..(n - 1) /\ l \in 1..(n - 1) /\ k < l
    BY <1>2, <1>3, SMT
  <1>5. /\ i < at => k = i /\ k < at
        /\ ~(i < at) => ~(k < at) /\ k + 1 = i
        /\ j < at => l = j /\ l < at
        /\ ~(j < at) => ~(l < at) /\ l + 1 = j
    BY <1>3, SMT
  <1> HIDE DEF k, l
  <1>6. r[k] = a /\ r[l] = b
    BY <1>1, <1>2, <1>4, <1>5
  <1> QED
    BY <1>1, <1>4, <1>6 DEF Ahead, r

LEMMA HeadIsFirst ==
    ASSUME NEW S, NEW q \in Seq(S), Once(q), q # <<>>, NEW c, Head(q) = c, NEW d
    PROVE  ~Ahead(q, d, c)
  <1>1. /\ 1 \in DOMAIN q /\ Head(q) = q[1]
        /\ \A i, j \in DOMAIN q : j = 1 => ~(i < j)
    BY SMT
  <1> QED
    BY <1>1 DEF Ahead, Once

LEMMA CastsAreTyped ==
    ASSUME HubTypes, NEW c \in Casts
    PROVE  /\ c \in 1..MaxCasts /\ casts[c] \in Cast /\ casts[c].m \in Ids /\ casts[c].v \in Nat
           /\ casts[c].at \in Pages
  <1>1. c \in 1..MaxCasts /\ casts[c] \in Cast
    BY DEF Casts, HubTypes, CastTypes
  <1>2. \A v \in 1..MaxVersion : v \in Nat
    BY StoreAssumption, SMT
  <1> QED
    BY <1>1, <1>2 DEF Cast

LEMMA FramesAreTyped ==
    ASSUME HubTypes, NEW p \in Pages
    PROVE  /\ inbox[p] \in Seq(Frames)
           /\ \A i \in DOMAIN inbox[p] : inbox[p][i].m \in Ids /\ inbox[p][i].v \in Nat
           /\ \A m \in Ids : live[p][m] \in Nat
  <1>1. inbox[p] \in Seq(Frames)
    BY DEF HubTypes, InboxTypes
  <1>2. \A v \in 0..MaxVersion : v \in Nat
    BY StoreAssumption, SMT
  <1>3. \A f \in Frames : f.m \in Ids /\ f.v \in Nat
    BY StoreAssumption, SMT DEF Frames
  <1>4. \A i \in DOMAIN inbox[p] : inbox[p][i] \in Frames
    BY <1>1, SMT
  <1>5. \A m \in Ids : live[p][m] \in 0..MaxVersion
    BY DEF HubTypes, PageTypes
  <1> QED
    BY <1>1, <1>2, <1>3, <1>4, <1>5

\* A broadcast that goes on ends, with nothing left to come to, or comes to the next
\* page and sends its frame there.
Ended(c, x, T, w) ==
    /\ Casts' = Casts \ {c} /\ \A d \in Casts \ {c} : casts'[d] = casts[d]
    /\ waiting' = w /\ UNCHANGED inbox
    /\ \A p : p \notin Visits(x, T)

CameTo(c, x, T, w, p, y, f) ==
    /\ \E rest \in Going :
          /\ rest.m = x.m /\ Listed(rest, T) /\ rest.left # {} /\ p = First(rest.left)
          /\ \A q : q \in Visits(rest, T) <=> q \in Visits(x, T)
    /\ y.m = x.m /\ y.v = x.v /\ y.at = p /\ Listed(y, T) /\ Stands(y, T)
    /\ p \in Visits(x, T) /\ \A q : q \in Visits(y, T) <=> q # p /\ q \in Visits(x, T)
    /\ Casts' = Casts \cup {c} /\ casts'[c] = y
    /\ \A d \in Casts \ {c} : casts'[d] = casts[d]
    /\ waiting' = [w EXCEPT ![p] = Append(@, c)]
    /\ f.m = x.m /\ f.v = x.v
    /\ \A q \in Pages : inbox'[q] = IF q = p /\ q \in open THEN Append(inbox[q], f) ELSE inbox[q]

LEMMA GoneOn ==
    ASSUME HubTypes, NEW c \in 1..MaxCasts, NEW x \in Going, NEW T \in SUBSET Pages, Listed(x, T),
           NEW w, GoOn(c, x, T, w)
    PROVE  \/ Ended(c, x, T, w)
           \/ \E p \in Pages, y \in Cast, f \in Frames : CameTo(c, x, T, w, p, y, f)
  <1>1. PICK rest : rest = Rest(x, T)
    OBVIOUS
  <1>2. /\ rest \in Going /\ rest.m = x.m /\ rest.v = x.v /\ Listed(rest, T)
        /\ \A p : p \in Visits(rest, T) <=> p \in Visits(x, T)
    BY <1>1, RestVisits
  <1>3. CASE /\ rest.left = {}
             /\ casts' = [casts EXCEPT ![c] = NoCast]
             /\ waiting' = w /\ UNCHANGED inbox
    <2>1. /\ Casts' = Casts \ {c}
          /\ \A d \in Casts \ {c} : casts'[d] = casts[d]
      BY <1>3 DEF Casts, HubTypes, CastTypes
    <2>2. \A p : p \notin Visits(rest, T)
      BY <1>1, <1>3 DEF Rest, Visits, Going
    <2> QED
      BY <1>2, <1>3, <2>1, <2>2 DEF Ended
  <1>4. CASE LET p == First(rest.left)
             IN /\ rest.left # {}
                /\ casts' = [casts EXCEPT ![c] = [rest EXCEPT !.left = @ \ {p}, !.at = p]]
                /\ waiting' = [w EXCEPT ![p] = Append(@, c)]
                /\ inbox' = IF p \in open
                            THEN [inbox EXCEPT ![p] = Append(@, [m |-> x.m, v |-> x.v])]
                            ELSE inbox
    <2>1. rest.left # {}
      BY <1>4
    <2>2. PICK p \in Pages : p = First(rest.left)
      BY <1>2, <2>1, FirstIsOne DEF Going
    <2>3. PICK y : y = [rest EXCEPT !.left = @ \ {p}, !.at = p]
      OBVIOUS
    <2>4. PICK f \in Frames : f = [m |-> x.m, v |-> x.v]
      BY DEF Going, Frames
    <2>5. /\ casts' = [casts EXCEPT ![c] = y]
          /\ waiting' = [w EXCEPT ![p] = Append(@, c)]
          /\ inbox' = IF p \in open THEN [inbox EXCEPT ![p] = Append(@, f)] ELSE inbox
      BY <1>4, <2>2, <2>3, <2>4
    <2>6. /\ y \in Going /\ y.m = rest.m /\ y.v = rest.v /\ y.wide = rest.wide
          /\ y.left = rest.left \ {p} /\ y.at = p
      BY <1>2, <2>3 DEF Going
    <2>7. /\ y \in Cast /\ Listed(y, T) /\ Stands(y, T) /\ p \in Visits(rest, T)
          /\ \A q : q \in Visits(y, T) <=> q # p /\ q \in Visits(rest, T)
      BY <1>2, <2>1, <2>2, <2>6, Moved
    <2>8. /\ Casts' = Casts \cup {c}
          /\ casts'[c] = y
          /\ \A d \in Casts \ {c} : casts'[d] = casts[d]
      <3>1. y # NoCast
        BY <2>6, NowhereYet
      <3> QED
        BY <2>5, <3>1 DEF Casts, HubTypes, CastTypes
    <2>9. \A q \in Pages : inbox'[q] = IF q = p /\ q \in open THEN Append(inbox[q], f) ELSE inbox[q]
      BY <2>5 DEF HubTypes, InboxTypes
    <2>10. f.m = x.m /\ f.v = x.v
      BY <2>4
    <2>11. CameTo(c, x, T, w, p, y, f)
      BY <1>2, <2>1, <2>2, <2>5, <2>6, <2>7, <2>8, <2>9, <2>10 DEF CameTo
    <2> QED
      BY <2>7, <2>11
  <1> QED
    BY <1>1, <1>3, <1>4 DEF GoOn

\* What is to be known of a broadcast x, numbered c, before it goes on among the others.
Newer(c, x, T) ==
    \A d \in Casts \ {c} :
        casts[d].m = x.m =>
            /\ casts[d].v # x.v
            /\ casts[d].v < x.v =>
                  /\ casts[d].at \in Firm => casts[d].at \in Visits(x, T)
                  /\ Visits(casts[d], T) \cap Firm \subseteq Visits(x, T)
            /\ x.v < casts[d].v => Visits(x, T) \cap Firm \subseteq Visits(casts[d], T)

FreshFor(x, T) ==
    \A p \in Firm :
        /\ p \in Visits(x, T) =>
              /\ live[p][x.m] < x.v
              /\ \A i \in DOMAIN inbox[p] : inbox[p][i].m = x.m => inbox[p][i].v < x.v
        /\ p \notin open => live[p][x.m] < x.v

LEMMA GoOnForward ==
    ASSUME DroppingLast, HubTypes, ForwardInv, NEW c \in 1..MaxCasts, NEW x \in Going,
           NEW T \in SUBSET Pages, subs' = T, Firm \cap T = Firm \cap subs,
           UNCHANGED <<open, live>>, Listed(x, T), Newer(c, x, T), FreshFor(x, T),
           NEW w, Queues(w), GoOn(c, x, T, w),
           \A d \in 1..MaxCasts, p \in Pages : Has(w[p], d) <=> d # c /\ p = casts[d].at,
           \A p \in Pages : \A a, b : a # c /\ b # c /\ Ahead(waiting[p], a, b) => Ahead(w[p], a, b)
    PROVE  ForwardInv'
  <1>0. FirmStay /\ Way /\ Apart /\ InTurn /\ Fresh
    BY DEF ForwardInv
  <1>1. FirmStay'
    BY <1>0 DEF FirmStay
  <1>2. \A d \in Casts : /\ d \in 1..MaxCasts /\ casts[d] \in Cast /\ casts[d].m \in Ids
                         /\ casts[d].v \in Nat /\ casts[d].at \in Pages
    BY CastsAreTyped
  <1>3. \A d \in Casts, p \in Firm : p \in Visits(casts[d], T) <=> p \in Visits(casts[d], subs)
    BY SameVisits
  <1>4. \A d \in Casts : Listed(casts[d], T) /\ Stands(casts[d], T)
    BY <1>0 DEF Way, Listed, Stands
  <1>5. ASSUME NEW a \in Casts \ {c}, NEW b \in Casts \ {c}, Older(a, b)
        PROVE  /\ casts[a].at \in Firm =>
                     \/ casts[a].at \in Visits(casts[b], T)
                     \/ casts[b].at = casts[a].at /\ Ahead(w[casts[a].at], a, b)
               /\ Visits(casts[a], T) \cap Firm \subseteq Visits(casts[b], T)
    BY <1>0, <1>2, <1>3, <1>5 DEF InTurn
  <1>6. \/ Ended(c, x, T, w)
        \/ \E p \in Pages, y \in Cast, f \in Frames : CameTo(c, x, T, w, p, y, f)
    BY GoneOn
  <1>7. CASE Ended(c, x, T, w)
    <2>1. /\ Casts' = Casts \ {c} /\ \A d \in Casts \ {c} : casts'[d] = casts[d]
          /\ waiting' = w /\ UNCHANGED inbox
      BY <1>7 DEF Ended
    <2>2. Way'
      BY <1>4, <2>1 DEF Way
    <2>3. Apart'
      BY <1>0, <2>1 DEF Apart
    <2>4. InTurn'
      BY <1>5, <2>1 DEF InTurn, Older
    <2>5. Fresh'
      BY <1>0, <1>3, <2>1 DEF Fresh
    <2> QED
      BY <1>1, <2>2, <2>3, <2>4, <2>5 DEF ForwardInv
  <1>8. ASSUME NEW p \in Pages, NEW y \in Cast, NEW f \in Frames, CameTo(c, x, T, w, p, y, f)
        PROVE  ForwardInv'
    <2>1. PICK rest \in Going :
             /\ rest.m = x.m /\ Listed(rest, T) /\ rest.left # {} /\ p = First(rest.left)
             /\ \A q : q \in Visits(rest, T) <=> q \in Visits(x, T)
      BY <1>8 DEF CameTo
    <2>2. waiting' = [w EXCEPT ![p] = Append(@, c)]
      BY <1>8 DEF CameTo
    <2>3. f.m = x.m /\ f.v = x.v
      BY <1>8 DEF CameTo
    <2>4. \A q \in Pages : inbox'[q] = IF q = p /\ q \in open THEN Append(inbox[q], f) ELSE inbox[q]
      BY <1>8 DEF CameTo
    <2>5. /\ y.m = x.m /\ y.v = x.v /\ y.at = p
          /\ Listed(y, T) /\ Stands(y, T)
          /\ p \in Visits(x, T)
          /\ \A q : q \in Visits(y, T) <=> q # p /\ q \in Visits(x, T)
      BY <1>8 DEF CameTo
    <2>6. x.m \in Ids /\ x.v \in Nat
      BY StoreAssumption, SMT DEF Going
    <2>7. /\ Casts' = Casts \cup {c}
          /\ casts'[c] = y
          /\ \A d \in Casts \ {c} : casts'[d] = casts[d]
      BY <1>8 DEF CameTo
    <2>8. \A d \in Casts' : d = c \/ d \in Casts \ {c}
      BY <2>7
    <2>9. ASSUME NEW d \in Casts \ {c}, casts[d].m = x.m, p \in Firm, p \in Visits(casts[d], T)
          PROVE  x.v < casts[d].v
      <3>1. casts[d].v # x.v
        BY <2>9 DEF Newer
      <3>2. ~(casts[d].v < x.v)
        <4>1. SUFFICES ASSUME casts[d].v < x.v PROVE FALSE
          OBVIOUS
        <4>2. casts[d].at \in Firm => casts[d].at \in Visits(rest, T)
          BY <2>1, <2>9, <4>1 DEF Newer
        <4>3. p \notin Visits(casts[d], T)
          BY <1>2, <1>4, <2>1, <2>9, <4>2, NextIsClear
        <4> QED
          BY <2>9, <4>3
      <3>3. \A i, j \in Nat : i # j /\ ~(i < j) => j < i
        BY SMT
      <3> QED
        BY <1>2, <2>6, <3>1, <3>2, <3>3
    <2>10. w[p] \in Seq(1..MaxCasts) /\ \A q \in Pages : waiting'[q] = IF q = p THEN Append(w[p], c) ELSE w[q]
      BY <2>2 DEF Queues
    <2>11. /\ \A a, b : Ahead(w[p], a, b) => Ahead(Append(w[p], c), a, b)
           /\ \A a : Has(w[p], a) => Ahead(Append(w[p], c), a, c)
      <3>1. PICK s \in Seq(1..MaxCasts) : s = w[p]
        BY <2>10
      <3> QED
        BY <3>1, AheadJoined
    <2>12. /\ \A q \in Pages : \A a, b : Ahead(w[q], a, b) => Ahead(waiting'[q], a, b)
           /\ \A a : Has(w[p], a) => Ahead(waiting'[p], a, c)
      <3>1. waiting'[p] = Append(w[p], c) /\ \A q \in Pages : q # p => waiting'[q] = w[q]
        BY <2>5, <2>10
      <3> QED
        BY <2>11, <3>1
    <2>13. Way'
      BY <1>4, <2>5, <2>7, <2>8 DEF Way
    <2>14. Apart'
      BY <1>0, <2>5, <2>7, <2>8 DEF Apart, Newer
    <2>15. InTurn'
      <3> SUFFICES ASSUME NEW a \in Casts', NEW b \in Casts', casts'[a].m = casts'[b].m,
                          casts'[a].v < casts'[b].v
                   PROVE  /\ casts'[a].at \in Firm =>
                                \/ casts'[a].at \in Visits(casts'[b], T)
                                \/ /\ casts'[b].at = casts'[a].at
                                   /\ Ahead(waiting'[casts'[a].at], a, b)
                          /\ Visits(casts'[a], T) \cap Firm \subseteq Visits(casts'[b], T)
        BY DEF InTurn, Older
      <3>1. CASE a = c /\ b = c
        <4>1. ~(x.v < x.v)
          BY <2>6, SMT
        <4> QED
          BY <2>5, <2>7, <3>1, <4>1
      <3>2. CASE a = c /\ b # c
        <4>1. b \in Casts \ {c} /\ casts'[a] = y /\ casts'[b] = casts[b]
          BY <2>7, <2>8, <3>2
        <4>2. Visits(x, T) \cap Firm \subseteq Visits(casts[b], T)
          BY <2>5, <4>1 DEF Newer
        <4> QED
          BY <2>5, <4>1, <4>2
      <3>3. CASE a # c /\ b = c
        <4>1. a \in Casts \ {c} /\ casts'[b] = y /\ casts'[a] = casts[a]
          BY <2>7, <2>8, <3>3
        <4>2. /\ casts[a].at \in Firm => casts[a].at \in Visits(x, T)
              /\ Visits(casts[a], T) \cap Firm \subseteq Visits(x, T)
              /\ casts[a].m = x.m /\ casts[a].v < x.v
          BY <2>5, <4>1 DEF Newer
        <4>3. ~(p \in Firm /\ p \in Visits(casts[a], T))
          <5>1. ~(casts[a].v < x.v /\ x.v < casts[a].v)
            BY <1>2, <2>6, <4>1, SMT
          <5> QED
            BY <2>9, <4>1, <4>2, <5>1
        <4>4. casts[a].at = p => Ahead(waiting'[p], a, b)
          BY <1>2, <2>12, <3>3, <4>1
        <4> QED
          BY <2>5, <4>1, <4>2, <4>3, <4>4
      <3>4. CASE a # c /\ b # c
        <4>1. a \in Casts \ {c} /\ b \in Casts \ {c} /\ casts'[b] = casts[b] /\ casts'[a] = casts[a]
          BY <2>7, <2>8, <3>4
        <4>2. Older(a, b)
          BY <4>1 DEF Older
        <4> QED
          BY <1>2, <1>5, <2>12, <4>1, <4>2
      <3> QED BY <3>1, <3>2, <3>3, <3>4
    <2>16. Fresh'
      <3> SUFFICES ASSUME NEW q \in Firm
                   PROVE  /\ \A i, j \in DOMAIN inbox'[q] :
                                i < j /\ inbox'[q][i].m = inbox'[q][j].m => inbox'[q][i].v < inbox'[q][j].v
                          /\ \A i \in DOMAIN inbox'[q] : live[q][inbox'[q][i].m] < inbox'[q][i].v
                          /\ \A d \in Casts' :
                                q \in Visits(casts'[d], T) =>
                                    /\ live[q][casts'[d].m] < casts'[d].v
                                    /\ \A i \in DOMAIN inbox'[q] :
                                          inbox'[q][i].m = casts'[d].m => inbox'[q][i].v < casts'[d].v
                          /\ q \notin open =>
                                inbox'[q] = <<>> /\ \A d \in Casts' : live[q][casts'[d].m] < casts'[d].v
        BY DEF Fresh
      <3>1. q \in Pages
        BY DEF Firm
      <3>2. /\ \A i, j \in DOMAIN inbox[q] :
                  i < j /\ inbox[q][i].m = inbox[q][j].m => inbox[q][i].v < inbox[q][j].v
            /\ \A i \in DOMAIN inbox[q] : live[q][inbox[q][i].m] < inbox[q][i].v
            /\ q \notin open =>
                  inbox[q] = <<>> /\ \A d \in Casts : live[q][casts[d].m] < casts[d].v
        BY <1>0 DEF Fresh
      <3>3. \A d \in Casts \ {c} :
               q \in Visits(casts[d], T) =>
                  /\ live[q][casts[d].m] < casts[d].v
                  /\ \A i \in DOMAIN inbox[q] : inbox[q][i].m = casts[d].m => inbox[q][i].v < casts[d].v
        BY <1>0, <1>3 DEF Fresh
      <3>4. /\ q \in Visits(x, T) =>
                  /\ live[q][x.m] < x.v
                  /\ \A i \in DOMAIN inbox[q] : inbox[q][i].m = x.m => inbox[q][i].v < x.v
            /\ q \notin open => live[q][x.m] < x.v
        BY DEF FreshFor
      <3>5. \A d \in Casts' : live[q][casts'[d].m] < casts'[d].v \/ q \in open
        BY <2>5, <2>7, <2>8, <3>2, <3>4
      <3>6. CASE q = p /\ q \in open
        <4>1. PICK s : s = inbox[q]
          OBVIOUS
        <4>2. s \in Seq(Frames)
          BY <3>1, <4>1, FramesAreTyped
        <4>3. inbox'[q] = Append(s, f)
          BY <2>4, <3>1, <3>6, <4>1
        <4>4. PICK t : t = Append(s, f)
          OBVIOUS
        <4>5. PICK n : n = Len(s)
          OBVIOUS
        <4>6. /\ n \in Nat /\ DOMAIN s = 1..n /\ DOMAIN t = 1..(n + 1)
              /\ t[n + 1] = f /\ \A i \in 1..n : t[i] = s[i]
          BY <4>2, <4>4, <4>5, SMT
        <4>7. \A i \in 1..(n + 1) : i = n + 1 \/ i \in 1..n
          BY <4>6, SMT
        <4>8. \A i \in 1..n : ~(n + 1 < i) /\ ~(n + 1 < n + 1)
          BY <4>6, SMT
        <4>9. f.m = x.m /\ f.v = x.v
          BY <2>3
        <4>10. \A i \in 1..n : s[i].m = x.m => s[i].v < x.v
          BY <2>5, <3>4, <3>6, <4>1, <4>6
        <4>11. \A i, j \in DOMAIN t : i < j /\ t[i].m = t[j].m => t[i].v < t[j].v
          <5> SUFFICES ASSUME NEW i \in 1..(n + 1), NEW j \in 1..(n + 1), i < j, t[i].m = t[j].m
                       PROVE  t[i].v < t[j].v
            BY <4>6
          <5>1. i \in 1..n
            BY <4>6, <4>7, <4>8
          <5>2. CASE j \in 1..n
            BY <3>2, <4>1, <4>6, <5>1, <5>2
          <5>3. CASE j = n + 1
            BY <4>6, <4>9, <4>10, <5>1, <5>3
          <5> QED BY <4>7, <5>2, <5>3
        <4>12. \A i \in DOMAIN t : live[q][t[i].m] < t[i].v
          <5> SUFFICES ASSUME NEW i \in 1..(n + 1) PROVE live[q][t[i].m] < t[i].v
            BY <4>6
          <5>1. CASE i \in 1..n
            BY <3>2, <4>1, <4>6, <5>1
          <5>2. CASE i = n + 1
            BY <2>5, <3>4, <3>6, <4>6, <4>9, <5>2
          <5> QED BY <4>7, <5>1, <5>2
        <4>13. ASSUME NEW d \in Casts', q \in Visits(casts'[d], T)
               PROVE  /\ live[q][casts'[d].m] < casts'[d].v
                      /\ \A i \in DOMAIN t : t[i].m = casts'[d].m => t[i].v < casts'[d].v
          <5>1. d \in Casts \ {c} /\ casts'[d] = casts[d]
            BY <2>5, <2>7, <2>8, <3>6, <4>13
          <5>2. casts[d].m = x.m => x.v < casts[d].v
            BY <2>9, <3>6, <4>13, <5>1
          <5>3. ASSUME NEW i \in 1..(n + 1), t[i].m = casts[d].m PROVE t[i].v < casts[d].v
            <6>1. CASE i \in 1..n
              BY <3>3, <4>1, <4>6, <4>13, <5>1, <5>3, <6>1
            <6>2. CASE i = n + 1
              BY <4>6, <4>9, <5>2, <5>3, <6>2
            <6> QED BY <4>7, <6>1, <6>2
          <5> QED
            BY <3>3, <4>6, <4>13, <5>1, <5>3
        <4> QED
          BY <3>6, <4>3, <4>4, <4>11, <4>12, <4>13
      <3>7. CASE ~(q = p /\ q \in open)
        <4>1. inbox'[q] = inbox[q]
          BY <2>4, <3>1, <3>7
        <4>2. ASSUME NEW d \in Casts', q \in Visits(casts'[d], T)
              PROVE  /\ live[q][casts'[d].m] < casts'[d].v
                     /\ \A i \in DOMAIN inbox[q] : inbox[q][i].m = casts'[d].m => inbox[q][i].v < casts'[d].v
          <5>1. CASE d = c
            BY <2>5, <2>7, <3>4, <4>2, <5>1
          <5>2. CASE d \in Casts \ {c}
            BY <2>7, <3>3, <4>2, <5>2
          <5> QED BY <2>8, <5>1, <5>2
        <4> QED
          BY <3>2, <3>5, <4>1, <4>2
      <3> QED BY <3>6, <3>7
    <2> QED
      BY <1>1, <2>13, <2>14, <2>15, <2>16 DEF ForwardInv
  <1> QED
    BY <1>6, <1>7, <1>8

\* Broadcast c goes on as x, with what is to be known of it; the queues are w.
GoesOn(c, x, T, w) ==
    /\ subs' = T /\ Firm \cap T = Firm \cap subs /\ UNCHANGED <<open, live>>
    /\ Listed(x, T) /\ Newer(c, x, T) /\ FreshFor(x, T)
    /\ GoOn(c, x, T, w) /\ Queues(w)
    /\ \A d \in 1..MaxCasts, p \in Pages : Has(w[p], d) <=> d # c /\ p = casts[d].at
    /\ \A p \in Pages : \A a, b : a # c /\ b # c /\ Ahead(waiting[p], a, b) => Ahead(w[p], a, b)

\* A new broadcast is newer than anything on its way or shown, and starts behind all.
LEMMA EmitGoesOn ==
    ASSUME HubTypes, PushInv, ForwardInv, NEW m \in Ids, Emit(m)
    PROVE  \E c \in 1..MaxCasts, x \in Going, T \in SUBSET Pages : \E w :
               /\ casts[c] = NoCast /\ x.m = m /\ x.v = object'[m] /\ T = subs
               /\ \A p : p \in Visits(x, T) <=> p \in T /\ TopicOf[p] \in {m, Every}
               /\ GoesOn(c, x, T, w)
  <1>1. Save(m) /\ Broadcast(m) /\ UNCHANGED <<subs, open, live>>
    BY DEF Emit
  <1>2. object[m] \in Nat /\ object'[m] = object[m] + 1
    BY <1>1, StoreAssumption, SMT DEF Save, HubTypes, StoreInv, StoreTypeOK
  <1>3. PICK v \in Nat : v = object'[m] /\ \A u \in Nat : u <= object[m] => u < v
    BY <1>2, SMT
  <1>4. object'[m] \in 1..MaxVersion
    BY <1>1, StoreAssumption, SMT DEF Save, HubTypes, Bounded
  <1>5. PICK x \in Going :
           x = [m |-> m, v |-> object'[m], left |-> On(m, subs), wide |-> FALSE, at |-> NoPage]
    BY <1>4 DEF Going, On, HubTypes
  <1>6. x.m = m /\ x.v = v
    BY <1>3, <1>5
  <1>7. PICK T \in SUBSET Pages : T = subs
    BY DEF HubTypes
  <1>8. PICK w : w = waiting
    OBVIOUS
  <1>9. PICK c \in 1..MaxCasts : casts[c] = NoCast /\ GoOn(c, x, T, w)
    BY <1>1, <1>5, <1>7, <1>8 DEF Broadcast, Idle
  <1>10. Listed(x, T)
    BY <1>5, <1>7 DEF Listed, Stage, On
  <1>11. \A p : p \in Visits(x, T) <=> p \in T /\ TopicOf[p] \in {m, Every}
    BY <1>5, <1>7 DEF Visits, On
  <1>12. \A f \in Safe : f.m = m => f.v <= object[m]
    BY DEF Safe
  <1>13. Newer(c, x, T)
    <2> SUFFICES ASSUME NEW d \in Casts, casts[d].m = m
                 PROVE  /\ casts[d].v < v
                        /\ casts[d].at \in Firm => casts[d].at \in Visits(x, T)
                        /\ Visits(casts[d], T) \cap Firm \subseteq Visits(x, T)
      <3>1. \A u \in Nat : u < v => u # v /\ ~(v < u)
        BY SMT
      <3> QED
        BY <1>6, <3>1, CastsAreTyped DEF Newer
    <2>1. casts[d].v < v
      <3>1. FrameOf(casts[d]) \in Safe
        BY DEF PushInv, CastsIn, Casts
      <3>2. casts[d].v <= object[m]
        BY <1>12, <3>1 DEF FrameOf
      <3> QED
        BY <1>3, <3>2, CastsAreTyped
    <2>2. Listed(casts[d], T) /\ Stands(casts[d], T)
      BY <1>7 DEF ForwardInv, Way
    <2>3. casts[d].at \in Firm => casts[d].at \in Visits(x, T)
      BY <1>11, <2>2 DEF Stands, Stage, On
    <2>4. Visits(casts[d], T) \cap Firm \subseteq Visits(x, T)
      BY <1>11, <2>2 DEF Visits, Listed, Stage, On
    <2> QED
      BY <2>1, <2>3, <2>4
  <1>14. FreshFor(x, T)
    <2> SUFFICES ASSUME NEW p \in Firm
                 PROVE  /\ live[p][m] < v
                        /\ \A i \in DOMAIN inbox[p] : inbox[p][i].m = m => inbox[p][i].v < v
      BY <1>6 DEF FreshFor
    <2>1. p \in Pages
      BY DEF Firm
    <2>2. live[p][m] < v
      <3>1. live[p][m] \in Nat /\ [m |-> m, v |-> live[p][m]] \in Safe
        BY <2>1 DEF PushInv, LiveIn
      <3>2. live[p][m] <= object[m]
        BY <1>12, <3>1
      <3> QED
        BY <1>3, <3>1, <3>2
    <2>3. ASSUME NEW i \in DOMAIN inbox[p], inbox[p][i].m = m PROVE inbox[p][i].v < v
      <3>1. inbox[p][i] \in Safe
        <4>1. inbox[p] \in Seq(Safe)
          BY <2>1 DEF PushInv, InboxIn
        <4> QED
          BY <4>1, SMT
      <3>2. inbox[p][i].v <= object[m]
        BY <1>12, <2>3, <3>1
      <3> QED
        BY <1>3, <2>1, <3>2, FramesAreTyped
    <2> QED
      BY <2>2, <2>3
  <1>15. Queues(w)
    BY <1>8 DEF HubTypes, Enlisted
  <1>16. \A d \in 1..MaxCasts, p \in Pages : Has(w[p], d) <=> d # c /\ p = casts[d].at
    BY <1>8, <1>9, NowhereYet DEF HubTypes, Enlisted
  <1>17. subs' = T /\ Firm \cap T = Firm \cap subs
    BY <1>1, <1>7
  <1>18. \A p \in Pages : \A a, b : a # c /\ b # c /\ Ahead(waiting[p], a, b) => Ahead(w[p], a, b)
    BY <1>8
  <1>19. GoesOn(c, x, T, w)
    BY <1>1, <1>9, <1>10, <1>13, <1>14, <1>15, <1>16, <1>17, <1>18 DEF GoesOn
  <1> WITNESS c \in 1..MaxCasts, x \in Going, T \in SUBSET Pages
  <1> WITNESS w
  <1> QED
    BY <1>3, <1>6, <1>7, <1>9, <1>11, <1>19

\* A broadcast that resumes was the first at its socket, or the socket is one that may fail.
LEMMA ResumeGoesOn ==
    ASSUME HubTypes, ForwardInv, NEW c \in 1..MaxCasts, Resume(c)
    PROVE  \E x \in Going, T \in SUBSET Pages : \E w :
               x = casts[c] /\ c \in Casts /\ GoesOn(c, x, T, w)
  <1>1. PICK p \in Pages, T \in SUBSET Pages : \E w :
              /\ p = casts[c].at /\ casts[c] \in Cast /\ casts[c] \in Going
              /\ T = (IF p \in open THEN subs ELSE subs \ {p}) /\ subs' = T
              /\ GoOn(c, casts[c], T, w)
              /\ waiting[p] \in Seq(1..MaxCasts) /\ Once(waiting[p]) /\ Has(waiting[p], c)
              /\ \A q \in Pages : w[q] = IF q = p THEN Without(c, waiting[p]) ELSE waiting[q]
              /\ Queues(w)
              /\ \A d \in 1..MaxCasts, q \in Pages : Has(w[q], d) <=> d # c /\ q = casts[d].at
    BY Resumed
  <1>2. PICK x \in Going : x = casts[c]
    BY <1>1
  <1>3. PICK w :
              /\ p = x.at /\ x \in Cast
              /\ T = (IF p \in open THEN subs ELSE subs \ {p}) /\ subs' = T
              /\ GoOn(c, x, T, w)
              /\ waiting[p] \in Seq(1..MaxCasts) /\ Once(waiting[p]) /\ Has(waiting[p], c)
              /\ \A q \in Pages : w[q] = IF q = p THEN Without(c, waiting[p]) ELSE waiting[q]
              /\ Queues(w)
              /\ \A d \in 1..MaxCasts, q \in Pages : Has(w[q], d) <=> d # c /\ q = casts[d].at
    BY <1>1, <1>2
  <1>4. FirmStay /\ Way /\ Apart /\ InTurn /\ Fresh /\ UNCHANGED <<open, live>>
    BY DEF ForwardInv, Resume
  <1>5. Firm \cap T = Firm \cap subs
    BY <1>3, <1>4 DEF FirmStay
  <1>6. c \in Casts
    BY <1>1, <1>2, <1>3, NowhereYet DEF Casts
  <1>7. Listed(x, T) /\ Stands(x, T)
    BY <1>2, <1>4, <1>5, <1>6 DEF Way, Listed, Stands
  <1>8. \A d \in Casts, q \in Firm : q \in Visits(casts[d], T) <=> q \in Visits(casts[d], subs)
    BY <1>5, SameVisits
  <1>9. \A q \in Firm : q \in Visits(x, T) <=> q \in Visits(x, subs)
    BY <1>2, <1>6, <1>8
  <1>10. p \in Firm => \A d : ~Ahead(waiting[p], d, c)
    <2>1. SUFFICES ASSUME p \in Firm PROVE \A d : ~Ahead(waiting[p], d, c)
      OBVIOUS
    <2>2. p \in open
      BY <1>3, <1>4, <1>5, <1>7, <2>1 DEF Stands, FirmStay
    <2>3. Head(waiting[p]) = c
      BY <1>2, <1>3, <2>2 DEF Resume
    <2>4. waiting[p] # <<>>
      BY <1>3, SMT DEF Has
    <2>5. PICK s \in Seq(1..MaxCasts) : s = waiting[p]
      BY <1>3
    <2> QED
      BY <1>3, <2>3, <2>4, <2>5, HeadIsFirst
  <1>11. Newer(c, x, T)
    <2> SUFFICES ASSUME NEW d \in Casts \ {c}, casts[d].m = x.m
                 PROVE  /\ casts[d].v # x.v
                        /\ casts[d].v < x.v =>
                              /\ casts[d].at \in Firm => casts[d].at \in Visits(x, T)
                              /\ Visits(casts[d], T) \cap Firm \subseteq Visits(x, T)
                        /\ x.v < casts[d].v => Visits(x, T) \cap Firm \subseteq Visits(casts[d], T)
      BY DEF Newer
    <2>1. casts[d].v # x.v
      BY <1>2, <1>4, <1>6 DEF Apart
    <2>2. ASSUME casts[d].v < x.v
          PROVE  /\ casts[d].at \in Firm => casts[d].at \in Visits(x, T)
                 /\ Visits(casts[d], T) \cap Firm \subseteq Visits(x, T)
      <3>1. Older(d, c)
        BY <1>2, <2>2 DEF Older
      <3>2. /\ casts[d].at \in Firm =>
                  \/ casts[d].at \in Visits(x, subs)
                  \/ p = casts[d].at /\ Ahead(waiting[p], d, c)
            /\ Visits(casts[d], subs) \cap Firm \subseteq Visits(x, subs)
        BY <1>2, <1>3, <1>4, <1>6, <3>1 DEF InTurn
      <3> QED
        BY <1>8, <1>9, <1>10, <3>2
    <2>3. ASSUME x.v < casts[d].v PROVE Visits(x, T) \cap Firm \subseteq Visits(casts[d], T)
      <3>1. Older(c, d)
        BY <1>2, <2>3 DEF Older
      <3>2. Visits(x, subs) \cap Firm \subseteq Visits(casts[d], subs)
        BY <1>2, <1>4, <1>6, <3>1 DEF InTurn
      <3> QED
        BY <1>8, <1>9, <3>2
    <2> QED
      BY <2>1, <2>2, <2>3
  <1>12. FreshFor(x, T)
    <2> SUFFICES ASSUME NEW q \in Firm
                 PROVE  /\ q \in Visits(x, T) =>
                              /\ live[q][x.m] < x.v
                              /\ \A i \in DOMAIN inbox[q] : inbox[q][i].m = x.m => inbox[q][i].v < x.v
                        /\ q \notin open => live[q][x.m] < x.v
      BY DEF FreshFor
    <2> QED
      BY <1>2, <1>4, <1>6, <1>9 DEF Fresh
  <1>13. ASSUME NEW q \in Pages, NEW a, NEW b, a # c, b # c, Ahead(waiting[q], a, b)
         PROVE  Ahead(w[q], a, b)
    <2>1. CASE q = p
      <3>1. PICK s \in Seq(1..MaxCasts) : s = waiting[p]
        BY <1>3
      <3>2. Ahead(Without(c, s), a, b)
        BY <1>3, <1>13, <2>1, <3>1, AheadLeft
      <3> QED
        BY <1>3, <2>1, <3>1, <3>2
    <2>2. CASE q # p
      BY <1>3, <1>13, <2>2
    <2> QED BY <2>1, <2>2
  <1>14. GoesOn(c, x, T, w)
    BY <1>3, <1>4, <1>5, <1>7, <1>11, <1>12, <1>13 DEF GoesOn
  <1> WITNESS x \in Going, T \in SUBSET Pages
  <1> WITNESS w
  <1> QED
    BY <1>2, <1>6, <1>14

LEMMA SentForward ==
    ASSUME DroppingLast, HubTypes, PushInv, ForwardInv,
           (\E m \in Ids : Emit(m)) \/ (\E c \in 1..MaxCasts : Resume(c))
    PROVE  ForwardInv'
  <1>1. PICK c \in 1..MaxCasts, x \in Going, T \in SUBSET Pages : \E w : GoesOn(c, x, T, w)
    BY EmitGoesOn, ResumeGoesOn
  <1>2. PICK w : GoesOn(c, x, T, w)
    BY <1>1
  <1> QED
    BY <1>2, GoOnForward DEF GoesOn

\* onmessage: the first frame under way is newer than what is shown, older than the rest.
LEMMA ReceiveForward ==
    ASSUME HubTypes, ForwardInv, NEW p \in Pages, Receive(p)
    PROVE  /\ ForwardInv'
           /\ \A q \in Firm, m \in Ids : live'[q][m] >= live[q][m]
  <1>1. FirmStay /\ Way /\ Apart /\ InTurn /\ Fresh /\ UNCHANGED <<casts, waiting, subs, open>>
    BY DEF ForwardInv, Receive, hubVars
  <1>2. PICK s \in Seq(Frames) : s = inbox[p]
    BY FramesAreTyped
  <1>3. s # <<>>
    BY <1>2 DEF Receive
  <1>4. PICK f : f = s[1]
    OBVIOUS
  <1>5. /\ 1 \in DOMAIN s /\ Head(s) = f /\ f.m \in Ids
        /\ \A i \in DOMAIN Tail(s) : i + 1 \in DOMAIN s /\ 1 < i + 1 /\ Tail(s)[i] = s[i + 1]
        /\ \A i, j \in DOMAIN Tail(s) : i < j => i + 1 < j + 1
    <2>1. 1 \in DOMAIN s /\ Head(s) = f
      BY <1>3, <1>4, SMT
    <2>2. /\ \A i \in DOMAIN Tail(s) : i + 1 \in DOMAIN s /\ 1 < i + 1 /\ Tail(s)[i] = s[i + 1]
          /\ \A i, j \in DOMAIN Tail(s) : i < j => i + 1 < j + 1
      BY <1>3, SMT
    <2>3. f.m \in Ids
      BY <1>2, <1>4, <2>1, FramesAreTyped
    <2> QED
      BY <2>1, <2>2, <2>3
  <1>6. /\ \A q \in Pages : inbox'[q] = IF q = p THEN Tail(s) ELSE inbox[q]
        /\ \A q \in Pages, m \in Ids : live'[q][m] = IF q = p /\ m = f.m THEN f.v ELSE live[q][m]
    BY <1>2, <1>5 DEF Receive, HubTypes, InboxTypes, PageTypes
  <1>7. ASSUME p \in Firm
        PROVE  /\ \A i, j \in DOMAIN s : i < j /\ s[i].m = s[j].m => s[i].v < s[j].v
               /\ \A i \in DOMAIN s : live[p][s[i].m] < s[i].v
               /\ \A c \in Casts :
                     p \in Visits(casts[c], subs) =>
                         /\ live[p][casts[c].m] < casts[c].v
                         /\ \A i \in DOMAIN s : s[i].m = casts[c].m => s[i].v < casts[c].v
               /\ p \in open
    BY <1>1, <1>2, <1>3, <1>7 DEF Fresh
  <1>8. \A i \in DOMAIN s : s[i].m \in Ids
    BY <1>2, FramesAreTyped
  <1>9. ASSUME p \in Firm
        PROVE  /\ \A i, j \in DOMAIN Tail(s) :
                     i < j /\ Tail(s)[i].m = Tail(s)[j].m => Tail(s)[i].v < Tail(s)[j].v
               /\ \A i \in DOMAIN Tail(s) : live'[p][Tail(s)[i].m] < Tail(s)[i].v
               /\ \A c \in Casts :
                     p \in Visits(casts[c], subs) =>
                         /\ live'[p][casts[c].m] < casts[c].v
                         /\ \A i \in DOMAIN Tail(s) : Tail(s)[i].m = casts[c].m => Tail(s)[i].v < casts[c].v
    <2>1. \A i, j \in DOMAIN Tail(s) :
             i < j /\ Tail(s)[i].m = Tail(s)[j].m => Tail(s)[i].v < Tail(s)[j].v
      BY <1>5, <1>7, <1>9
    <2>2. ASSUME NEW i \in DOMAIN Tail(s) PROVE live'[p][Tail(s)[i].m] < Tail(s)[i].v
      <3>1. i + 1 \in DOMAIN s /\ 1 < i + 1 /\ Tail(s)[i] = s[i + 1]
        BY <1>5
      <3>2. CASE s[i + 1].m = f.m
        BY <1>4, <1>5, <1>6, <1>7, <1>9, <3>1, <3>2
      <3>3. CASE s[i + 1].m # f.m
        BY <1>6, <1>7, <1>8, <1>9, <3>1, <3>3
      <3> QED BY <3>2, <3>3
    <2>3. ASSUME NEW c \in Casts, p \in Visits(casts[c], subs)
          PROVE  live'[p][casts[c].m] < casts[c].v
      <3>1. casts[c].m \in Ids
        BY CastsAreTyped
      <3>2. CASE casts[c].m = f.m
        BY <1>4, <1>5, <1>6, <1>7, <1>9, <2>3, <3>2
      <3>3. CASE casts[c].m # f.m
        BY <1>6, <1>7, <1>9, <2>3, <3>1, <3>3
      <3> QED BY <3>2, <3>3
    <2>4. ASSUME NEW c \in Casts, p \in Visits(casts[c], subs), NEW i \in DOMAIN Tail(s),
                 Tail(s)[i].m = casts[c].m
          PROVE  Tail(s)[i].v < casts[c].v
      BY <1>5, <1>7, <1>9, <2>4
    <2> QED
      BY <2>1, <2>2, <2>3, <2>4
  <1>10. Casts' = Casts
    BY <1>1 DEF Casts
  <1>11. Fresh'
    <2> SUFFICES ASSUME NEW q \in Firm
                 PROVE  /\ \A i, j \in DOMAIN inbox'[q] :
                              i < j /\ inbox'[q][i].m = inbox'[q][j].m => inbox'[q][i].v < inbox'[q][j].v
                        /\ \A i \in DOMAIN inbox'[q] : live'[q][inbox'[q][i].m] < inbox'[q][i].v
                        /\ \A c \in Casts :
                              q \in Visits(casts[c], subs) =>
                                  /\ live'[q][casts[c].m] < casts[c].v
                                  /\ \A i \in DOMAIN inbox'[q] :
                                        inbox'[q][i].m = casts[c].m => inbox'[q][i].v < casts[c].v
                        /\ q \notin open =>
                              inbox'[q] = <<>> /\ \A c \in Casts : live'[q][casts[c].m] < casts[c].v
      BY <1>1, <1>10 DEF Fresh
    <2>1. CASE q = p
      <3>1. p \in Firm /\ p \in Pages
        BY <2>1 DEF Firm
      <3>2. inbox'[p] = Tail(s) /\ p \in open
        BY <1>6, <1>7, <3>1
      <3> QED
        BY <1>9, <2>1, <3>1, <3>2
    <2>2. CASE q # p
      <3>1. q \in Pages
        BY DEF Firm
      <3>2. inbox'[q] = inbox[q] /\ \A m \in Ids : live'[q][m] = live[q][m]
        BY <1>6, <2>2, <3>1
      <3>3. \A i \in DOMAIN inbox[q] : inbox[q][i].m \in Ids
        BY <3>1, FramesAreTyped
      <3>4. \A c \in Casts : casts[c].m \in Ids
        BY CastsAreTyped
      <3> QED
        BY <1>1, <3>2, <3>3, <3>4 DEF Fresh
    <2> QED BY <2>1, <2>2
  <1>12. FirmStay' /\ Way' /\ Apart' /\ InTurn'
    BY <1>1, <1>10 DEF FirmStay, Way, Apart, InTurn, Older
  <1>13. ASSUME NEW q \in Firm, NEW m \in Ids PROVE live'[q][m] >= live[q][m]
    <2>1. q \in Pages /\ live[q][m] \in Nat
      BY FramesAreTyped DEF Firm
    <2>2. CASE q = p /\ m = f.m
      <3>1. live'[q][m] = f.v /\ live[q][m] < f.v /\ f.v \in Nat
        BY <1>2, <1>4, <1>5, <1>6, <1>7, <2>1, <2>2, FramesAreTyped
      <3> QED
        BY <2>1, <3>1
    <2>3. CASE ~(q = p /\ m = f.m)
      <3>1. live'[q][m] = live[q][m]
        BY <1>6, <2>1, <2>3
      <3> QED
        BY <2>1, <3>1
    <2> QED BY <2>2, <2>3
  <1> QED
    BY <1>11, <1>12, <1>13 DEF ForwardInv

\* The steps that concern no page whose connection stays.
LEMMA QuietForward ==
    ASSUME ForwardInv, UNCHANGED <<casts, waiting, live>>,
           \A p \in Firm : inbox'[p] = inbox[p],
           Firm \cap subs' = Firm \cap subs, Firm \cap open' = Firm \cap open
    PROVE  ForwardInv'
  <1>1. Casts' = Casts
    BY DEF Casts
  <1>2. \A c \in Casts, p \in Firm : p \in Visits(casts[c], subs') <=> p \in Visits(casts[c], subs)
    BY SameVisits
  <1>3. FirmStay /\ Way /\ Apart /\ InTurn /\ Fresh
    BY DEF ForwardInv
  <1>4. FirmStay'
    BY <1>3 DEF FirmStay
  <1>5. Way'
    BY <1>1, <1>3 DEF Way, Listed, Stands
  <1>6. Apart'
    BY <1>1, <1>3 DEF Apart
  <1>7. InTurn'
    BY <1>1, <1>2, <1>3 DEF InTurn, Older
  <1>8. Fresh'
    <2>1. \A p \in Firm : p \in open' <=> p \in open
      OBVIOUS
    <2> QED
      BY <1>1, <1>2, <1>3, <2>1 DEF Fresh
  <1> QED
    BY <1>4, <1>5, <1>6, <1>7, <1>8 DEF ForwardInv

\* A page that connects is on the way of the broadcasts that have yet to take up "*".
LEMMA ConnectForward ==
    ASSUME DroppingLast, HubTypes, ForwardInv, NEW p \in Firm, Connect(p)
    PROVE  ForwardInv'
  <1>1. /\ FirmStay /\ Way /\ Apart /\ InTurn /\ Fresh /\ UNCHANGED <<casts, waiting, live, inbox>>
        /\ p \notin open /\ open' = open \cup {p} /\ subs' = subs \cup {p}
    BY DEF ForwardInv, Connect
  <1>2. Casts' = Casts /\ p \in Pages
    BY <1>1 DEF Casts, Firm
  <1>3. FirmStay'
    BY <1>1 DEF FirmStay
  <1>4. Way'
    BY <1>1, <1>2 DEF Way, Listed, Stands
  <1>5. Apart'
    BY <1>1, <1>2 DEF Apart
  <1>6. \A c \in Casts : \A q : q \in Visits(casts[c], subs') <=>
               \/ q \in Visits(casts[c], subs)
               \/ q = p /\ ~casts[c].wide /\ TopicOf[p] = Every
    BY <1>1 DEF Visits, On
  <1>7. InTurn'
    <2> SUFFICES ASSUME NEW c \in Casts, NEW d \in Casts, Older(c, d)
                 PROVE  /\ casts[c].at \in Firm =>
                              \/ casts[c].at \in Visits(casts[d], subs')
                              \/ casts[d].at = casts[c].at /\ Ahead(waiting[casts[c].at], c, d)
                        /\ Visits(casts[c], subs') \cap Firm \subseteq Visits(casts[d], subs')
      BY <1>1, <1>2 DEF InTurn, Older
    <2>1. /\ casts[c].at \in Firm =>
                \/ casts[c].at \in Visits(casts[d], subs)
                \/ casts[d].at = casts[c].at /\ Ahead(waiting[casts[c].at], c, d)
          /\ Visits(casts[c], subs) \cap Firm \subseteq Visits(casts[d], subs)
      BY <1>1 DEF InTurn
    <2>2. ASSUME ~casts[c].wide, TopicOf[p] = Every PROVE ~casts[d].wide
      <3>1. casts[c].m \in Ids /\ casts[c].at \in Pages
        BY CastsAreTyped
      <3>2. TopicOf[casts[c].at] = casts[c].m
        BY <1>1, <2>2 DEF Way, Stands, Stage, On
      <3>3. casts[c].at \in Firm
        BY <2>2, <3>1, <3>2, PageNumbers DEF DroppingLast, Firm
      <3>4. casts[d].wide => TopicOf[casts[d].at] = Every /\ \A q \in casts[d].left : TopicOf[q] = Every
        BY <1>1 DEF Way, Listed, Stands, Stage, On
      <3> QED
        BY <2>1, <3>1, <3>2, <3>3, <3>4, PageNumbers DEF Visits
    <2> QED
      BY <1>6, <2>1, <2>2
  <1>8. Fresh'
    <2> SUFFICES ASSUME NEW q \in Firm
                 PROVE  /\ \A i, j \in DOMAIN inbox[q] :
                              i < j /\ inbox[q][i].m = inbox[q][j].m => inbox[q][i].v < inbox[q][j].v
                        /\ \A i \in DOMAIN inbox[q] : live[q][inbox[q][i].m] < inbox[q][i].v
                        /\ \A c \in Casts :
                              q \in Visits(casts[c], subs') =>
                                  /\ live[q][casts[c].m] < casts[c].v
                                  /\ \A i \in DOMAIN inbox[q] :
                                        inbox[q][i].m = casts[c].m => inbox[q][i].v < casts[c].v
                        /\ q \notin open' =>
                              inbox[q] = <<>> /\ \A c \in Casts : live[q][casts[c].m] < casts[c].v
      BY <1>1, <1>2 DEF Fresh
    <2>1. CASE q # p
      <3>1. q \notin open' => q \notin open
        BY <1>1, <2>1
      <3>2. \A c \in Casts : q \in Visits(casts[c], subs') => q \in Visits(casts[c], subs)
        BY <1>6, <2>1
      <3> QED
        BY <1>1, <3>1, <3>2 DEF Fresh
    <2>2. CASE q = p
      <3>1. inbox[q] = <<>> /\ \A c \in Casts : live[q][casts[c].m] < casts[c].v
        BY <1>1, <2>2 DEF Fresh
      <3>2. DOMAIN inbox[q] = {}
        BY <3>1, SMT
      <3> QED
        BY <1>1, <2>2, <3>1, <3>2
    <2> QED BY <2>1, <2>2
  <1> QED
    BY <1>3, <1>4, <1>5, <1>7, <1>8 DEF ForwardInv

LEMMA KillForward == ASSUME ForwardInv, Kill PROVE ForwardInv'
  <1>1. Casts' = {} /\ subs' = {} /\ open' = {}
    BY DEF Kill, Casts
  <1>2. ASSUME NEW p \in Firm PROVE inbox'[p] = <<>> /\ DOMAIN inbox'[p] = {}
    <2>1. inbox'[p] = <<>>
      BY DEF Kill, Firm
    <2> QED
      BY <2>1, SMT
  <1>3. Fresh'
    BY <1>1, <1>2 DEF Fresh
  <1> QED
    BY <1>1, <1>3 DEF ForwardInv, FirmStay, Way, Apart, InTurn

LEMMA ForwardInit == ASSUME Init PROVE ForwardInv
  <1>1. Casts = {} /\ subs = {} /\ open = {}
    BY DEF Init, Casts
  <1>2. ASSUME NEW p \in Firm PROVE inbox[p] = <<>> /\ DOMAIN inbox[p] = {}
    <2>1. inbox[p] = <<>>
      BY DEF Init, Firm
    <2> QED
      BY <2>1, SMT
  <1>3. Fresh
    BY <1>1, <1>2 DEF Fresh
  <1> QED
    BY <1>1, <1>3 DEF ForwardInv, FirmStay, Way, Apart, InTurn

LEMMA ForwardStep ==
    ASSUME DroppingLast, HubTypes, PushInv, ForwardInv, [Next]_vars
    PROVE  ForwardInv'
  <1>1. ASSUME NEW m \in Ids, Emit(m) PROVE ForwardInv'
    BY <1>1, SentForward
  <1>2. ASSUME NEW c \in 1..MaxCasts, Resume(c) PROVE ForwardInv'
    BY <1>2, SentForward
  <1>3. ASSUME NEW p \in Pages, Receive(p) PROVE ForwardInv'
    BY <1>3, ReceiveForward
  <1>4. ASSUME NEW m \in Ids, Reconcile(m) \/ Alone(Touch(m) \/ Delete(m)) PROVE ForwardInv'
    BY <1>4, QuietForward DEF Reconcile, Alone, hubVars, pageVars
  <1>5. ASSUME Serve \/ UNCHANGED vars PROVE ForwardInv'
    BY <1>5, QuietForward DEF Serve, vars, hubVars, pageVars
  <1>6. ASSUME NEW p \in Pages, Connect(p) PROVE ForwardInv'
    <2>1. CASE p \in Firm
      BY <1>6, <2>1, ConnectForward
    <2>2. CASE p \notin Firm
      <3>1. Firm \cap subs' = Firm \cap subs /\ Firm \cap open' = Firm \cap open
        BY <1>6, <2>2 DEF Connect
      <3> QED
        BY <1>6, <3>1, QuietForward DEF Connect
    <2> QED BY <2>1, <2>2
  <1>7. ASSUME NEW p \in Pages, Drop(p) PROVE ForwardInv'
    <2>1. p \notin Firm /\ Firm \cap open' = Firm \cap open
      BY <1>7 DEF Drop, Firm
    <2>2. \A q \in Firm : inbox'[q] = inbox[q]
      BY <1>7, <2>1 DEF Drop, Firm, HubTypes, InboxTypes
    <2> QED
      BY <1>7, <2>1, <2>2, QuietForward DEF Drop, hubVars
  <1>8. ASSUME NEW p \in Pages, Unregister(p) PROVE ForwardInv'
    <2>1. Firm \cap subs' = Firm \cap subs
      BY <1>8 DEF Unregister, ForwardInv, FirmStay
    <2> QED
      BY <1>8, <2>1, QuietForward DEF Unregister, pageVars
  <1>9. ASSUME NEW p \in Pages, Answer(p) PROVE ForwardInv'
    BY <1>9, QuietForward DEF Answer, hubVars
  <1> QED
    BY <1>1, <1>2, <1>3, <1>4, <1>5, <1>6, <1>7, <1>8, <1>9, KillForward DEF Next

\* _emit, broadcast, onmessage: what a page that keeps its connection was last sent of
\* a migration never falls, for every number of pages and concurrent broadcasts, and
\* across restarts, if a broadcast comes to the connections that may fail after the
\* others.  (A broadcast may overtake an older one at a socket that has failed.)
THEOREM PagesNeverGoBack == ASSUME DroppingLast PROVE Spec => PagesGoForward
  <1> DEFINE Forward == \A p \in Firm, m \in Ids : live'[p][m] >= live[p][m]
             Inv == HubTypes /\ PushInv /\ ForwardInv
  <1>1. Init => Inv
    BY HubTypesInit, PushInit, ForwardInit
  <1>2. Inv /\ [Next]_vars => Inv'
    BY HubTypesStep, PushStep, ForwardStep
  <1>3. ASSUME Inv, [Next]_vars PROVE Forward \/ UNCHANGED vars
    <2>1. ASSUME UNCHANGED live PROVE Forward
      <3>1. ASSUME NEW p \in Firm, NEW m \in Ids PROVE live'[p][m] >= live[p][m]
        <4>1. live[p][m] \in Nat /\ live'[p][m] = live[p][m]
          BY <1>3, <2>1, FramesAreTyped DEF Firm
        <4> QED
          BY <4>1
      <3> QED
        BY <3>1
    <2>2. ASSUME NEW p \in Pages, Receive(p) PROVE Forward
      BY <1>3, <2>2, ReceiveForward
    <2> HIDE DEF Forward
    <2>3. UNCHANGED live \/ UNCHANGED vars \/ \E p \in Pages : Receive(p)
      BY <1>3 DEF Next, Emit, Reconcile, Alone, Kill, Serve, Resume, Connect, Drop, Unregister,
                  Answer, pageVars
    <2> QED
      BY <2>1, <2>2, <2>3
  <1> HIDE DEF Forward, Inv
  <1>4. Spec => [][Forward]_vars
    BY <1>1, <1>2, <1>3, PTL DEF Spec
  <1> QED
    BY <1>4 DEF PagesGoForward, Forward
-------------------------------------------------------------------------------
(* Pages that nothing is under way to are right *)

\* The frames that page p is still to be sent, or was sent and has not shown.
Due(p) == {FrameOf(casts[c]) : c \in {d \in Casts : p \in Visits(casts[d], subs)}}
Carried(p) == {inbox[p][i] : i \in DOMAIN inbox[p]}
Coming(p) == Due(p) \cup Carried(p)

Heard(p, m) == live[p][m] # 0 \/ \E f \in Coming(p) : f.m = m

\* The pages that have kept their connection.
Kept == (Firm \cap open) \ lost

\* What the file holds was promised, and no frame is ahead of the promise.
PromiseMade == stored \subseteq DOMAIN file /\ \A m \in DOMAIN file : 0 < promised[m] /\ promised[m] <= file[m]
NotAhead ==
    /\ \A c \in Casts : promised[casts[c].m] > 0 => casts[c].v <= promised[casts[c].m]
    /\ \A p \in Firm : \A f \in Carried(p) : promised[f.m] > 0 => f.v <= promised[f.m]

Silent == ~serving => open = {} /\ Casts = {}
Untouched == \A p \in Firm \ (open \cup lost) : p \notin early /\ \A m \in Ids : live[p][m] = 0
OnTopic ==
    \A p \in Firm : /\ \A m \in Ids : live[p][m] # 0 => TopicOf[p] \in {m, Every}
                    /\ \A f \in Carried(p) : TopicOf[p] \in {f.m, Every}

\* While a broadcast has business with a page that stays, the newest one of its record runs.
Busy(x) == x.at \in Firm \/ \E p \in Firm : p \in Visits(x, subs)
NewestRuns ==
    \A c \in Casts :
        promised[casts[c].m] > 0 /\ Busy(casts[c]) =>
            \E d \in Casts : casts[d].m = casts[c].m /\ casts[d].v = promised[casts[c].m]

\* A page that has heard of a record shows its newest saved version, or will be sent it.
Reaches ==
    \A p \in Kept, m \in Ids :
        promised[m] > 0 /\ Heard(p, m) =>
            live[p][m] = promised[m] \/ [m |-> m, v |-> promised[m]] \in Coming(p)

\* What a page was answered is right until it hears more.
Asked ==
    \A p \in early \cap Kept, m \in Ids :
        /\ initial[p][m] <= object[m]
        /\ m \in Watched(p) \cap stored => Heard(p, m) \/ initial[p][m] >= promised[m]

QuietInv ==
    /\ PromiseMade /\ NotAhead /\ Silent /\ Untouched /\ OnTopic
    /\ NewestRuns /\ Reaches /\ Asked

\* A page that was registered when its request was answered and kept its connection
\* shows every record it watches as it is, once the latest change of the record has been
\* emitted and nothing of the record is under way to the page.
QuietPagesAreRight ==
    \A p \in early \cap Kept : \A m \in Watched(p) \cap stored :
        object[m] = promised[m] /\ (\A f \in Coming(p) : f.m # m) => View(p, m) = object[m]

LEMMA KernelIsRight == ASSUME HubTypes, StoreInv, QuietInv PROVE QuietPagesAreRight
  <1> SUFFICES ASSUME NEW p \in early \cap Kept, NEW m \in Watched(p) \cap stored,
                      object[m] = promised[m], \A f \in Coming(p) : f.m # m
               PROVE  View(p, m) = object[m]
    BY DEF QuietPagesAreRight
  <1>1. p \in Pages /\ p \in Firm
    BY DEF Kept, Firm
  <1>2. m \in Ids
    BY DEF StoreInv, StoreTypeOK
  <1>3. promised[m] > 0
    BY SMT DEF QuietInv, PromiseMade, StoreInv, StoreTypeOK
  <1>4. CASE live[p][m] # 0
    <2>1. live[p][m] = promised[m] \/ [m |-> m, v |-> promised[m]] \in Coming(p)
      BY <1>2, <1>3, <1>4 DEF QuietInv, Reaches, Heard
    <2> QED
      BY <1>4, <2>1 DEF View
  <1>5. CASE live[p][m] = 0
    <2>1. ~Heard(p, m)
      BY <1>5 DEF Heard
    <2>2. initial[p][m] <= object[m] /\ initial[p][m] >= promised[m]
      BY <1>2, <2>1 DEF QuietInv, Asked
    <2>3. initial[p][m] \in Nat /\ object[m] \in Nat
      <3>1. \A v \in 0..MaxVersion : v \in Nat
        BY StoreAssumption, SMT
      <3> QED
        BY <1>1, <1>2, <3>1 DEF HubTypes, PageTypes, StoreInv, StoreTypeOK
    <2>4. initial[p][m] = object[m]
      BY <2>2, <2>3, SMT
    <2> QED
      BY <1>5, <2>4 DEF View
  <1> QED BY <1>4, <1>5

\* The promise is made by the store's steps.
LEMMA PromiseStep ==
    ASSUME StoreInv, PromiseMade, [StoreNext]_storeVars
    PROVE  PromiseMade'
  <1>1. CASE UNCHANGED storeVars
    BY <1>1 DEF storeVars, PromiseMade
  <1>2. ASSUME NEW m \in Ids, Touch(m) PROVE PromiseMade'
    BY <1>2 DEF PromiseMade, Touch
  <1>3. ASSUME NEW m \in Ids, Save(m) PROVE PromiseMade'
    <2>1. object' \in [Ids -> Nat] /\ stored' \in SUBSET Ids /\ object'[m] > 0
      BY <1>3, SMT DEF StoreInv, StoreTypeOK, Save
    <2>2. \A n \in Ids : object[n] <= object'[n]
      BY <1>3, SMT DEF StoreInv, StoreTypeOK, Save
    <2>3. DOMAIN file' = stored' /\ \A n \in stored' : file'[n] = object'[n]
      BY <1>3, <2>1, PersistWrites DEF Save, StoreInv
    <2>4. ASSUME NEW n \in stored' PROVE 0 < promised'[n] /\ promised'[n] <= object'[n]
      <3>1. CASE n = m
        BY <1>3, <2>1, <3>1, SMT DEF Save, StoreInv, StoreTypeOK
      <3>2. CASE n # m
        <4>1. n \in stored /\ n \in Ids /\ promised'[n] = promised[n]
          BY <1>3, <2>1, <2>4, <3>2 DEF Save, StoreInv, StoreTypeOK
        <4>2. n \in DOMAIN file /\ 0 < promised[n] /\ promised[n] <= file[n] /\ file[n] <= object[n]
          BY <4>1 DEF PromiseMade, StoreInv, FileBehind
        <4>3. promised[n] \in Nat /\ file[n] \in Nat /\ object[n] \in Nat /\ object'[n] \in Nat
          BY <2>1, <4>1, <4>2 DEF StoreInv, StoreTypeOK
        <4> QED
          BY <2>2, <4>1, <4>2, <4>3, SMT
      <3> QED BY <3>1, <3>2
    <2> QED
      BY <2>3, <2>4 DEF PromiseMade
  <1>4. ASSUME NEW m \in Ids, Delete(m) PROVE PromiseMade'
    <2>1. object' \in [Ids -> Nat] /\ stored' \in SUBSET Ids /\ object' = object
      BY <1>4 DEF StoreInv, StoreTypeOK, Delete
    <2>2. DOMAIN file' = stored' /\ \A n \in stored' : file'[n] = object'[n]
      BY <1>4, <2>1, PersistWrites DEF Delete, StoreInv
    <2>3. ASSUME NEW n \in stored' PROVE 0 < promised'[n] /\ promised'[n] <= object'[n]
      <3>1. n \in stored /\ n \in Ids /\ promised'[n] = promised[n]
        BY <1>4, <2>1, <2>3 DEF Delete, StoreInv, StoreTypeOK
      <3>2. n \in DOMAIN file /\ 0 < promised[n] /\ promised[n] <= file[n] /\ file[n] <= object[n]
        BY <3>1 DEF PromiseMade, StoreInv, FileBehind
      <3>3. promised[n] \in Nat /\ file[n] \in Nat /\ object[n] \in Nat
        BY <3>1, <3>2 DEF StoreInv, StoreTypeOK
      <3> QED
        BY <2>1, <3>1, <3>2, <3>3, SMT
    <2> QED
      BY <2>2, <2>3 DEF PromiseMade
  <1>5. CASE Restart
    BY <1>5 DEF PromiseMade, Restart, Loaded
  <1>6. CASE TornRestart
    BY <1>6 DEF PromiseMade, TornRestart
  <1> QED
    BY <1>1, <1>2, <1>3, <1>4, <1>5, <1>6 DEF StoreNext

\* What is under way to a page that stays is the same while its broadcasts and its
\* connection are.
LEMMA ComingStill ==
    ASSUME UNCHANGED casts, NEW p \in Firm, inbox'[p] = inbox[p],
           \A q \in Firm : q \in subs' <=> q \in subs
    PROVE  Casts' = Casts /\ Carried(p)' = Carried(p) /\ Coming(p)' = Coming(p)
  <1>1. Casts' = Casts
    BY DEF Casts
  <1>2. \A c \in Casts : p \in Visits(casts[c], subs') <=> p \in Visits(casts[c], subs)
    BY DEF Visits, On
  <1>3. Due(p)' = Due(p)
    BY <1>1, <1>2 DEF Due
  <1>4. Carried(p)' = Carried(p)
    BY DEF Carried
  <1> QED
    BY <1>1, <1>3, <1>4 DEF Coming

LEMMA CarriedAre ==
    ASSUME HubTypes, NEW p \in Pages
    PROVE  /\ Carried(p) \subseteq Frames
           /\ \A f \in Frames : f = [m |-> f.m, v |-> f.v] /\ f.m \in Ids /\ f.v \in Nat /\ f.v # 0
  <1>1. PICK s \in Seq(Frames) : s = inbox[p]
    BY FramesAreTyped
  <1>2. \A i \in DOMAIN s : s[i] \in Frames
    BY SMT
  <1>3. \A f \in Frames : f = [m |-> f.m, v |-> f.v] /\ f.m \in Ids /\ f.v \in Nat /\ f.v # 0
    BY StoreAssumption, SMT DEF Frames
  <1> QED
    BY <1>1, <1>2, <1>3 DEF Carried

\* What the broadcasts other than c bring to page p, with what is on its way.
Others(c, p) ==
    {FrameOf(casts[d]) : d \in {e \in Casts \ {c} : p \in Visits(casts[e], subs)}} \cup Carried(p)

\* A broadcast that goes on takes nothing from what its pages are to be sent.
LEMMA GoOnComing ==
    ASSUME HubTypes, NEW c \in 1..MaxCasts, NEW x \in Going, NEW T \in SUBSET Pages, subs' = T,
           Firm \cap T = Firm \cap subs, Listed(x, T), NEW w, GoOn(c, x, T, w),
           NEW p \in Firm
    PROVE  /\ p \in open => \A f : f \in Coming(p)' <=>
                               f \in Others(c, p) \/ (p \in Visits(x, T) /\ f = FrameOf(x))
           /\ \A f \in Carried(p)' : f \in Carried(p) \/ (p \in Visits(x, T) /\ f = FrameOf(x))
  <1>1. p \in Pages
    BY DEF Firm
  <1>2. \/ Ended(c, x, T, w)
        \/ \E q \in Pages, y \in Cast, g \in Frames : CameTo(c, x, T, w, q, y, g)
    BY GoneOn
  <1>3. \A d \in Casts : p \in Visits(casts[d], T) <=> p \in Visits(casts[d], subs)
    BY SameVisits
  <1>4. CASE Ended(c, x, T, w)
    <2>1. /\ Casts' = Casts \ {c} /\ \A d \in Casts \ {c} : casts'[d] = casts[d]
          /\ inbox' = inbox /\ p \notin Visits(x, T)
      BY <1>4 DEF Ended
    <2>2. Carried(p)' = Carried(p)
      BY <2>1 DEF Carried
    <2>3. \A f : f \in Due(p)' <=> \E d \in Casts \ {c} : p \in Visits(casts[d], subs) /\ f = FrameOf(casts[d])
      BY <1>3, <2>1 DEF Due, FrameOf
    <2> QED
      BY <2>1, <2>2, <2>3 DEF Coming, Others
  <1>5. ASSUME NEW q \in Pages, NEW y \in Cast, NEW g \in Frames, CameTo(c, x, T, w, q, y, g)
        PROVE  /\ p \in open => \A f : f \in Coming(p)' <=>
                                   f \in Others(c, p) \/ (p \in Visits(x, T) /\ f = FrameOf(x))
               /\ \A f \in Carried(p)' : f \in Carried(p) \/ (p \in Visits(x, T) /\ f = FrameOf(x))
    <2>1. /\ y.m = x.m /\ y.v = x.v /\ y.at = q
          /\ q \in Visits(x, T) /\ \A r : r \in Visits(y, T) <=> r # q /\ r \in Visits(x, T)
          /\ Casts' = Casts \cup {c} /\ casts'[c] = y
          /\ \A d \in Casts \ {c} : casts'[d] = casts[d]
          /\ g.m = x.m /\ g.v = x.v
          /\ inbox'[p] = IF p = q /\ p \in open THEN Append(inbox[p], g) ELSE inbox[p]
      BY <1>1, <1>5 DEF CameTo
    <2>2. g = FrameOf(x) /\ FrameOf(y) = FrameOf(x)
      BY <2>1 DEF Frames, FrameOf
    <2>3. \A f : f \in Carried(p)' <=> f \in Carried(p) \/ (p = q /\ p \in open /\ f = FrameOf(x))
      <3>1. CASE p = q /\ p \in open
        <4>1. PICK s \in Seq(Frames) : s = inbox[p]
          BY <1>1, FramesAreTyped
        <4>2. PICK t : t = Append(s, g)
          OBVIOUS
        <4>3. PICK n : n = Len(s)
          OBVIOUS
        <4>4. /\ n \in Nat /\ DOMAIN s = 1..n /\ DOMAIN t = 1..(n + 1)
              /\ t[n + 1] = g /\ \A i \in 1..n : t[i] = s[i]
          BY <4>1, <4>2, <4>3, SMT
        <4>5. n + 1 \in 1..(n + 1) /\ \A i \in 1..(n + 1) : i = n + 1 \/ i \in 1..n
          BY <4>4, SMT
        <4>6. \A i \in 1..n : i \in 1..(n + 1)
          BY <4>4, SMT
        <4>7. inbox'[p] = t
          BY <2>1, <3>1, <4>1, <4>2
        <4>8. \A f : (\E i \in DOMAIN t : f = t[i]) <=> (\E i \in DOMAIN s : f = s[i]) \/ f = g
          BY <4>4, <4>5, <4>6
        <4>9. \A f : f \in Carried(p)' <=> \E i \in DOMAIN t : f = t[i]
          BY <4>7 DEF Carried
        <4>10. \A f : f \in Carried(p) <=> \E i \in DOMAIN s : f = s[i]
          BY <4>1 DEF Carried
        <4> QED
          BY <2>2, <3>1, <4>8, <4>9, <4>10
      <3>2. CASE ~(p = q /\ p \in open)
        BY <2>1, <3>2 DEF Carried
      <3> QED BY <3>1, <3>2
    <2>4. \A f : f \in Due(p)' <=>
                    \/ \E d \in Casts \ {c} : p \in Visits(casts[d], subs) /\ f = FrameOf(casts[d])
                    \/ p # q /\ p \in Visits(x, T) /\ f = FrameOf(x)
      <3>1. \A f : f \in Due(p)' <=> \E d \in Casts' : p \in Visits(casts'[d], T) /\ f = FrameOf(casts'[d])
        BY DEF Due, FrameOf
      <3>2. p \in Visits(y, T) <=> p # q /\ p \in Visits(x, T)
        BY <2>1
      <3>3. \A d \in Casts' : d = c \/ d \in Casts \ {c}
        BY <2>1
      <3>4. c \in Casts' /\ Casts \ {c} \subseteq Casts'
        BY <2>1
      <3> QED
        BY <1>3, <2>1, <2>2, <3>1, <3>2, <3>3, <3>4
    <2> QED
      BY <2>1, <2>3, <2>4 DEF Coming, Others
  <1> QED
    BY <1>2, <1>4, <1>5

\* The newest broadcast of a record ends only when the older ones have no business left
\* with the pages that stay.
LEMMA GoOnNewest ==
    ASSUME HubTypes, NotAhead, NEW c \in 1..MaxCasts, NEW x \in Going, NEW T \in SUBSET Pages,
           subs' = T, Firm \cap T = Firm \cap subs, Listed(x, T), Newer(c, x, T),
           NEW w, GoOn(c, x, T, w),
           \A d \in Casts \ {c} : casts[d].m = x.m => casts[d].v <= promised'[x.m] \/ promised'[x.m] = 0,
           \A d \in Casts \ {c} : promised'[casts[d].m] > 0 /\ Busy(casts[d]) =>
               \/ \E e \in Casts \ {c} : casts[e].m = casts[d].m /\ casts[e].v = promised'[casts[d].m]
               \/ x.m = casts[d].m /\ x.v = promised'[x.m],
           promised'[x.m] > 0 /\ (\E p \in Firm : p \in Visits(x, T)) =>
               \/ \E e \in Casts \ {c} : casts[e].m = x.m /\ casts[e].v = promised'[x.m]
               \/ x.v = promised'[x.m]
    PROVE  NewestRuns'
  <1>1. \A d \in Casts, p \in Firm : p \in Visits(casts[d], T) <=> p \in Visits(casts[d], subs)
    BY SameVisits
  <1>2. \/ Ended(c, x, T, w)
        \/ \E q \in Pages, y \in Cast, g \in Frames : CameTo(c, x, T, w, q, y, g)
    BY GoneOn
  <1>3. x.m \in Ids /\ x.v \in Nat
    BY StoreAssumption, SMT DEF Going
  <1>4. SUFFICES ASSUME NEW d \in Casts', promised'[casts'[d].m] > 0,
                        casts'[d].at \in Firm \/ \E p \in Firm : p \in Visits(casts'[d], T)
                 PROVE  \E e \in Casts' : casts'[e].m = casts'[d].m /\ casts'[e].v = promised'[casts'[d].m]
    BY DEF NewestRuns, Busy
  <1>5. CASE Ended(c, x, T, w)
    <2>1. /\ Casts' = Casts \ {c} /\ \A e \in Casts \ {c} : casts'[e] = casts[e]
          /\ \A p : p \notin Visits(x, T)
      BY <1>5 DEF Ended
    <2>2. d \in Casts \ {c} /\ casts'[d] = casts[d] /\ Busy(casts[d]) /\ promised'[casts[d].m] > 0
      BY <1>1, <1>4, <2>1 DEF Busy
    <2>3. ~(x.m = casts[d].m /\ x.v = promised'[x.m])
      <3> SUFFICES ASSUME x.m = casts[d].m, x.v = promised'[x.m] PROVE FALSE
        OBVIOUS
      <3>1. casts[d].v <= x.v /\ casts[d].v # x.v /\ casts[d].v \in Nat
        <4>1. ~(promised'[x.m] = 0)
          BY <1>3, <2>2, SMT
        <4> QED
          BY <2>2, <4>1, CastsAreTyped DEF Newer
      <3>2. casts[d].v < x.v
        BY <1>3, <3>1, SMT
      <3> QED
        BY <1>1, <2>1, <2>2, <3>2 DEF Newer, Busy
    <2> QED
      BY <2>1, <2>2, <2>3
  <1>6. ASSUME NEW q \in Pages, NEW y \in Cast, NEW g \in Frames, CameTo(c, x, T, w, q, y, g)
        PROVE  \E e \in Casts' : casts'[e].m = casts'[d].m /\ casts'[e].v = promised'[casts'[d].m]
    <2>1. /\ y.m = x.m /\ y.v = x.v /\ y.at = q
          /\ q \in Visits(x, T) /\ \A r : r \in Visits(y, T) <=> r # q /\ r \in Visits(x, T)
          /\ Casts' = Casts \cup {c} /\ casts'[c] = y
          /\ \A e \in Casts \ {c} : casts'[e] = casts[e]
      BY <1>6 DEF CameTo
    <2>2. c \in Casts' /\ \A e \in Casts \ {c} : e \in Casts'
      BY <2>1
    <2>3. CASE d = c
      <3>1. casts'[d] = y /\ \E p \in Firm : p \in Visits(x, T)
        BY <1>4, <2>1, <2>3
      <3> QED
        BY <1>4, <2>1, <2>2, <3>1
    <2>4. CASE d # c
      <3>1. d \in Casts \ {c} /\ casts'[d] = casts[d]
        BY <2>1, <2>4
      <3>2. Busy(casts[d])
        BY <1>1, <1>4, <3>1 DEF Busy
      <3> QED
        BY <1>4, <2>1, <2>2, <3>1, <3>2
    <2> QED BY <2>3, <2>4
  <1> QED
    BY <1>2, <1>5, <1>6

LEMMA DueOnTopic ==
    ASSUME Way, NEW p \in Pages
    PROVE  \A f \in Due(p) : TopicOf[p] \in {f.m, Every}
  <1> SUFFICES ASSUME NEW c \in Casts, p \in Visits(casts[c], subs)
               PROVE  TopicOf[p] \in {casts[c].m, Every}
    BY DEF Due, FrameOf
  <1>1. Listed(casts[c], subs)
    BY DEF Way
  <1> QED
    BY <1>1 DEF Visits, Listed, Stage, On

LEMMA GoneOnCasts ==
    ASSUME HubTypes, NEW c \in 1..MaxCasts, NEW x \in Going, NEW T \in SUBSET Pages, Listed(x, T),
           NEW w, GoOn(c, x, T, w)
    PROVE  \A d \in Casts' :
               IF d = c THEN casts'[d].m = x.m /\ casts'[d].v = x.v
                        ELSE d \in Casts /\ casts'[d] = casts[d]
  <1>1. \/ Ended(c, x, T, w)
        \/ \E q \in Pages, y \in Cast, g \in Frames : CameTo(c, x, T, w, q, y, g)
    BY GoneOn
  <1>2. CASE Ended(c, x, T, w)
    BY <1>2 DEF Ended
  <1>3. ASSUME NEW q \in Pages, NEW y \in Cast, NEW g \in Frames, CameTo(c, x, T, w, q, y, g)
        PROVE  \A d \in Casts' :
                   IF d = c THEN casts'[d].m = x.m /\ casts'[d].v = x.v
                            ELSE d \in Casts /\ casts'[d] = casts[d]
    BY <1>3 DEF CameTo
  <1> QED
    BY <1>1, <1>2, <1>3

\* The new version is newer than every frame there is.
LEMMA NewVersion ==
    ASSUME HubTypes, PushInv, NEW m \in Ids, Save(m)
    PROVE  /\ object'[m] \in Nat /\ object'[m] > 0 /\ promised'[m] = object'[m]
           /\ \A n \in Ids : n # m => promised'[n] = promised[n] /\ (n \in stored' => n \in stored)
           /\ \A n \in Ids : object[n] \in Nat /\ object'[n] \in Nat /\ object[n] <= object'[n]
           /\ \A c \in Casts : casts[c].m = m => casts[c].v < object'[m]
           /\ \A p \in Pages : \A f \in Carried(p) : f.m = m => f.v < object'[m]
  <1>1. object \in [Ids -> Nat] /\ promised \in [Ids -> Nat] /\ stored' = stored \cup {m}
    BY DEF Save, HubTypes, StoreInv, StoreTypeOK
  <1>2. object' \in [Ids -> Nat] /\ object'[m] = object[m] + 1 /\ promised'[m] = object'[m]
    BY <1>1, SMT DEF Save
  <1>3. \A n \in Ids : n # m => promised'[n] = promised[n] /\ (n \in stored' => n \in stored)
    BY <1>1 DEF Save
  <1>4. \A n \in Ids : object[n] <= object'[n]
    BY <1>1, SMT DEF Save
  <1>5. \A u \in Nat : u <= object[m] => u < object'[m]
    BY <1>1, <1>2, SMT
  <1>6. \A f \in Safe : f.m = m => f.v < object'[m]
    BY <1>5 DEF Safe, Frame
  <1>7. ASSUME NEW c \in Casts, casts[c].m = m PROVE casts[c].v < object'[m]
    <2>1. FrameOf(casts[c]) \in Safe
      BY DEF PushInv, CastsIn, Casts
    <2> QED
      BY <1>6, <1>7, <2>1 DEF FrameOf
  <1>8. ASSUME NEW p \in Pages, NEW f \in Carried(p), f.m = m PROVE f.v < object'[m]
    <2>1. PICK s \in Seq(Safe) : s = inbox[p]
      BY DEF PushInv, InboxIn
    <2>2. \A i \in DOMAIN s : s[i] \in Safe
      BY SMT
    <2>3. f \in Safe
      BY <2>1, <2>2 DEF Carried
    <2> QED
      BY <1>6, <1>8, <2>3
  <1>9. object'[m] > 0
    BY <1>1, <1>2, SMT
  <1> QED
    BY <1>1, <1>2, <1>3, <1>4, <1>7, <1>8, <1>9

\* A saved version goes out to every page that has heard of the record, and to every
\* page that watches it.
LEMMA EmitQuiet ==
    ASSUME HubTypes, PushInv, ForwardInv, QuietInv, NEW m \in Ids, Emit(m)
    PROVE  QuietInv'
  <1>1. /\ Save(m) /\ serving
        /\ UNCHANGED <<serving, subs, open, initial, live, early, lost>>
    BY DEF Emit
  <1>2. PICK c \in 1..MaxCasts, x \in Going, T \in SUBSET Pages : \E w :
           /\ casts[c] = NoCast /\ x.m = m /\ x.v = object'[m] /\ T = subs
           /\ \A p : p \in Visits(x, T) <=> p \in T /\ TopicOf[p] \in {m, Every}
           /\ GoesOn(c, x, T, w)
    BY EmitGoesOn
  <1>3. PICK w : GoesOn(c, x, T, w)
    BY <1>2
  <1>4. PICK v \in Nat : v = object'[m]
    BY <1>1, NewVersion
  <1>5. /\ casts[c] = NoCast /\ x.m = m /\ x.v = v /\ T = subs /\ FrameOf(x) = [m |-> m, v |-> v]
        /\ \A p : p \in Visits(x, T) <=> p \in T /\ TopicOf[p] \in {m, Every}
    BY <1>2, <1>4 DEF FrameOf
  <1>6. /\ v > 0 /\ promised'[m] = v
        /\ \A n \in Ids : n # m => promised'[n] = promised[n] /\ (n \in stored' => n \in stored)
        /\ \A n \in Ids : object[n] \in Nat /\ object'[n] \in Nat /\ object[n] <= object'[n]
        /\ \A d \in Casts : casts[d].m = m => casts[d].v < v
        /\ \A p \in Pages : \A f \in Carried(p) : f.m = m => f.v < v
    BY <1>1, <1>4, NewVersion
  <1>7. /\ PromiseMade /\ NotAhead /\ Silent /\ Untouched /\ OnTopic
        /\ NewestRuns /\ Reaches /\ Asked /\ Way /\ FirmStay /\ StoreInv
    BY DEF QuietInv, ForwardInv, PushInv
  <1>8. c \notin Casts /\ Casts \ {c} = Casts
    BY <1>5 DEF Casts
  <1>9. \A p \in Firm :
           /\ p \in Pages
           /\ p \in open => \A f : f \in Coming(p)' <=>
                               f \in Coming(p) \/ (p \in Visits(x, T) /\ f = FrameOf(x))
           /\ \A f \in Carried(p)' : f \in Carried(p) \/ (p \in Visits(x, T) /\ f = FrameOf(x))
    <2>1. \A p : Others(c, p) = Coming(p)
      BY <1>8 DEF Others, Coming, Due
    <2> QED
      BY <1>3, <2>1, GoOnComing DEF GoesOn, Firm
  <1>10. \A d \in Casts' : \/ d \in Casts /\ casts'[d] = casts[d]
                           \/ casts'[d].m = m /\ casts'[d].v = v
    BY <1>3, <1>5, GoneOnCasts DEF GoesOn
  <1>11. \A d \in Casts : casts[d].m \in Ids /\ casts[d].v \in Nat
    BY CastsAreTyped
  <1>12. \A p \in Pages : \A f \in Carried(p) : f.m \in Ids /\ f.v \in Nat
    BY CarriedAre
  <1>13. Kept' = Kept /\ \A p : Watched(p)' = Watched(p)
    BY <1>1 DEF Kept, Watched
  <1>14. PromiseMade'
    BY <1>1, <1>7, PromiseStep DEF StoreNext
  <1>15. v <= v /\ \A u \in Nat : u < v => u <= v
    BY SMT
  <1>16. NotAhead'
    <2>1. ASSUME NEW d \in Casts', promised'[casts'[d].m] > 0
          PROVE  casts'[d].v <= promised'[casts'[d].m]
      BY <1>6, <1>7, <1>10, <1>11, <1>15, <2>1 DEF NotAhead
    <2>2. ASSUME NEW p \in Firm, NEW f \in Carried(p)', promised'[f.m] > 0
          PROVE  f.v <= promised'[f.m]
      <3>1. CASE f \in Carried(p)
        BY <1>6, <1>7, <1>9, <1>12, <1>15, <2>2, <3>1 DEF NotAhead
      <3>2. CASE f = FrameOf(x)
        BY <1>5, <1>6, <1>15, <3>2
      <3> QED BY <1>9, <3>1, <3>2
    <2> QED
      BY <2>1, <2>2 DEF NotAhead
  <1>17. Silent' /\ Untouched'
    BY <1>1, <1>7 DEF Silent, Untouched
  <1>18. OnTopic'
    BY <1>1, <1>5, <1>7, <1>9 DEF OnTopic
  <1>19. NewestRuns'
    <2>1. \A d \in Casts \ {c} : casts[d].m = x.m => casts[d].v <= promised'[x.m] \/ promised'[x.m] = 0
      BY <1>5, <1>6, <1>8, <1>11, <1>15
    <2>2. ASSUME NEW d \in Casts \ {c}, promised'[casts[d].m] > 0, Busy(casts[d])
          PROVE  \/ \E e \in Casts \ {c} : casts[e].m = casts[d].m /\ casts[e].v = promised'[casts[d].m]
                 \/ x.m = casts[d].m /\ x.v = promised'[x.m]
      BY <1>5, <1>6, <1>7, <1>8, <1>11, <2>2 DEF NewestRuns
    <2>3. x.v = promised'[x.m]
      BY <1>5, <1>6
    <2> QED
      BY <1>3, <1>7, <2>1, <2>2, <2>3, GoOnNewest DEF GoesOn
  <1>20. ASSUME NEW p \in Kept, TopicOf[p] \in {m, Every}
         PROVE  [m |-> m, v |-> v] \in Coming(p)'
    <2>1. p \in Firm /\ p \in open /\ p \in T
      BY <1>5, <1>7 DEF Kept, FirmStay
    <2> QED
      BY <1>5, <1>9, <1>20, <2>1
  <1>21. ASSUME NEW p \in Kept, NEW n \in Ids, n # m
         PROVE  \A f : f.m = n => (f \in Coming(p)' <=> f \in Coming(p))
    <2>1. p \in Firm /\ p \in open
      BY DEF Kept
    <2>2. FrameOf(x).m = m
      BY <1>5
    <2> QED
      BY <1>9, <1>21, <2>1, <2>2
  <1>22. ASSUME NEW p \in Kept, NEW n \in Ids, n # m
         PROVE  Heard(p, n)' <=> Heard(p, n)
    BY <1>1, <1>21, <1>22 DEF Heard
  <1>23. Reaches'
    <2> SUFFICES ASSUME NEW p \in Kept, NEW n \in Ids, promised'[n] > 0, Heard(p, n)'
                 PROVE  live'[p][n] = promised'[n] \/ [m |-> n, v |-> promised'[n]] \in Coming(p)'
      BY <1>13 DEF Reaches
    <2>1. CASE n = m
      <3>1. p \in Firm /\ p \in open /\ p \in Pages
        BY DEF Kept, Firm
      <3>2. TopicOf[p] \in {m, Every}
        <4>1. CASE live[p][m] # 0
          BY <1>7, <3>1, <4>1 DEF OnTopic
        <4>2. ASSUME NEW f \in Coming(p), f.m = m PROVE TopicOf[p] \in {m, Every}
          BY <1>7, <3>1, <4>2, DueOnTopic DEF OnTopic, Coming
        <4>3. CASE p \in Visits(x, T)
          BY <1>5, <4>3
        <4>4. live[p][m] # 0 \/ \E f \in Coming(p)' : f.m = m
          BY <1>1, <2>1 DEF Heard
        <4> QED
          BY <1>9, <3>1, <4>1, <4>2, <4>3, <4>4
      <3> QED
        BY <1>6, <1>20, <2>1, <3>2
    <2>2. CASE n # m
      <3>1. promised'[n] = promised[n] /\ Heard(p, n)
        BY <1>6, <1>22, <2>2
      <3>2. live[p][n] = promised[n] \/ [m |-> n, v |-> promised[n]] \in Coming(p)
        BY <1>7, <3>1 DEF Reaches
      <3>3. [m |-> n, v |-> promised[n]] \in Coming(p) => [m |-> n, v |-> promised[n]] \in Coming(p)'
        BY <1>21, <2>2
      <3> QED
        BY <1>1, <3>1, <3>2, <3>3
    <2> QED BY <2>1, <2>2
  <1>24. Asked'
    <2> SUFFICES ASSUME NEW p \in early \cap Kept, NEW n \in Ids
                 PROVE  /\ initial[p][n] <= object'[n]
                        /\ n \in Watched(p) \cap stored' => Heard(p, n)' \/ initial[p][n] >= promised'[n]
      BY <1>1, <1>13 DEF Asked
    <2>1. p \in Pages
      BY DEF Kept, Firm
    <2>2. initial[p][n] <= object'[n]
      <3>1. initial[p][n] \in Nat
        <4>1. \A u \in 0..MaxVersion : u \in Nat
          BY StoreAssumption, SMT
        <4> QED
          BY <2>1, <4>1 DEF HubTypes, PageTypes
      <3>2. initial[p][n] <= object[n]
        BY <1>7 DEF Asked
      <3>3. object[n] \in Nat /\ object'[n] \in Nat /\ object[n] <= object'[n]
        BY <1>6
      <3> QED
        BY <3>1, <3>2, <3>3, SMT
    <2>3. CASE n = m
      <3>1. m \in Watched(p) => TopicOf[p] \in {m, Every}
        BY DEF Watched
      <3>2. m \in Watched(p) => Heard(p, m)'
        BY <1>20, <3>1 DEF Heard
      <3> QED
        BY <2>2, <2>3, <3>2
    <2>4. CASE n # m
      BY <1>6, <1>7, <1>22, <2>2, <2>4 DEF Asked
    <2> QED BY <2>3, <2>4
  <1> QED
    BY <1>14, <1>16, <1>17, <1>18, <1>19, <1>23, <1>24 DEF QuietInv

\* A broadcast that resumes takes nothing from what any page is to be sent.
LEMMA ResumeQuiet ==
    ASSUME HubTypes, ForwardInv, QuietInv, NEW c \in 1..MaxCasts, Resume(c)
    PROVE  QuietInv'
  <1>1. UNCHANGED <<storeVars, serving, open, initial, live, early, lost>>
    BY DEF Resume
  <1>2. PICK x \in Going, T \in SUBSET Pages : \E w :
           x = casts[c] /\ c \in Casts /\ GoesOn(c, x, T, w)
    BY ResumeGoesOn
  <1>3. PICK w : x = casts[c] /\ c \in Casts /\ GoesOn(c, x, T, w)
    BY <1>2
  <1>4. /\ PromiseMade /\ NotAhead /\ Silent /\ Untouched /\ OnTopic
        /\ NewestRuns /\ Reaches /\ Asked /\ Way
    BY DEF QuietInv, ForwardInv
  <1>5. /\ UNCHANGED <<object, stored, file, promised>>
        /\ Kept' = Kept /\ \A p : Watched(p)' = Watched(p)
    BY <1>1 DEF storeVars, Kept, Watched
  <1>6. \A p \in Firm : p \in Visits(x, T) <=> p \in Visits(x, subs)
    BY <1>3, SameVisits DEF GoesOn
  <1>7. \A p \in Firm :
           /\ p \in open => \A f : f \in Coming(p)' <=> f \in Coming(p)
           /\ \A f \in Carried(p)' : f \in Carried(p) \/ f \in Due(p)
    <2> SUFFICES ASSUME NEW p \in Firm
                 PROVE  /\ p \in open => \A f : f \in Coming(p)' <=> f \in Coming(p)
                        /\ \A f \in Carried(p)' : f \in Carried(p) \/ f \in Due(p)
      OBVIOUS
    <2>1. \A f : f \in Coming(p) <=> f \in Others(c, p) \/ (p \in Visits(x, T) /\ f = FrameOf(x))
      BY <1>3, <1>6 DEF Others, Coming, Due
    <2>2. p \in Visits(x, T) => FrameOf(x) \in Due(p)
      BY <1>3, <1>6 DEF Due
    <2>3. /\ p \in open => \A f : f \in Coming(p)' <=>
                               f \in Others(c, p) \/ (p \in Visits(x, T) /\ f = FrameOf(x))
          /\ \A f \in Carried(p)' : f \in Carried(p) \/ (p \in Visits(x, T) /\ f = FrameOf(x))
      BY <1>3, GoOnComing DEF GoesOn
    <2> QED
      BY <2>1, <2>2, <2>3
  <1>8. \A d \in Casts' : \E e \in Casts : casts'[d].m = casts[e].m /\ casts'[d].v = casts[e].v
    BY <1>3, GoneOnCasts DEF GoesOn
  <1>9. PromiseMade'
    BY <1>4, <1>5 DEF PromiseMade
  <1>10. NotAhead'
    <2>1. \A d \in Casts' : promised[casts'[d].m] > 0 => casts'[d].v <= promised[casts'[d].m]
      BY <1>4, <1>8 DEF NotAhead
    <2>2. \A p : \A f \in Due(p) : promised[f.m] > 0 => f.v <= promised[f.m]
      BY <1>4 DEF NotAhead, Due, FrameOf
    <2>3. ASSUME NEW p \in Firm, NEW f \in Carried(p)', promised[f.m] > 0 PROVE f.v <= promised[f.m]
      BY <1>4, <1>7, <2>2, <2>3 DEF NotAhead
    <2> QED
      BY <1>5, <2>1, <2>3 DEF NotAhead
  <1>11. Silent' /\ Untouched'
    <2>1. serving
      BY <1>3, <1>4 DEF Silent
    <2> QED
      BY <1>1, <1>4, <2>1 DEF Silent, Untouched
  <1>12. OnTopic'
    <2>1. \A p \in Firm : \A f \in Due(p) : TopicOf[p] \in {f.m, Every}
      BY <1>4, DueOnTopic DEF Firm
    <2> QED
      BY <1>1, <1>4, <1>7, <2>1 DEF OnTopic
  <1>13. NewestRuns'
    <2>1. \A d \in Casts : casts[d].v <= promised[casts[d].m] \/ promised[casts[d].m] = 0
      <3>1. ASSUME NEW d \in Casts PROVE promised[casts[d].m] > 0 \/ promised[casts[d].m] = 0
        <4>1. promised[casts[d].m] \in Nat
          BY CastsAreTyped DEF HubTypes, StoreInv, StoreTypeOK
        <4> QED
          BY <4>1, SMT
      <3> QED
        BY <1>4, <3>1 DEF NotAhead
    <2>2. \A d \in Casts \ {c} : casts[d].m = x.m => casts[d].v <= promised'[x.m] \/ promised'[x.m] = 0
      BY <1>5, <2>1
    <2>3. \A d \in Casts : promised'[casts[d].m] > 0 /\ Busy(casts[d]) =>
               \/ \E e \in Casts \ {c} : casts[e].m = casts[d].m /\ casts[e].v = promised'[casts[d].m]
               \/ x.m = casts[d].m /\ x.v = promised'[x.m]
      BY <1>3, <1>4, <1>5 DEF NewestRuns
    <2>4. promised'[x.m] > 0 /\ (\E p \in Firm : p \in Visits(x, T)) =>
               \/ \E e \in Casts \ {c} : casts[e].m = x.m /\ casts[e].v = promised'[x.m]
               \/ x.v = promised'[x.m]
      BY <1>3, <1>6, <2>3 DEF Busy
    <2> QED
      BY <1>3, <1>4, <2>2, <2>3, <2>4, GoOnNewest DEF GoesOn
  <1>14. \A p \in Kept : \A f : f \in Coming(p)' <=> f \in Coming(p)
    BY <1>7 DEF Kept
  <1>15. \A p \in Kept, m \in Ids : Heard(p, m)' <=> Heard(p, m)
    BY <1>1, <1>14 DEF Heard
  <1>16. Reaches'
    BY <1>1, <1>4, <1>5, <1>14, <1>15 DEF Reaches
  <1>17. Asked'
    BY <1>1, <1>4, <1>5, <1>15 DEF Asked
  <1> QED
    BY <1>9, <1>10, <1>11, <1>12, <1>13, <1>16, <1>17 DEF QuietInv

\* The frame that is shown was under way; it is the newest, or that one comes after it.
LEMMA ReceiveQuiet ==
    ASSUME HubTypes, ForwardInv, QuietInv, NEW p \in Pages, Receive(p)
    PROVE  QuietInv'
  <1>1. /\ UNCHANGED <<storeVars, casts, subs, serving, open, initial, early, lost>>
        /\ Fresh /\ Way
    BY DEF Receive, hubVars, ForwardInv
  <1>2. /\ PromiseMade /\ NotAhead /\ Silent /\ Untouched /\ OnTopic
        /\ NewestRuns /\ Reaches /\ Asked
    BY DEF QuietInv
  <1>3. PICK s \in Seq(Frames) : s = inbox[p]
    BY FramesAreTyped
  <1>4. s # <<>>
    BY <1>3 DEF Receive
  <1>5. PICK t : t = Tail(s)
    OBVIOUS
  <1>6. PICK f \in Frames : f = Head(s)
    BY <1>3, <1>4, SMT
  <1>7. /\ 1 \in DOMAIN s /\ s[1] = f
        /\ \A i \in DOMAIN s : i = 1 \/ \E j \in DOMAIN t : t[j] = s[i]
        /\ \A j \in DOMAIN t : \E i \in DOMAIN s : s[i] = t[j]
    <2>1. PICK n \in Nat : n = Len(s)
      BY SMT
    <2>2. /\ DOMAIN s = 1..n /\ DOMAIN t = 1..(n - 1) /\ 1 \in 1..n
          /\ \A j \in 1..(n - 1) : t[j] = s[j + 1] /\ j + 1 \in 1..n
      BY <1>4, <1>5, <2>1, SMT
    <2>3. \A i \in 1..n : i = 1 \/ (i - 1 \in 1..(n - 1) /\ (i - 1) + 1 = i)
      BY <2>1, SMT
    <2>4. \A i \in DOMAIN s : i = 1 \/ \E j \in DOMAIN t : t[j] = s[i]
      <3> SUFFICES ASSUME NEW i \in 1..n, i # 1 PROVE \E j \in 1..(n - 1) : t[j] = s[i]
        BY <2>2
      <3>1. i - 1 \in 1..(n - 1) /\ (i - 1) + 1 = i
        BY <2>3
      <3>2. t[i - 1] = s[i]
        BY <2>2, <3>1
      <3> QED
        BY <3>1, <3>2
    <2>5. s[1] = f
      BY <1>4, <1>6, SMT
    <2> QED
      BY <2>2, <2>4, <2>5
  <1>8. /\ inbox' = [inbox EXCEPT ![p] = t]
        /\ live' = [live EXCEPT ![p][f.m] = f.v]
    BY <1>3, <1>5, <1>6 DEF Receive
  <1>9. /\ \A q \in Pages : inbox'[q] = IF q = p THEN t ELSE inbox[q]
        /\ \A q \in Pages, m \in Ids : live'[q][m] = IF q = p /\ m = f.m THEN f.v ELSE live[q][m]
        /\ f.m \in Ids /\ f.v \in Nat /\ f.v # 0 /\ f = [m |-> f.m, v |-> f.v]
    <2>1. f.m \in Ids /\ f.v \in Nat /\ f.v # 0 /\ f = [m |-> f.m, v |-> f.v]
      BY CarriedAre
    <2> QED
      BY <1>8, <2>1 DEF HubTypes, InboxTypes, PageTypes
  <1>10. \A g : g \in Carried(p) <=> g = f \/ g \in Carried(p)'
    <2>1. \A g : g \in Carried(p) <=> \E i \in DOMAIN s : g = s[i]
      BY <1>3 DEF Carried
    <2>2. \A g : g \in Carried(p)' <=> \E j \in DOMAIN t : g = t[j]
      BY <1>9 DEF Carried
    <2> QED
      BY <1>7, <2>1, <2>2
  <1>11. \A q \in Pages : Due(q)' = Due(q) /\ (q # p => Carried(q)' = Carried(q))
    BY <1>1, <1>9 DEF Due, Casts, Carried
  <1>12. \A q \in Pages : \A g \in Carried(q)' : g \in Carried(q)
    BY <1>10, <1>11
  <1>13. /\ \A g : g \in Coming(p) => g = f \/ g \in Coming(p)'
         /\ \A q \in Pages : \A g \in Coming(q)' : g \in Coming(q)
         /\ \A q \in Pages : q # p => Coming(q)' = Coming(q)
    BY <1>10, <1>11, <1>12 DEF Coming
  <1>14. f \in Carried(p)
    BY <1>10
  <1>15. p \in Firm => p \in open /\ live[p][f.m] < f.v
    <2>1. p \in Firm => p \in open
      BY <1>1, <1>3, <1>4 DEF Fresh
    <2> QED
      BY <1>1, <1>3, <1>7, <2>1 DEF Fresh
  <1>16. /\ UNCHANGED <<object, stored, file, promised>> /\ Casts' = Casts
         /\ Kept' = Kept /\ \A q : Watched(q)' = Watched(q)
    BY <1>1 DEF storeVars, Kept, Watched, Casts
  <1>17. \A q \in Firm : q \in Pages
    BY DEF Firm
  <1>18. PromiseMade' /\ Silent' /\ NewestRuns'
    BY <1>1, <1>2, <1>16 DEF PromiseMade, Silent, NewestRuns, Busy
  <1>19. NotAhead'
    BY <1>1, <1>2, <1>12, <1>16, <1>17 DEF NotAhead
  <1>20. Untouched'
    BY <1>1, <1>2, <1>9, <1>15, <1>17 DEF Untouched
  <1>21. OnTopic'
    BY <1>2, <1>9, <1>12, <1>14, <1>17 DEF OnTopic
  <1>22. ASSUME NEW q \in Kept, NEW m \in Ids PROVE Heard(q, m)' <=> Heard(q, m)
    <2>1. q \in Pages
      BY DEF Kept, Firm
    <2>2. CASE q = p /\ m = f.m
      BY <1>9, <1>14, <2>1, <2>2 DEF Heard, Coming
    <2>3. CASE q = p /\ m # f.m
      <3>1. live'[q][m] = live[q][m]
        BY <1>9, <2>1, <2>3
      <3> QED
        BY <1>13, <2>1, <2>3, <3>1 DEF Heard
    <2>4. CASE q # p
      <3>1. live'[q][m] = live[q][m]
        BY <1>9, <2>1, <2>4
      <3> QED
        BY <1>13, <2>1, <2>4, <3>1 DEF Heard
    <2> QED BY <2>2, <2>3, <2>4
  <1>23. Reaches'
    <2> SUFFICES ASSUME NEW q \in Kept, NEW m \in Ids, promised[m] > 0, Heard(q, m)
                 PROVE  live'[q][m] = promised[m] \/ [m |-> m, v |-> promised[m]] \in Coming(q)'
      BY <1>16, <1>22 DEF Reaches
    <2>1. q \in Pages /\ q \in Firm
      BY DEF Kept, Firm
    <2>2. live[q][m] = promised[m] \/ [m |-> m, v |-> promised[m]] \in Coming(q)
      BY <1>2 DEF Reaches
    <2>3. CASE q = p /\ m = f.m
      <3>1. f.v <= promised[m] /\ live[p][m] < f.v
        BY <1>2, <1>14, <1>15, <2>1, <2>3 DEF NotAhead
      <3>2. live[p][m] \in Nat /\ promised[m] \in Nat
        BY <2>1, <2>3, FramesAreTyped DEF HubTypes, StoreInv, StoreTypeOK
      <3>3. live[p][m] # promised[m]
        BY <1>9, <3>1, <3>2, SMT
      <3>4. CASE f.v = promised[m]
        BY <1>9, <2>1, <2>3, <3>4
      <3>5. CASE f.v # promised[m]
        <4>1. [m |-> m, v |-> promised[m]] # f
          BY <1>9, <3>5
        <4> QED
          BY <1>13, <2>2, <2>3, <3>3, <4>1
      <3> QED BY <3>4, <3>5
    <2>4. CASE q = p /\ m # f.m
      <3>1. [m |-> m, v |-> promised[m]] # f
        BY <1>9, <2>4
      <3>2. live'[q][m] = live[q][m]
        BY <1>9, <2>1, <2>4
      <3> QED
        BY <1>13, <2>2, <2>4, <3>1, <3>2
    <2>5. CASE q # p
      <3>1. live'[q][m] = live[q][m]
        BY <1>9, <2>1, <2>5
      <3> QED
        BY <1>13, <2>1, <2>2, <2>5, <3>1
    <2> QED BY <2>3, <2>4, <2>5
  <1>24. Asked'
    BY <1>1, <1>2, <1>16, <1>22 DEF Asked
  <1> QED
    BY <1>18, <1>19, <1>20, <1>21, <1>23, <1>24 DEF QuietInv

\* A page that connects for the first time has heard of nothing; if a broadcast is on
\* the way to it, the newest one is.
LEMMA ConnectQuiet ==
    ASSUME DroppingLast, HubTypes, ForwardInv, QuietInv, NEW p \in Firm, Connect(p)
    PROVE  QuietInv'
  <1>1. /\ UNCHANGED <<storeVars, serving, casts, inbox, initial, live, early, lost>>
        /\ serving /\ p \notin open /\ p \notin subs
        /\ open' = open \cup {p} /\ subs' = subs \cup {p}
    BY DEF Connect
  <1>2. /\ PromiseMade /\ NotAhead /\ Silent /\ Untouched /\ OnTopic
        /\ NewestRuns /\ Reaches /\ Asked /\ Way /\ Fresh /\ Apart
    BY DEF QuietInv, ForwardInv
  <1>3. Way' /\ InTurn'
    BY ConnectForward DEF ForwardInv
  <1>4. /\ UNCHANGED <<object, stored, file, promised>> /\ Casts' = Casts
        /\ \A q : Watched(q)' = Watched(q) /\ Carried(q)' = Carried(q)
    BY <1>1 DEF storeVars, Watched, Casts, Carried
  <1>5. PromiseMade' /\ NotAhead' /\ Silent' /\ Untouched' /\ OnTopic'
    BY <1>1, <1>2, <1>4 DEF PromiseMade, NotAhead, Silent, Untouched, OnTopic
  <1>6. \A c \in Casts : \A q : q \in Visits(casts[c], subs') <=>
               \/ q \in Visits(casts[c], subs)
               \/ q = p /\ ~casts[c].wide /\ TopicOf[p] = Every
    BY <1>1 DEF Visits, On, Firm
  <1>7. ASSUME NEW c \in Casts, p \in Visits(casts[c], subs') PROVE casts[c].at \in Firm
    <2>1. p \notin casts[c].left
      BY <1>1, <1>2 DEF Way, Listed
    <2>2. ~casts[c].wide /\ TopicOf[p] = Every
      BY <1>7, <2>1 DEF Visits, On
    <2>3. casts[c].m \in Ids /\ casts[c].at \in Pages
      BY CastsAreTyped
    <2>4. TopicOf[casts[c].at] = casts[c].m
      BY <1>2, <2>2 DEF Way, Stands, Stage, On
    <2> QED
      BY <2>2, <2>3, <2>4, PageNumbers DEF DroppingLast, Firm
  <1>8. \A c \in Casts : Busy(casts[c])' => Busy(casts[c])
    BY <1>1, <1>6, <1>7 DEF Busy
  <1>9. NewestRuns'
    <2> SUFFICES ASSUME NEW c \in Casts, promised[casts[c].m] > 0, Busy(casts[c])'
                 PROVE  \E d \in Casts : casts[d].m = casts[c].m /\ casts[d].v = promised[casts[c].m]
      BY <1>1, <1>4 DEF NewestRuns, Busy
    <2> QED
      BY <1>2, <1>8 DEF NewestRuns
  <1>10. \A q \in Firm : q # p => Coming(q)' = Coming(q)
    BY <1>1, <1>4, <1>6 DEF Coming, Due
  <1>11. Carried(p) = {}
    <2>1. inbox[p] = <<>>
      BY <1>1, <1>2 DEF Fresh
    <2>2. DOMAIN inbox[p] = {}
      BY <2>1, SMT
    <2> QED
      BY <2>2 DEF Carried
  <1>12. p \notin lost => p \notin early /\ \A m \in Ids : live[p][m] = 0
    BY <1>1, <1>2 DEF Untouched
  <1>13. \A q \in Kept' : (q = p /\ p \notin lost) \/ (q # p /\ q \in Kept)
    BY <1>1 DEF Kept
  <1>14. Reaches'
    <2> SUFFICES ASSUME NEW q \in Kept', NEW m \in Ids, promised[m] > 0, Heard(q, m)'
                 PROVE  live[q][m] = promised[m] \/ [m |-> m, v |-> promised[m]] \in Coming(q)'
      BY <1>1, <1>4 DEF Reaches
    <2>1. CASE q = p /\ p \notin lost
      <3>1. PICK c \in Casts : p \in Visits(casts[c], subs') /\ casts[c].m = m
        <4>1. \E f \in Coming(p)' : f.m = m
          BY <1>1, <1>12, <2>1 DEF Heard
        <4>2. Coming(p)' = Due(p)'
          BY <1>4, <1>11 DEF Coming
        <4>3. \A f \in Due(p)' : \E c \in Casts : p \in Visits(casts[c], subs') /\ casts[c].m = f.m
          <5>1. \A f \in Due(p)' : \E c \in Casts' : p \in Visits(casts'[c], subs') /\ casts'[c].m = f.m
            BY DEF Due, FrameOf
          <5> QED
            BY <1>1, <1>4, <5>1
        <4> QED
          BY <4>1, <4>2, <4>3
      <3>2. Busy(casts[c])
        BY <1>7, <3>1 DEF Busy
      <3>3. PICK d \in Casts : casts[d].m = m /\ casts[d].v = promised[m]
        BY <1>2, <3>1, <3>2 DEF NewestRuns
      <3>4. p \in Visits(casts[d], subs')
        <4>1. CASE casts[c].v = casts[d].v
          BY <1>2, <3>1, <3>3, <4>1 DEF Apart
        <4>2. CASE casts[c].v # casts[d].v
          <5>1. casts[c].v <= casts[d].v
            BY <1>2, <3>1, <3>3 DEF NotAhead
          <5>2. casts[c].v < casts[d].v
            BY <4>2, <5>1, CastsAreTyped, SMT
          <5> QED
            BY <1>1, <1>3, <1>4, <3>1, <3>3, <5>2 DEF InTurn, Older
        <4> QED BY <4>1, <4>2
      <3>5. FrameOf(casts[d]) \in Coming(p)'
        BY <1>1, <1>4, <3>4 DEF Coming, Due, FrameOf
      <3> QED
        BY <2>1, <3>3, <3>5 DEF FrameOf
    <2>2. CASE q # p /\ q \in Kept
      <3>1. Coming(q)' = Coming(q)
        BY <1>10, <2>2 DEF Kept
      <3>2. Heard(q, m)
        BY <1>1, <3>1 DEF Heard
      <3> QED
        BY <1>2, <2>2, <3>1, <3>2 DEF Reaches
    <2> QED BY <1>13, <2>1, <2>2
  <1>15. Asked'
    <2> SUFFICES ASSUME NEW q \in early \cap Kept', NEW m \in Ids
                 PROVE  /\ initial[q][m] <= object[m]
                        /\ m \in Watched(q) \cap stored => Heard(q, m)' \/ initial[q][m] >= promised[m]
      BY <1>1, <1>4 DEF Asked
    <2>1. q # p /\ q \in Kept
      BY <1>12, <1>13
    <2>2. Coming(q)' = Coming(q)
      BY <1>10, <2>1 DEF Kept
    <2>3. Heard(q, m)' <=> Heard(q, m)
      BY <1>1, <2>2 DEF Heard
    <2> QED
      BY <1>2, <2>1, <2>3 DEF Asked
  <1> QED
    BY <1>5, <1>9, <1>14, <1>15 DEF QuietInv

\* The steps after which no page that stays has been sent, or shown, more or less.
LEMMA StillQuiet ==
    ASSUME QuietInv, PromiseMade', UNCHANGED <<casts, live>>,
           \A p \in Firm : inbox'[p] = inbox[p],
           Firm \cap subs' = Firm \cap subs, Firm \cap open' = Firm \cap open,
           Firm \cap lost' = Firm \cap lost,
           \A p \in Firm : p \in early' => p \in early \/ p \in open,
           \A m \in Ids : promised'[m] = promised[m] \/ promised'[m] = 0,
           \A c \in Casts : casts[c].m \in Ids,
           \A p \in Firm : \A f \in Carried(p) : f.m \in Ids,
           Silent', Asked'
    PROVE  QuietInv'
  <1>1. /\ NotAhead /\ Silent /\ Untouched /\ OnTopic /\ NewestRuns /\ Reaches
    BY DEF QuietInv
  <1>2. \A p \in Firm : (p \in subs' <=> p \in subs) /\ (p \in open' <=> p \in open) /\ (p \in lost' <=> p \in lost)
    OBVIOUS
  <1>3. Casts' = Casts
    BY DEF Casts
  <1>4. \A p \in Firm : Carried(p)' = Carried(p) /\ Coming(p)' = Coming(p)
    BY <1>2, ComingStill
  <1>5. ~(0 > 0)
    BY SMT
  <1>6. NotAhead'
    BY <1>1, <1>3, <1>4, <1>5 DEF NotAhead
  <1>7. Untouched' /\ OnTopic'
    BY <1>1, <1>2, <1>4 DEF Untouched, OnTopic
  <1>8. \A c \in Casts : Busy(casts[c])' => Busy(casts[c])
    <2>1. \A c \in Casts, p \in Firm : p \in Visits(casts[c], subs') <=> p \in Visits(casts[c], subs)
      BY SameVisits
    <2> QED
      BY <2>1 DEF Busy
  <1>9. NewestRuns'
    <2> SUFFICES ASSUME NEW c \in Casts, promised'[casts[c].m] > 0, Busy(casts[c])'
                 PROVE  \E d \in Casts : casts[d].m = casts[c].m /\ casts[d].v = promised'[casts[c].m]
      BY <1>3 DEF NewestRuns, Busy
    <2>1. promised'[casts[c].m] = promised[casts[c].m]
      BY <1>5
    <2> QED
      BY <1>1, <1>8, <2>1 DEF NewestRuns
  <1>10. \A p \in Kept', m \in Ids : p \in Kept /\ Heard(p, m)' = Heard(p, m)
    BY <1>2, <1>4 DEF Kept, Heard
  <1>11. Reaches'
    <2> SUFFICES ASSUME NEW p \in Kept', NEW m \in Ids, promised'[m] > 0, Heard(p, m)'
                 PROVE  live[p][m] = promised'[m] \/ [m |-> m, v |-> promised'[m]] \in Coming(p)'
      BY DEF Reaches
    <2>1. p \in Kept /\ p \in Firm /\ Heard(p, m) /\ promised'[m] = promised[m]
      BY <1>5, <1>10 DEF Kept
    <2> QED
      BY <1>1, <1>4, <2>1 DEF Reaches
  <1> QED
    BY <1>6, <1>7, <1>9, <1>11 DEF QuietInv

LEMMA KillQuiet == ASSUME HubTypes, ForwardInv, QuietInv, Kill PROVE QuietInv'
  <1>1. PromiseMade'
    BY PromiseStep DEF Kill, QuietInv, HubTypes, StoreNext
  <1>2. Casts' = {} /\ open' = {} /\ lost' = lost \cup open /\ UNCHANGED <<early, live>>
    BY DEF Kill, Casts
  <1>3. ASSUME NEW p \in Firm PROVE Carried(p)' = {}
    <2>1. inbox'[p] = <<>>
      BY DEF Kill, Firm
    <2>2. DOMAIN inbox'[p] = {}
      BY <2>1, SMT
    <2> QED
      BY <2>2 DEF Carried
  <1>4. Untouched /\ OnTopic
    BY DEF QuietInv
  <1> QED
    BY <1>1, <1>2, <1>3, <1>4 DEF QuietInv, NotAhead, Silent, Untouched, OnTopic, NewestRuns,
                                 Reaches, Asked, Kept

LEMMA QuietInit == ASSUME Init PROVE QuietInv
  <1>1. DOMAIN file = {} /\ stored = {}
    BY DEF Init, StoreInit
  <1>2. /\ Casts = {} /\ open = {} /\ early = {} /\ serving
        /\ \A p \in Pages, m \in Ids : live[p][m] = 0
    BY DEF Init, Casts
  <1>3. ASSUME NEW p \in Firm PROVE Carried(p) = {}
    <2>1. inbox[p] = <<>>
      BY DEF Init, Firm
    <2>2. DOMAIN inbox[p] = {}
      BY <2>1, SMT
    <2> QED
      BY <2>2 DEF Carried
  <1> QED
    BY <1>1, <1>2, <1>3 DEF QuietInv, PromiseMade, NotAhead, Silent, Untouched, OnTopic, NewestRuns,
                            Reaches, Asked, Kept, Firm

\* What a page was answered does not change while nothing is saved or sent.
LEMMA AskedStill ==
    ASSUME HubTypes, Asked, UNCHANGED <<casts, live>>, \A p \in Firm : inbox'[p] = inbox[p],
           Firm \cap subs' = Firm \cap subs, early' \cap Kept' \subseteq early \cap Kept,
           stored' \subseteq stored, \A m \in Ids : object[m] <= object'[m] /\ object'[m] \in Nat,
           \A m \in stored' : promised'[m] = promised[m],
           \A p \in early : initial'[p] = initial[p]
    PROVE  Asked'
  <1> SUFFICES ASSUME NEW p \in early' \cap Kept', NEW m \in Ids
               PROVE  /\ initial'[p][m] <= object'[m]
                      /\ m \in Watched(p)' \cap stored' => Heard(p, m)' \/ initial'[p][m] >= promised'[m]
    BY DEF Asked
  <1>1. p \in early /\ p \in Kept /\ p \in Firm /\ p \in Pages /\ initial'[p] = initial[p]
    BY DEF Kept, Firm
  <1>2. Coming(p)' = Coming(p)
    BY <1>1, ComingStill
  <1>3. Heard(p, m)' <=> Heard(p, m)
    BY <1>2 DEF Heard
  <1>4. Watched(p)' = Watched(p)
    BY <1>1 DEF Watched
  <1>5. initial[p][m] \in Nat /\ object[m] \in Nat /\ initial[p][m] <= object[m]
    <2>1. \A u \in 0..MaxVersion : u \in Nat
      BY StoreAssumption, SMT
    <2> QED
      BY <1>1, <2>1 DEF HubTypes, PageTypes, StoreInv, StoreTypeOK, Asked
  <1>6. initial[p][m] <= object'[m]
    BY <1>5, SMT
  <1> QED
    BY <1>1, <1>3, <1>4, <1>6 DEF Asked

LEMMA QuietStep ==
    ASSUME DroppingLast, HubTypes, PushInv, ForwardInv, QuietInv, [Next]_vars
    PROVE  QuietInv'
  <1>1. /\ PromiseMade /\ Silent /\ Asked /\ StoreInv /\ FirmStay /\ Fresh
        /\ object \in [Ids -> Nat] /\ promised \in [Ids -> Nat]
    BY DEF QuietInv, ForwardInv, HubTypes, StoreInv, StoreTypeOK
  <1>2. PromiseMade'
    BY <1>1, PromiseStep, HubStepsAreStoreSteps
  <1>3. /\ \A c \in Casts : casts[c].m \in Ids
        /\ \A p \in Firm : \A f \in Carried(p) : f.m \in Ids
    BY CastsAreTyped, CarriedAre DEF Firm
  <1>4. \A n \in Ids : object[n] \in Nat /\ object[n] <= object[n]
    BY <1>1, SMT
  <1>5. ASSUME NEW m \in Ids, Emit(m) PROVE QuietInv'
    BY <1>5, EmitQuiet
  <1>6. ASSUME NEW c \in 1..MaxCasts, Resume(c) PROVE QuietInv'
    BY <1>6, ResumeQuiet
  <1>7. ASSUME NEW p \in Pages, Receive(p) PROVE QuietInv'
    BY <1>7, ReceiveQuiet
  <1>8. CASE Kill
    BY <1>8, KillQuiet
  <1>9. ASSUME NEW m \in Ids, Reconcile(m) PROVE QuietInv'
    <2>1. /\ ~serving /\ open = {} /\ Casts = {} /\ UNCHANGED <<hubVars, pageVars>>
      BY <1>1, <1>9 DEF Reconcile, Silent
    <2>2. Casts' = {} /\ open' = {} /\ UNCHANGED <<early, live, lost, inbox>>
      BY <2>1 DEF hubVars, pageVars, Casts
    <2>3. ASSUME NEW p \in Firm PROVE Carried(p)' = {}
      <3>1. inbox'[p] = <<>>
        BY <1>1, <2>1, <2>2 DEF Fresh
      <3>2. DOMAIN inbox'[p] = {}
        BY <3>1, SMT
      <3> QED
        BY <3>2 DEF Carried
    <2>4. Untouched /\ OnTopic
      BY DEF QuietInv
    <2> QED
      BY <1>2, <2>1, <2>2, <2>3, <2>4 DEF QuietInv, NotAhead, Silent, Untouched, OnTopic, NewestRuns,
                                          Reaches, Asked, Kept
  <1>10. ASSUME NEW m \in Ids, Alone(Touch(m) \/ Delete(m)) PROVE QuietInv'
    <2>1. UNCHANGED <<serving, subs, casts, waiting, open, inbox, initial, live, early, lost>>
      BY <1>10 DEF Alone, hubVars, pageVars
    <2>2. /\ stored' \subseteq stored
          /\ \A n \in Ids : object'[n] \in Nat /\ object[n] <= object'[n]
          /\ \A n \in Ids : promised'[n] = promised[n] \/ promised'[n] = 0
          /\ \A n \in stored' : promised'[n] = promised[n]
      <3>1. CASE Touch(m)
        <4>1. \A n \in Ids : object'[n] \in Nat /\ object[n] <= object'[n]
          BY <1>1, <3>1, SMT DEF Touch
        <4> QED
          BY <3>1, <4>1 DEF Touch
      <3>2. CASE Delete(m)
        <4>1. stored \subseteq Ids
          BY <1>1 DEF StoreInv, StoreTypeOK
        <4> QED
          BY <1>1, <1>4, <3>2, <4>1 DEF Delete
      <3> QED
        BY <1>10, <3>1, <3>2 DEF Alone
    <2>3. Silent'
      BY <1>1, <2>1 DEF Silent, Casts
    <2>4. Asked'
      BY <1>1, <2>1, <2>2, AskedStill DEF Kept
    <2> QED
      BY <1>2, <1>3, <2>1, <2>2, <2>3, <2>4, StillQuiet
  <1>11. CASE UNCHANGED storeVars /\ UNCHANGED <<subs, casts, waiting, pageVars>> /\ (Serve \/ UNCHANGED serving)
    <2>1. Silent'
      BY <1>1, <1>11 DEF Silent, Casts, pageVars, Serve
    <2>2. Asked'
      BY <1>1, <1>4, <1>11, AskedStill DEF Kept, pageVars, storeVars
    <2> QED
      BY <1>2, <1>3, <1>11, <2>1, <2>2, StillQuiet DEF pageVars, storeVars
  <1>12. ASSUME NEW p \in Pages, Connect(p) PROVE QuietInv'
    <2>1. CASE p \in Firm
      BY <1>12, <2>1, ConnectQuiet
    <2>2. CASE p \notin Firm
      <3>1. /\ Firm \cap subs' = Firm \cap subs /\ Firm \cap open' = Firm \cap open
            /\ Kept' = Kept /\ serving /\ serving'
            /\ UNCHANGED <<storeVars, casts, waiting, inbox, initial, live, early, lost>>
        BY <1>12, <2>2 DEF Connect, Kept
      <3>2. Silent'
        BY <3>1 DEF Silent
      <3>3. Asked'
        BY <1>1, <1>4, <3>1, AskedStill DEF storeVars
      <3> QED
        BY <1>2, <1>3, <3>1, <3>2, <3>3, StillQuiet DEF storeVars
    <2> QED BY <2>1, <2>2
  <1>13. ASSUME NEW p \in Pages, Drop(p) PROVE QuietInv'
    <2>1. /\ Firm \cap open' = Firm \cap open /\ Firm \cap lost' = Firm \cap lost /\ Kept' = Kept
          /\ UNCHANGED <<storeVars, serving, subs, casts, waiting, initial, live, early>>
          /\ open' \subseteq open
      BY <1>13 DEF Drop, Firm, Kept, hubVars
    <2>2. \A q \in Firm : inbox'[q] = inbox[q]
      BY <1>13 DEF Drop, Firm, HubTypes, InboxTypes
    <2>3. Silent'
      BY <1>1, <2>1 DEF Silent, Casts
    <2>4. Asked'
      BY <1>1, <1>4, <2>1, <2>2, AskedStill DEF storeVars
    <2> QED
      BY <1>2, <1>3, <2>1, <2>2, <2>3, <2>4, StillQuiet DEF storeVars
  <1>14. ASSUME NEW p \in Pages, Unregister(p) PROVE QuietInv'
    <2>1. /\ Firm \cap subs' = Firm \cap subs
          /\ UNCHANGED <<storeVars, serving, casts, waiting, pageVars>>
      BY <1>1, <1>14 DEF Unregister, FirmStay
    <2>2. Silent'
      BY <1>1, <2>1 DEF Silent, Casts, pageVars
    <2>3. Asked'
      BY <1>1, <1>4, <2>1, AskedStill DEF storeVars, pageVars, Kept
    <2> QED
      BY <1>2, <1>3, <2>1, <2>2, <2>3, StillQuiet DEF storeVars, pageVars
  <1>15. ASSUME NEW p \in Pages, Answer(p) PROVE QuietInv'
    <2>1. /\ UNCHANGED <<storeVars, hubVars, open, inbox, live, lost, drops>>
          /\ p \notin early /\ early' \subseteq early \cup {p}
          /\ early' = IF p \in open THEN early \cup {p} ELSE early
          /\ \A q \in Pages : q # p => initial'[q] = initial[q]
      BY <1>15 DEF Answer, HubTypes, PageTypes
    <2>2. \A m \in Ids : initial'[p][m] \in {0, object[m]}
      BY <1>15 DEF Answer, HubTypes, PageTypes
    <2>3. \A m \in Watched(p)' \cap stored : m \in Ids => initial'[p][m] = object[m]
      BY <1>15 DEF Answer, HubTypes, PageTypes, Watched
    <2>4. Silent'
      BY <1>1, <2>1 DEF Silent, Casts, hubVars
    <2>5. Asked'
      <3> SUFFICES ASSUME NEW q \in early' \cap Kept, NEW m \in Ids
                   PROVE  /\ initial'[q][m] <= object[m]
                          /\ m \in Watched(q)' \cap stored => Heard(q, m)' \/ initial'[q][m] >= promised[m]
        BY <2>1 DEF Asked, Kept, storeVars
      <3>1. CASE q = p
        <4>1. initial'[p][m] <= object[m]
          BY <1>1, <2>2, SMT
        <4>2. m \in stored => promised[m] <= object[m] /\ object[m] >= promised[m]
          <5>1. m \in stored => promised[m] <= file[m] /\ file[m] <= object[m] /\ file[m] \in Nat
            BY <1>1 DEF PromiseMade, StoreInv, StoreTypeOK, FileBehind
          <5>2. object[m] \in Nat /\ promised[m] \in Nat
            BY <1>1
          <5> QED
            BY <5>1, <5>2, SMT
        <4> QED
          BY <2>3, <3>1, <4>1, <4>2
      <3>2. CASE q # p
        <4>1. q \in early /\ q \in Firm /\ q \in Pages /\ initial'[q] = initial[q]
          BY <2>1, <3>2 DEF Kept, Firm
        <4>2. Coming(q)' = Coming(q)
          BY <2>1, <4>1, ComingStill DEF hubVars
        <4>3. Heard(q, m)' <=> Heard(q, m)
          BY <2>1, <4>2 DEF Heard
        <4>4. Watched(q)' = Watched(q)
          BY <4>1 DEF Watched
        <4> QED
          BY <1>1, <4>1, <4>3, <4>4 DEF Asked
      <3> QED BY <3>1, <3>2
    <2> QED
      BY <1>2, <1>3, <2>1, <2>4, <2>5, StillQuiet DEF storeVars, hubVars
  <1>16. ASSUME Serve PROVE QuietInv'
    BY <1>11, <1>16 DEF Serve
  <1>17. ASSUME UNCHANGED vars PROVE QuietInv'
    BY <1>11, <1>17 DEF vars, hubVars
  <1> QED
    BY <1>5, <1>6, <1>7, <1>8, <1>9, <1>10, <1>12, <1>13, <1>14, <1>15, <1>16, <1>17 DEF Next

\* What PageConverges comes to when things are quiet, for every number of migrations,
\* pages and concurrent broadcasts, any number of records that do not load again, and
\* across restarts: a page that was registered when its request was answered, and has
\* kept its connection, shows a record as it is once its latest change was emitted and
\* nothing of it is under way to the page; if a broadcast comes to the connections that
\* may fail after the others.
THEOREM QuietPagesShowRecords == ASSUME DroppingLast PROVE Spec => []QuietPagesAreRight
  <1> DEFINE Inv == HubTypes /\ PushInv /\ ForwardInv /\ QuietInv
  <1>1. Init => Inv
    BY HubTypesInit, PushInit, ForwardInit, QuietInit
  <1>2. Inv /\ [Next]_vars => Inv'
    BY HubTypesStep, PushStep, ForwardStep, QuietStep
  <1>3. Inv => QuietPagesAreRight
    BY KernelIsRight DEF PushInv
  <1> HIDE DEF Inv
  <1> QED
    BY <1>1, <1>2, <1>3, PTL DEF Spec
================================================================================
