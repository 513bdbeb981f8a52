-------------------------- MODULE ChangeCaptureProofs --------------------------
(***************************************************************************)
(* Change capture: proofs for every number of keys and shards, every       *)
(* history and every page size, of all five connectors: nothing goes       *)
(* backwards, a load reconciles, a saved checkpoint is written, and no     *)
(* change falls between load, stream, stop, crash and restart but those    *)
(* the source keeps from the stream.                                       *)
(***************************************************************************)
EXTENDS ChangeCapture, FiniteSetTheorems, WellFoundedInduction, TLAPS

-------------------------------------------------------------------------------
(* Least and greatest elements *)

LEMMA LeastExists ==
    ASSUME NEW S \in SUBSET Nat, S # {} PROVE \E x \in S : \A y \in S : x <= y
  <1>1. PICK x \in S : \A y \in S : ~(<<y, x>> \in OpToRel(<, Nat))
    BY NatLessThanWellFounded, WFMin
  <1>2. \A y \in S : ~(y < x)
    BY <1>1 DEF OpToRel
  <1> QED
    BY <1>2, SMT

LEMMA MinIsLeast ==
    ASSUME NEW S \in SUBSET Nat, S # {} PROVE Min(S) \in S /\ \A y \in S : Min(S) <= y
BY LeastExists DEF Min

LEMMA MaxIsGreatest ==
    ASSUME NEW n \in Nat, NEW S \in SUBSET (0..n), S # {}
    PROVE  Max(S) \in S /\ \A y \in S : Max(S) >= y
  <1> DEFINE T == {n - x : x \in S}
  <1>0. \A x \in 0..n : n - x \in Nat
    BY SMT
  <1>1. T \in SUBSET Nat /\ T # {}
    BY <1>0
  <1>2. PICK t \in T : \A u \in T : t <= u
    BY <1>1, LeastExists
  <1>3. PICK x \in S : t = n - x
    OBVIOUS
  <1>4. \A y \in S : n - x <= n - y
    BY <1>2, <1>3
  <1>5. ASSUME NEW y \in S PROVE x >= y
    <2>1. n - x <= n - y /\ x \in Int /\ y \in Int
      BY <1>4
    <2> QED
      BY <2>1, SMT
  <1> QED
    BY <1>5 DEF Max

-------------------------------------------------------------------------------
(* The history *)

Entry == [key : Keys, op : Operations, time : Nat, shard : Shards]
History == log \in Seq(Entry)

LEMMA LastOfKey ==
    ASSUME History, NEW k \in Keys
    PROVE  /\ Last(k) \in 0..Len(log)
           /\ Last(k) # 0 => Last(k) \in DOMAIN log /\ log[Last(k)].key = k
           /\ \A i \in DOMAIN log : log[i].key = k => i <= Last(k)
  <1>1. Len(log) \in Nat /\ DOMAIN log = 1..Len(log)
    BY SMT DEF History
  <1> DEFINE S == {0} \cup Changes(k, Len(log))
  <1>2. S \in SUBSET (0..Len(log)) /\ S # {}
    BY <1>1, SMT DEF Changes
  <1>3. Max(S) \in S /\ \A y \in S : Max(S) >= y
    BY <1>1, <1>2, MaxIsGreatest
  <1>4. Last(k) \in S /\ \A y \in S : Last(k) >= y
    BY <1>3 DEF Last
  <1>5. \A i \in DOMAIN log : log[i].key = k => i \in S
    BY <1>1 DEF Changes
  <1>6. \A i \in DOMAIN log : i \in Int
    BY <1>1
  <1>7. Last(k) \in 0..Len(log)
    BY <1>2, <1>4
  <1>8. Last(k) # 0 => Last(k) \in DOMAIN log /\ log[Last(k)].key = k
    BY <1>4 DEF Changes
  <1>9. \A i \in DOMAIN log : log[i].key = k => i <= Last(k)
    BY <1>4, <1>5, <1>6, <1>7, SMT
  <1> QED
    BY <1>7, <1>8, <1>9

\* The same of every state, and so of the next one.
LastIsLast ==
    \A k \in Keys :
       /\ Last(k) \in 0..Len(log)
       /\ Last(k) # 0 => Last(k) \in DOMAIN log /\ log[Last(k)].key = k
       /\ \A i \in DOMAIN log : log[i].key = k => i <= Last(k)

LEMMA LastOfKeyNext == History' => LastIsLast'
  <1>1. History => LastIsLast
    BY LastOfKey DEF LastIsLast
  <1> QED
    BY <1>1, PTL

\* It is the only such change.
LEMMA LastIsUnique ==
    ASSUME History, NEW k \in Keys, NEW i \in DOMAIN log, log[i].key = k,
           \A j \in DOMAIN log : log[j].key = k => j <= i
    PROVE  Last(k) = i
  <1>1. i \in Nat /\ i # 0
    BY SMT DEF History
  <1>2. i <= Last(k) /\ Last(k) \in Nat
    BY LastOfKey
  <1>3. Last(k) # 0
    BY <1>1, <1>2, SMT
  <1>4. Last(k) <= i
    BY <1>3, LastOfKey
  <1> QED
    BY <1>1, <1>2, <1>4, SMT

LEMMA DocIsNat == ASSUME History, NEW i \in Nat PROVE Doc(i) \in {0, i} /\ Doc(i) \in Nat
BY DEF Doc

LEMMA CurrentIsNat == ASSUME History, NEW k \in Keys PROVE Current(k) \in Nat
  <1>1. Last(k) \in Nat
    BY LastOfKey
  <1> QED
    BY <1>1, DocIsNat DEF Current

\* What a change does to the history: the key it is about, and no other.
LEMMA ChangeAppends ==
    ASSUME History, home \in [Keys -> Shards], NEW k \in Keys, NEW op \in Operations, Change(k, op)
    PROVE  /\ History'
           /\ Len(log') = Len(log) + 1
           /\ log'[Len(log) + 1].key = k /\ log'[Len(log) + 1].shard = home[k]
           /\ \A i \in DOMAIN log : i \in DOMAIN log' /\ log'[i] = log[i]
  <1>1. Now \in Nat
    <2>1. CASE log = <<>>
      BY <2>1 DEF Now
    <2>2. CASE log # <<>>
      <3>1. log[Len(log)] \in Entry
        BY <2>2, SMT DEF History
      <3> QED
        BY <2>2, <3>1 DEF Now, Entry
    <2> QED BY <2>1, <2>2
  <1>2. PICK time \in {Now + 1, Now} : log' = Append(log, [key |-> k, op |-> op, time |-> time, shard |-> home[k]])
    BY DEF Change
  <1>3. [key |-> k, op |-> op, time |-> time, shard |-> home[k]] \in Entry
    BY <1>1, SMT DEF Entry
  <1>4. PICK e \in Entry : e.key = k /\ e.shard = home[k] /\ log' = Append(log, e)
    BY <1>2, <1>3
  <1>5. log' \in Seq(Entry) /\ Len(log') = Len(log) + 1 /\ log'[Len(log) + 1] = e
    BY <1>4, SMT DEF History
  <1>6. \A i \in DOMAIN log : i \in DOMAIN log' /\ log'[i] = log[i]
    BY <1>4, SMT DEF History
  <1> QED
    BY <1>4, <1>5, <1>6 DEF History

LEMMA ChangeOfOne ==
    ASSUME History, home \in [Keys -> Shards], NEW k \in Keys, NEW op \in Operations, Change(k, op)
    PROVE  /\ Last(k)' = Len(log) + 1
           /\ \A q \in Keys \ {k} : Last(q)' = Last(q) /\ Current(q)' = Current(q)
  <1>1. /\ History'
        /\ Len(log') = Len(log) + 1 /\ Len(log) \in Nat
        /\ log'[Len(log) + 1].key = k
        /\ \A i \in DOMAIN log : i \in DOMAIN log' /\ log'[i] = log[i]
    BY ChangeAppends, SMT DEF History
  <1>2. DOMAIN log' = 1..(Len(log) + 1) /\ DOMAIN log = 1..Len(log)
    BY <1>1, SMT DEF History
  <1>3. Last(k)' = Len(log) + 1
    <2>1. Len(log) + 1 \in DOMAIN log' /\ \A j \in DOMAIN log' : j <= Len(log) + 1
      BY <1>1, <1>2, SMT
    <2>2. Len(log) + 1 <= Last(k)' /\ Last(k)' \in 0..Len(log')
      BY <1>1, <2>1, LastOfKeyNext DEF LastIsLast
    <2> QED
      BY <1>1, <2>2, SMT
  <1>4. ASSUME NEW q \in Keys \ {k} PROVE Last(q)' = Last(q) /\ Current(q)' = Current(q)
    <2>1. Changes(q, Len(log))' = Changes(q, Len(log))
      BY <1>1, <1>2, SMT DEF Changes
    <2>2. Last(q)' = Last(q)
      BY <2>1 DEF Last
    <2>3. Last(q) # 0 => Last(q) \in DOMAIN log
      BY LastOfKey
    <2> QED
      BY <1>1, <2>2, <2>3 DEF Current, Doc
  <1> QED
    BY <1>3, <1>4

-------------------------------------------------------------------------------
(* Types *)

ShardOf == source.shardOf

Item == [key : Keys, doc : Nat, mark : SUBSET Position, landed : BOOLEAN]
Row == [key : Keys, doc : Nat, time : Nat]

LEMMA TypesNamed ==
    TypeOK <=> /\ source \in Sources
               /\ History
               /\ run \in {"off", "load", "stream", "stopping"}
               /\ home \in [Keys -> Shards]
               /\ toRead \in SUBSET Keys /\ watched \in SUBSET Shards
               /\ seen \in Position /\ ckpt \in Position /\ saved \in Position
               /\ rows \in SUBSET Row
               /\ hand \in SUBSET Item
               /\ dest \in [Keys -> Nat]
               /\ refused \in SUBSET Keys /\ astray \in SUBSET Keys
               /\ from \in SUBSET Nat
               /\ base \in Nat /\ runs \in Nat
BY DEF TypeOK, History, Entry, Item, Row

LEMMA SourceTypes ==
    ASSUME TypeOK
    PROVE  source \in Source /\ \A k \in Keys : ShardOf[k] \in Shards
BY CaptureAssumption DEF TypeOK, Source, ShardOf

LEMMA EntryTypes ==
    ASSUME History
    PROVE  \A i \in DOMAIN log : log[i] \in Entry /\ log[i].key \in Keys /\ log[i].shard \in Shards
  <1>1. \A i \in DOMAIN log : log[i] \in Entry
    BY SMT DEF History
  <1> QED
    BY <1>1 DEF Entry

LEMMA LogLength == ASSUME History PROVE Len(log) \in Nat /\ DOMAIN log = 1..Len(log)
BY SMT DEF History

LEMMA OpenAtType == ASSUME TypeOK PROVE OpenAt \in Position
  <1>1. Len(log) \in Nat
    BY LogLength, TypesNamed
  <1> QED
    BY <1>1 DEF OpenAt, EndOfLog, Position, TypeOK

LEMMA OpenStreamType ==
    ASSUME TypeOK, OpenStream
    PROVE  /\ run' \in {"off", "load", "stream", "stopping"}
           /\ seen' \in Position /\ rows' \in SUBSET Row /\ from' \in SUBSET Nat
           /\ watched' \in SUBSET Shards /\ toRead' = {}
  <1> DEFINE S == {OpenAt[s] : s \in Shards}
  <1>1. S \in SUBSET Nat /\ S # {}
    BY OpenAtType, CaptureAssumption DEF Position
  <1>2. Min(S) \in Nat
    BY <1>1, MinIsLeast
  <1>3. from' = IF from # {} THEN from ELSE {IF Hybrid THEN 0 ELSE Min(S)}
    BY DEF OpenStream
  <1> HIDE DEF S
  <1>4. from' \in SUBSET Nat
    BY <1>2, <1>3 DEF TypeOK
  <1>5. watched' \in SUBSET Shards
    <2>1. \A k \in Keys : home[k] \in Shards
      BY DEF TypeOK
    <2>2. \A i \in DOMAIN log : log[i].shard \in Shards
      BY EntryTypes, TypesNamed
    <2> QED
      BY <2>1, <2>2 DEF OpenStream
  <1> QED
    BY <1>4, <1>5, OpenAtType DEF OpenStream

LEMMA YieldType ==
    ASSUME TypeOK, NEW k \in Keys, NEW doc \in Nat, NEW mark \in SUBSET Position, Yield(k, doc, mark)
    PROVE  hand' \in SUBSET Item
  <1>1. [key |-> k, doc |-> doc, mark |-> mark, landed |-> FALSE] \in Item
    BY DEF Item
  <1>2. hand \in SUBSET Item
    BY TypesNamed
  <1> QED
    BY <1>1, <1>2 DEF Yield

LEMMA ChangeType ==
    ASSUME TypeOK, UNCHANGED source, NEW k \in Keys, NEW op \in Operations, Change(k, op)
    PROVE  TypeOK'
  <1>1. History'
    BY ChangeAppends, TypesNamed
  <1>2. astray' \in SUBSET Keys
    BY DEF Change, TypeOK
  <1> QED
    BY <1>1, <1>2 DEF Change, TypeOK, History, Entry

LEMMA SplitType == ASSUME TypeOK, UNCHANGED source, Split PROVE TypeOK'
  <1>1. home' \in [Keys -> Shards]
    <2>1. PICK parent \in Shards :
             \E moved \in [{k \in Keys : home[k] = parent} -> Fresh] :
                home' = [k \in Keys |-> IF home[k] = parent THEN moved[k] ELSE home[k]]
      BY DEF Split
    <2>2. PICK moved \in [{k \in Keys : home[k] = parent} -> Fresh] :
             home' = [k \in Keys |-> IF home[k] = parent THEN moved[k] ELSE home[k]]
      BY <2>1
    <2>3. \A k \in Keys : (IF home[k] = parent THEN moved[k] ELSE home[k]) \in Shards
      BY <2>2 DEF Fresh, TypeOK
    <2> QED
      BY <2>2, <2>3
  <1> QED
    BY <1>1 DEF Split, TypeOK

LEMMA BlipType == ASSUME TypeOK, UNCHANGED source, Blip PROVE TypeOK'
  <1>1. seen' \in Position
    <2>1. Len(log) \in Nat
      BY LogLength, TypesNamed
    <2> QED
      BY <2>1 DEF Blip, EndOfLog, Position
  <1>2. astray' \in SUBSET Keys
    BY DEF Blip, TypeOK
  <1> QED
    BY <1>1, <1>2 DEF Blip, TypeOK

LEMMA StartType == ASSUME TypeOK, UNCHANGED source, Start PROVE TypeOK'
  <1>1. Len(log) \in Nat /\ runs + 1 \in Nat
    BY LogLength, TypesNamed, SMT
  <1>2. CASE OpenStream /\ UNCHANGED base
    BY <1>1, <1>2, OpenStreamType DEF Start, TypeOK, Row
  <1>3. CASE run' = "load" /\ toRead' = Keys /\ base' = Len(log) /\ UNCHANGED <<watched, seen, rows, from>>
    BY <1>1, <1>3 DEF Start, TypeOK
  <1> QED
    BY <1>2, <1>3 DEF Start

LEMMA ExtractType == ASSUME TypeOK, UNCHANGED source, NEW k \in Keys, Extract(k) PROVE TypeOK'
  <1>1. Current(k) \in Nat
    BY CurrentIsNat, TypesNamed
  <1>2. hand' \in SUBSET Item
    BY <1>1, YieldType, TypesNamed DEF Extract
  <1> QED
    BY <1>2 DEF Extract, TypeOK, Item

LEMMA LoadDoneType == ASSUME TypeOK, UNCHANGED source, LoadDone PROVE TypeOK'
BY OpenStreamType DEF LoadDone, TypeOK, Row

LEMMA NextUnread ==
    ASSUME TypeOK, NEW s \in Shards, Unread(s) # {}
    PROVE  /\ Min(Unread(s)) \in Unread(s) /\ Min(Unread(s)) \in Nat
           /\ Min(Unread(s)) \in DOMAIN log /\ log[Min(Unread(s))] \in Entry
           /\ \A j \in Unread(s) : Min(Unread(s)) <= j
  <1>1. Unread(s) \subseteq DOMAIN log /\ DOMAIN log \subseteq Nat
    BY LogLength, TypesNamed DEF Unread
  <1>2. Min(Unread(s)) \in Unread(s) /\ \A j \in Unread(s) : Min(Unread(s)) <= j
    BY <1>1, MinIsLeast
  <1>3. \A i \in DOMAIN log : log[i] \in Entry
    BY TypesNamed, SMT DEF History
  <1> QED
    BY <1>1, <1>2, <1>3

LEMMA DeliverType == ASSUME TypeOK, UNCHANGED source, NEW s \in Shards, Deliver(s) PROVE TypeOK'
  <1>1. PICK i \in Nat : i = Min(Unread(s)) /\ i \in DOMAIN log /\ log[i] \in Entry
    BY NextUnread DEF Deliver
  <1>2. log[i].key \in Keys
    BY <1>1 DEF Entry
  <1>3. seen' = [seen EXCEPT ![s] = i]
    BY <1>1 DEF Deliver
  <1>4. seen' \in Position
    BY <1>3 DEF TypeOK, Position
  <1>5. \A doc \in Delivered(i) : doc \in Nat
    <2>1. Len(log) \in Nat /\ \A j \in Changes(log[i].key, Len(log)) : j \in Nat
      BY LogLength, TypesNamed DEF Changes
    <2>2. \A j \in Nat : Doc(j) \in Nat
      BY DocIsNat, TypesNamed
    <2>3. Current(log[i].key) \in Nat
      BY <1>2, CurrentIsNat, TypesNamed
    <2> QED
      BY <1>1, <2>1, <2>2, <2>3 DEF Delivered
  <1>6. hand' = hand \/ \E doc \in Delivered(i) : Yield(log[i].key, doc, Mark(s, seen'))
    BY <1>1 DEF Deliver
  <1>9. astray' \in SUBSET Keys
    BY <1>1, <1>2 DEF Deliver, TypeOK
  <1>7. Mark(s, seen') \in SUBSET Position
    BY <1>4 DEF Mark
  <1>8. hand' \in SUBSET Item
    BY <1>2, <1>5, <1>6, <1>7, YieldType, TypesNamed
  <1> QED
    BY <1>4, <1>8, <1>9 DEF Deliver, TypeOK, Item

LEMMA ShardIsOne == Shard \in Shards
BY CaptureAssumption DEF Shard

LEMMA FeedPageType == ASSUME TypeOK, UNCHANGED source, FeedPage PROVE TypeOK'
  <1> DEFINE ahead == {i \in DOMAIN log : i > seen[Shard] /\ i = Current(log[i].key)}
  <1> DEFINE page == {i \in ahead : Cardinality({j \in ahead : j <= i}) <= PageSize}
  <1>1. page # {} /\ rows' = {[key |-> log[i].key, doc |-> i, time |-> i] : i \in page}
        /\ seen' = [seen EXCEPT ![Shard] = Max(page)]
    BY DEF FeedPage
  <1>2. page \subseteq DOMAIN log /\ DOMAIN log \subseteq 0..Len(log) /\ Len(log) \in Nat
    BY LogLength, TypesNamed, SMT
  <1>3. \A i \in DOMAIN log : log[i].key \in Keys /\ i \in Nat
    <2>1. \A i \in DOMAIN log : log[i] \in Entry
      BY TypesNamed, SMT DEF History
    <2> QED
      BY <1>2, <2>1 DEF Entry
  <1> HIDE DEF page
  <1>4. Max(page) \in Nat
    <2>1. page \in SUBSET (0..Len(log))
      BY <1>2
    <2>2. Max(page) \in page
      BY <1>1, <1>2, <2>1, MaxIsGreatest
    <2> QED
      BY <1>2, <1>3, <2>2
  <1>5. rows' \in SUBSET Row
    BY <1>1, <1>2, <1>3 DEF Row
  <1>6. seen' \in Position
    BY <1>1, <1>4 DEF TypeOK, Position
  <1> QED
    BY <1>5, <1>6 DEF FeedPage, TypeOK, Row

LEMMA FeedItemType == ASSUME TypeOK, UNCHANGED source, NEW r \in rows, FeedItem(r) PROVE TypeOK'
  <1>1. r.key \in Keys /\ r.doc \in Nat /\ {seen} \in SUBSET Position
    BY DEF TypeOK
  <1>2. hand' \in SUBSET Item
    BY <1>1, YieldType DEF FeedItem
  <1> QED
    BY <1>2 DEF FeedItem, TypeOK, Item

LEMMA WriteTimeIsNat == ASSUME TypeOK, NEW k \in Keys PROVE WriteTime(k) \in Nat
  <1> DEFINE puts == {i \in Changes(k, Len(log)) : log[i].op = "put"}
  <1>1. puts \subseteq DOMAIN log /\ puts \in SUBSET (0..Len(log)) /\ Len(log) \in Nat
    BY LogLength, TypesNamed, SMT DEF Changes
  <1>2. \A i \in DOMAIN log : log[i].time \in Nat
    <2>1. \A i \in DOMAIN log : log[i] \in Entry
      BY TypesNamed, SMT DEF History
    <2> QED
      BY <2>1 DEF Entry
  <1>3. WriteTime(k) = IF puts = {} THEN 0 ELSE log[Max(puts)].time
    BY DEF WriteTime
  <1> HIDE DEF puts
  <1>4. puts # {} => Max(puts) \in puts
    BY <1>1, MaxIsGreatest
  <1> QED
    BY <1>1, <1>2, <1>3, <1>4

LEMMA PollType == ASSUME TypeOK, UNCHANGED source, Poll PROVE TypeOK'
BY DEF Poll, TypeOK

LEMMA PollReadType == ASSUME TypeOK, UNCHANGED source, NEW k \in Keys, PollRead(k) PROVE TypeOK'
  <1>1. [key |-> k, doc |-> Current(k), time |-> WriteTime(k)] \in Row
    BY WriteTimeIsNat, CurrentIsNat, TypesNamed DEF Row
  <1>2. rows' \in SUBSET Row
    BY <1>1, TypesNamed DEF PollRead
  <1> QED
    BY <1>2 DEF PollRead, TypeOK, Row

LEMMA PairMax == ASSUME NEW a \in Nat, NEW b \in Nat PROVE Max({a, b}) \in Nat
  <1>1. {a, b} \in SUBSET (0..(a + b)) /\ a + b \in Nat
    BY SMT
  <1> QED
    BY <1>1, MaxIsGreatest

LEMMA PollRowType == ASSUME TypeOK, UNCHANGED source, NEW r \in rows, PollRow(r) PROVE TypeOK'
  <1>1. r.key \in Keys /\ r.doc \in Nat /\ r.time \in Nat /\ seen[Shard] \in Nat
    BY ShardIsOne DEF TypeOK, Position
  <1>2. Max({seen[Shard], r.time}) \in Nat
    BY <1>1, PairMax
  <1>3. seen' = [seen EXCEPT ![Shard] = Max({seen[Shard], r.time})]
    BY DEF PollRow
  <1>4. seen' \in Position
    BY <1>2, <1>3 DEF TypeOK, Position
  <1>5. hand' \in SUBSET Item
    <2>1. {seen'} \in SUBSET Position
      BY <1>4
    <2> QED
      BY <1>1, <2>1, YieldType DEF PollRow
  <1> QED
    BY <1>4, <1>5 DEF PollRow, TypeOK, Item

LEMMA LandType == ASSUME TypeOK, UNCHANGED source, NEW e \in hand, Land(e) PROVE TypeOK'
  <1>1. e \in Item /\ e.key \in Keys /\ e.doc \in Nat /\ [e EXCEPT !.landed = TRUE] \in Item
    BY TypesNamed DEF Item
  <1>2. hand' \in SUBSET Item
    BY <1>1, TypesNamed DEF Land
  <1>3. dest' \in [Keys -> Nat] /\ refused' \in SUBSET Keys /\ astray' \in SUBSET Keys
    BY <1>1 DEF Land, Found, TypeOK
  <1> QED
    BY <1>2, <1>3 DEF Land, TypeOK, Item

LEMMA AdvanceType == ASSUME TypeOK, UNCHANGED source, NEW e \in hand, Advance(e) PROVE TypeOK'
  <1>1. ckpt' \in Position /\ saved' \in Position
    BY DEF Advance, TypeOK
  <1> QED
    BY <1>1 DEF Advance, TypeOK

LEMMA CaptureTypeStep == ASSUME TypeOK, [Next]_vars PROVE TypeOK'
  <1>1. CASE UNCHANGED vars
    BY <1>1 DEF vars, TypeOK
  <1>2. CASE RunStep
    <2>1. CASE Leave
      BY <1>2, <2>1 DEF RunStep, Leave, TypeOK
    <2> QED
      BY <1>2, <2>1, ExtractType, LoadDoneType, LandType, AdvanceType, FeedPageType, PollType,
         PollReadType, FeedItemType, PollRowType DEF RunStep
  <1>3. CASE WorldStep
    <2>1. \A op \in source.ops : op \in Operations
      BY SourceTypes DEF Source
    <2>2. CASE Stop \/ SourceFails \/ Crash
      BY <1>3, <2>2 DEF WorldStep, Stop, SourceFails, Crash, TypeOK
    <2> QED
      BY <1>3, <2>1, <2>2, ChangeType, StartType, SplitType, BlipType DEF WorldStep
  <1>4. ASSUME NEW s \in Shards, ShardStep(s) PROVE TypeOK'
    BY <1>4, DeliverType DEF ShardStep
  <1> QED
    BY <1>1, <1>2, <1>3, <1>4 DEF Next

LEMMA CaptureTypeInit == ASSUME Init PROVE TypeOK
  <1>1. Beginning \in Position /\ log \in Seq([key : Keys, op : Operations, time : Nat, shard : Shards])
    BY SMT DEF Init, Beginning, Position
  <1>2. home \in [Keys -> Shards]
    BY CaptureAssumption DEF Init, Source
  <1> QED
    BY <1>1, <1>2 DEF Init, TypeOK

\* Every variable holds values of its kind, for every connector: a checkpoint names a
\* position of each shard, whatever is delivered, polled, stopped or lost.
THEOREM CaptureTypeCorrect == Spec => []TypeOK
  <1>1. Init => TypeOK
    BY CaptureTypeInit
  <1>2. TypeOK /\ [Next]_vars => TypeOK'
    BY CaptureTypeStep
  <1> QED
    BY <1>1, <1>2, PTL DEF Spec

-------------------------------------------------------------------------------
(* A source with a position for each shard *)

Settled(k) == dest[k] = Current(k) \/ k \in refused \/ k \in astray

\* Where the latest change of key k is, and which position has passed it.
Place(k) == log[Last(k)].shard
Streamed(k) == Reached(k, seen)
Marked(k) == Reached(k, ckpt)
OnDisk(k) == Reached(k, saved)

\* The positions follow each other.
Behind ==
    \A s \in Shards :
       /\ saved[s] <= ckpt[s] /\ ckpt[s] <= Len(log) /\ seen[s] <= Len(log)
       /\ run \in {"stream", "stopping"} => ckpt[s] <= seen[s]

\* There is one write at a time; what it writes is not older than a change that a
\* position has passed, unless the source gave that one first; and it marks the place
\* the stream has come to.
HandIsNew ==
    /\ run = "off" => hand = {}
    /\ \A e, f \in hand : e = f
    /\ \A e \in hand :
          /\ Streamed(e.key) \/ Marked(e.key) => e.doc = Current(e.key) \/ e.key \in astray
          /\ e.mark \subseteq {seen}
          /\ e.mark # {} => run \in {"stream", "stopping"}

\* What the checkpoint has passed is settled.
CheckpointSettled == \A k \in Keys : Marked(k) => Settled(k)

\* What the stream has passed is settled or being written.
StreamSettled ==
    run \in {"stream", "stopping"} =>
        \A k \in Keys : Streamed(k) =>
            Settled(k) \/ \E e \in hand : e.key = k /\ ~e.landed

\* A change in a shard that is not read is astray, and nothing comes from there.
Unwatched ==
    run = "stream" =>
        /\ \A k \in Keys : Last(k) # 0 /\ Place(k) \notin watched => k \in astray /\ ~Streamed(k)
        /\ \A e \in hand : e.doc # 0 => e.doc \in DOMAIN log /\ log[e.doc].shard \in watched

ShardInv ==
    /\ TypeOK /\ Connector = "dynamodb"
    /\ Behind /\ HandIsNew /\ CheckpointSettled /\ StreamSettled /\ Unwatched

LEMMA SameLog ==
    ASSUME UNCHANGED log
    PROVE  \A k : Last(k)' = Last(k) /\ Current(k)' = Current(k) /\ Place(k)' = Place(k)
BY DEF Last, Changes, Current, Doc, Place

\* What a position has passed stays so while neither moves, and moves with it.
LEMMA SamePlaces ==
    ASSUME UNCHANGED log
    PROVE  \A k : /\ seen' = seen => (Streamed(k)' <=> Streamed(k))
                  /\ seen' = ckpt => (Streamed(k)' <=> Marked(k))
                  /\ ckpt' = ckpt => (Marked(k)' <=> Marked(k))
                  /\ ckpt' = seen => (Marked(k)' <=> Streamed(k))
                  /\ ckpt' = saved => (Marked(k)' <=> OnDisk(k))
BY SameLog DEF Streamed, Marked, OnDisk, Reached

LEMMA PositionTypes ==
    ASSUME TypeOK
    PROVE  /\ \A s \in Shards : seen[s] \in Nat /\ ckpt[s] \in Nat /\ saved[s] \in Nat
           /\ \A k \in Keys : /\ Last(k) \in Nat
                              /\ Last(k) # 0 => Last(k) \in DOMAIN log /\ Place(k) \in Shards
           /\ Len(log) \in Nat
           /\ \A e \in hand : e.key \in Keys /\ e.doc \in Nat
  <1>1. \A k \in Keys : Last(k) \in Nat /\ (Last(k) # 0 => Last(k) \in DOMAIN log)
    BY LastOfKey, TypesNamed
  <1>2. \A i \in DOMAIN log : log[i].shard \in Shards
    BY EntryTypes, TypesNamed
  <1> QED
    BY <1>1, <1>2, LogLength, TypesNamed DEF TypeOK, Position, Place

LEMMA PassedInOrder ==
    ASSUME TypeOK, Behind, NEW k \in Keys
    PROVE  /\ OnDisk(k) => Marked(k)
           /\ run \in {"stream", "stopping"} /\ Marked(k) => Streamed(k)
  <1>1. CASE Last(k) = 0
    BY <1>1 DEF OnDisk, Marked, Streamed, Reached
  <1>2. CASE Last(k) # 0
    <2>1. PICK s \in Shards : s = Place(k)
      BY <1>2, PositionTypes
    <2>2. /\ saved[s] <= ckpt[s] /\ (run \in {"stream", "stopping"} => ckpt[s] <= seen[s])
          /\ Last(k) \in Nat /\ seen[s] \in Nat /\ ckpt[s] \in Nat /\ saved[s] \in Nat
      BY PositionTypes DEF Behind
    <2>3. /\ OnDisk(k) <=> Last(k) <= saved[s]
          /\ Marked(k) <=> Last(k) <= ckpt[s]
          /\ Streamed(k) <=> Last(k) <= seen[s]
      BY <1>2, <2>1 DEF OnDisk, Marked, Streamed, Reached, Place
    <2> QED
      BY <2>2, <2>3, SMT
  <1> QED
    BY <1>1, <1>2

\* Only the changed key gets another place, in the shard it has now.
LEMMA ChangePlaces ==
    ASSUME TypeOK, NEW k \in Keys, NEW op \in Operations, Change(k, op)
    PROVE  /\ Last(k)' = Len(log) + 1 /\ Place(k)' = home[k]
           /\ \A q \in Keys \ {k} : /\ Last(q)' = Last(q) /\ Current(q)' = Current(q)
                                    /\ Last(q) # 0 => Place(q)' = Place(q)
                                    /\ Streamed(q)' = Streamed(q) /\ Marked(q)' = Marked(q)
  <1>1. /\ Last(k)' = Len(log) + 1 /\ log'[Len(log) + 1].shard = home[k]
        /\ \A i \in DOMAIN log : i \in DOMAIN log' /\ log'[i] = log[i]
        /\ \A q \in Keys \ {k} : Last(q)' = Last(q) /\ Current(q)' = Current(q)
    BY ChangeAppends, ChangeOfOne, TypesNamed
  <1>2. ASSUME NEW q \in Keys \ {k}
        PROVE  /\ Last(q) # 0 => Place(q)' = Place(q)
               /\ Streamed(q)' = Streamed(q) /\ Marked(q)' = Marked(q)
    <2>1. Last(q) # 0 => Last(q) \in DOMAIN log
      BY PositionTypes
    <2>2. Last(q)' = Last(q) /\ (Last(q) # 0 => log'[Last(q)] = log[Last(q)])
      BY <1>1, <2>1
    <2>3. UNCHANGED <<seen, ckpt>>
      BY DEF Change
    <2> QED
      BY <2>2, <2>3 DEF Place, Streamed, Marked, Reached
  <1>3. Place(k)' = home[k]
    BY <1>1 DEF Place
  <1> QED
    BY <1>1, <1>2, <1>3

\* A change is ahead of every position.
LEMMA ChangeSafe ==
    ASSUME ShardInv, UNCHANGED source, NEW k \in Keys, NEW op \in Operations, Change(k, op)
    PROVE  ShardInv'
  <1>1. TypeOK'
    BY ChangeType DEF ShardInv
  <1>2. UNCHANGED <<run, seen, hand, ckpt, saved, dest, refused, watched, Connector>>
        /\ astray \subseteq astray'
    BY DEF Change, Connector
  <1>3. Len(log') = Len(log) + 1 /\ Last(k)' = Len(log) + 1 /\ Len(log) \in Nat
    BY ChangeAppends, ChangePlaces, LogLength, TypesNamed DEF ShardInv
  <1>4. \A q \in Keys \ {k} : /\ Last(q)' = Last(q) /\ Current(q)' = Current(q)
                              /\ Last(q) # 0 => Place(q)' = Place(q)
                              /\ Streamed(q)' = Streamed(q) /\ Marked(q)' = Marked(q)
    BY ChangePlaces DEF ShardInv
  <1>5. \A s \in Shards : /\ seen[s] \in Nat /\ ckpt[s] \in Nat /\ saved[s] \in Nat
                          /\ ckpt[s] <= Len(log) /\ seen[s] <= Len(log)
    BY PositionTypes DEF ShardInv, Behind
  <1>6. Behind'
    <2> SUFFICES ASSUME NEW s \in Shards
                 PROVE  ckpt[s] <= Len(log') /\ seen[s] <= Len(log')
      BY <1>2 DEF ShardInv, Behind
    <2> QED
      BY <1>3, <1>5, SMT
  <1>7. PICK s \in Shards : s = home[k] /\ Place(k)' = s
    BY ChangePlaces DEF ShardInv, TypeOK
  <1>8. ~Streamed(k)' /\ ~Marked(k)'
    <2>1. ~(Last(k)' <= seen[s]) /\ ~(Last(k)' <= ckpt[s]) /\ Last(k)' # 0
      BY <1>3, <1>5, SMT
    <2> QED
      BY <1>2, <1>7, <2>1 DEF Streamed, Marked, Reached, Place
  <1>9. HandIsNew'
    BY <1>2, <1>4, <1>8, PositionTypes DEF ShardInv, HandIsNew
  <1>10. CheckpointSettled'
    BY <1>2, <1>4, <1>8 DEF ShardInv, CheckpointSettled, Settled
  <1>11. StreamSettled'
    BY <1>2, <1>4, <1>8 DEF ShardInv, StreamSettled, Settled
  <1>12. Unwatched'
    <2> SUFFICES ASSUME run = "stream"
                 PROVE  /\ \A q \in Keys : Last(q)' # 0 /\ Place(q)' \notin watched =>
                              q \in astray' /\ ~Streamed(q)'
                        /\ \A e \in hand : e.doc # 0 => e.doc \in DOMAIN log' /\ log'[e.doc].shard \in watched
      BY <1>2 DEF Unwatched
    <2>1. \A e \in hand : e.doc # 0 => e.doc \in DOMAIN log' /\ log'[e.doc].shard \in watched
      BY ChangeAppends, TypesNamed DEF ShardInv, Unwatched
    <2>2. s \notin watched => k \in astray'
      BY <1>7 DEF Change, ShardInv, TypeOK
    <2> QED
      BY <1>2, <1>4, <1>7, <1>8, <2>1, <2>2 DEF ShardInv, Unwatched
  <1> QED
    BY <1>1, <1>2, <1>6, <1>9, <1>10, <1>11, <1>12 DEF ShardInv

\* The stream is opened at the checkpoint, and reads every shard with a change.
LEMMA OpenSafe ==
    ASSUME ShardInv, TypeOK', UNCHANGED <<source, log, hand, ckpt, dest, refused, astray>>, hand = {},
           OpenStream, saved' = ckpt
    PROVE  ShardInv'
  <1>1. run' = "stream" /\ seen' = ckpt
    BY DEF OpenStream, OpenAt, ShardInv
  <1>2. Connector' = Connector
    BY DEF Connector
  <1>3. \A s \in Shards : ckpt[s] \in Nat
    BY PositionTypes DEF ShardInv
  <1>4. Behind'
    BY <1>1, <1>3, SMT DEF ShardInv, Behind
  <1>5. HandIsNew'
    BY <1>1 DEF HandIsNew
  <1>6. CheckpointSettled' /\ StreamSettled'
    BY <1>1, SameLog, SamePlaces DEF ShardInv, CheckpointSettled, StreamSettled, Settled
  <1>7. Unwatched'
    <2>1. \A k \in Keys : Last(k) # 0 => Place(k) \in watched'
      BY PositionTypes DEF OpenStream, Place, ShardInv
    <2> QED
      BY <2>1, SameLog DEF Unwatched
  <1> QED
    BY <1>2, <1>4, <1>5, <1>6, <1>7 DEF ShardInv

\* A run that begins with the load, ends, is told to, or dies leaves positions the
\* documents have reached.
LEMMA TurnSafe ==
    ASSUME ShardInv, TypeOK', UNCHANGED <<source, log, seen, dest, refused, astray>>,
           \/ run' \in {"off", "load"} /\ hand' = {}
           \/ run = "stream" /\ run' = "stopping" /\ UNCHANGED hand,
           \/ ckpt' = ckpt /\ saved' \in {ckpt, saved}
           \/ ckpt' = saved /\ saved' = saved /\ hand' = {} /\ run' = "off"
    PROVE  ShardInv'
  <1>1. Connector' = Connector
    BY DEF Connector
  <1>2. \A s \in Shards : ckpt[s] \in Nat /\ saved[s] \in Nat /\ seen[s] \in Nat
                         /\ saved[s] <= ckpt[s]
    BY PositionTypes DEF ShardInv, Behind
  <1>3. Len(log) \in Nat
    BY PositionTypes DEF ShardInv
  <1>4. Behind'
    BY <1>2, <1>3, SMT DEF ShardInv, Behind
  <1>5. \A k \in Keys : (Marked(k)' => Marked(k)) /\ (Streamed(k)' <=> Streamed(k))
    BY SamePlaces, PassedInOrder DEF ShardInv
  <1>6. HandIsNew'
    <2>1. CASE hand' = {}
      BY <2>1 DEF HandIsNew
    <2>2. CASE run = "stream" /\ run' = "stopping" /\ UNCHANGED hand /\ UNCHANGED ckpt
      BY <1>5, <2>2, SameLog, PositionTypes DEF ShardInv, HandIsNew
    <2> QED
      BY <2>1, <2>2
  <1>7. CheckpointSettled'
    BY <1>5, SameLog DEF ShardInv, CheckpointSettled, Settled
  <1>8. StreamSettled'
    BY <1>5, SameLog DEF ShardInv, StreamSettled, Settled
  <1>9. Unwatched'
    BY DEF Unwatched
  <1> QED
    BY <1>1, <1>4, <1>6, <1>7, <1>8, <1>9 DEF ShardInv

\* What the load reads is current.
LEMMA ExtractSafe ==
    ASSUME ShardInv, UNCHANGED source, NEW k \in Keys, Extract(k) PROVE ShardInv'
  <1>1. TypeOK'
    BY ExtractType DEF ShardInv
  <1>2. UNCHANGED <<log, run, seen, ckpt, saved, dest, refused, astray>> /\ run = "load" /\ hand = {}
    BY DEF Extract
  <1>3. Connector' = Connector
    BY DEF Connector
  <1>4. PICK x : /\ x = [key |-> k, doc |-> Current(k), mark |-> {}, landed |-> FALSE]
                 /\ hand' \subseteq {x}
    BY <1>2 DEF Extract, Yield
  <1>5. HandIsNew'
    <2>1. x.key = k /\ x.doc = Current(k) /\ x.mark = {}
      BY <1>4
    <2> QED
      BY <1>2, <1>4, <2>1, SameLog DEF HandIsNew
  <1>6. Behind' /\ CheckpointSettled' /\ StreamSettled' /\ Unwatched'
    BY <1>2, SameLog, SamePlaces
       DEF ShardInv, Behind, CheckpointSettled, StreamSettled, Settled, Unwatched
  <1> QED
    BY <1>1, <1>3, <1>5, <1>6 DEF ShardInv

\* An event is the next change of its shard: the keys it passes are settled but the one
\* it writes, and that one it writes as of the change, or it came after a newer one.
LEMMA DeliverSafe ==
    ASSUME ShardInv, UNCHANGED source, NEW s \in Shards, Deliver(s) PROVE ShardInv'
  <1>1. TypeOK'
    BY DeliverType DEF ShardInv
  <1>2. UNCHANGED <<log, run, ckpt, saved, dest, refused, watched>> /\ run = "stream" /\ hand = {}
        /\ s \in watched /\ Unread(s) # {}
    BY DEF Deliver, Idle
  <1>3. Connector' = Connector /\ Connector = "dynamodb"
    BY DEF Connector, ShardInv
  <1>4. PICK i \in Nat : /\ i = Min(Unread(s)) /\ i \in DOMAIN log /\ log[i] \in Entry
                        /\ i \in Unread(s) /\ \A j \in Unread(s) : i <= j
    BY <1>2, NextUnread DEF ShardInv
  <1>5. PICK k \in Keys : k = log[i].key
    BY <1>4 DEF Entry
  <1>6. log[i].shard = s /\ i > seen[s] /\ i <= Len(log)
    <2>1. log[i].shard = s /\ i > seen[s]
      BY <1>4 DEF Unread
    <2>2. i <= Len(log)
      BY <1>4, LogLength, TypesNamed DEF ShardInv
    <2> QED BY <2>1, <2>2
  <1>7. seen' = [seen EXCEPT ![s] = i]
    BY <1>4 DEF Deliver
  <1>8. \A q \in Shards : seen'[q] = IF q = s THEN i ELSE seen[q]
    BY <1>7 DEF ShardInv, TypeOK, Position
  <1>9. \A doc \in Delivered(i) : doc = Doc(i)
    BY <1>3, <1>4 DEF Delivered, Doc
  <1>10. /\ astray' = astray \/ astray' = astray \cup {k}
         /\ Overtaken(i) => k \in astray'
         /\ \/ hand' = {} /\ k \in astray'
            \/ hand' = {[key |-> k, doc |-> Doc(i), mark |-> {seen'}, landed |-> FALSE]}
    BY <1>2, <1>3, <1>4, <1>5, <1>9 DEF Deliver, Yield, Mark
  <1>11. /\ \A q \in Shards : seen[q] \in Nat /\ ckpt[q] \in Nat /\ ckpt[q] <= seen[q]
                               /\ seen[q] <= Len(log)
         /\ \A q \in Keys : /\ Last(q) \in Nat
                            /\ Last(q) # 0 => Last(q) \in DOMAIN log /\ Place(q) \in Shards
         /\ Len(log) \in Nat
    BY <1>2, PositionTypes DEF ShardInv, Behind
  <1>12. Behind'
    <2> SUFFICES ASSUME NEW q \in Shards
                 PROVE  seen'[q] <= Len(log) /\ ckpt[q] <= seen'[q]
      BY <1>2 DEF ShardInv, Behind
    <2> QED
      BY <1>6, <1>8, <1>11, SMT
  <1>13. i <= Last(k) /\ Last(k) # 0
    <2>1. i <= Last(k)
      BY <1>4, <1>5, LastOfKey, TypesNamed DEF ShardInv
    <2>2. i # 0
      BY <1>4, LogLength, TypesNamed, SMT DEF ShardInv
    <2> QED
      BY <1>11, <2>1, <2>2, SMT
  <1>14. Last(k) = i => Doc(i) = Current(k)
    BY DEF Current
  <1>15. PICK t \in Shards : t = Place(k)
    BY <1>11, <1>13
  <1>16. i < Last(k) /\ Last(k) <= seen[t] => Overtaken(i)
    <2>1. Last(k) \in Changes(k, Len(log))
      BY <1>11, <1>13, LastOfKey, TypesNamed, LogLength DEF ShardInv, Changes
    <2> QED
      BY <1>5, <1>15, <2>1 DEF Overtaken, Place
  <1>17. Streamed(k)' \/ Marked(k)' => Last(k) = i \/ Overtaken(i)
    <2>1. /\ Streamed(k)' <=> Last(k) <= seen'[t]
          /\ Marked(k)' <=> Last(k) <= ckpt[t]
      BY <1>2, <1>13, <1>15, SameLog DEF Streamed, Marked, Reached, Place
    <2>2. Last(k) <= ckpt[t] => Last(k) <= seen[t]
      BY <1>11, SMT
    <2>3. Last(k) <= seen'[t] => Last(k) <= i \/ Last(k) <= seen[t]
      BY <1>8
    <2>4. Last(k) <= i => Last(k) = i
      BY <1>11, <1>13, SMT
    <2>5. Last(k) = i \/ i < Last(k)
      BY <1>11, <1>13, SMT
    <2> QED
      BY <1>16, <2>1, <2>2, <2>3, <2>4, <2>5
  <1>18. HandIsNew'
    <2>1. CASE hand' = {}
      BY <2>1 DEF HandIsNew
    <2>2. CASE hand' = {[key |-> k, doc |-> Doc(i), mark |-> {seen'}, landed |-> FALSE]}
      <3>1. Streamed(k)' \/ Marked(k)' => Doc(i) = Current(k)' \/ k \in astray'
        BY <1>2, <1>10, <1>14, <1>17, SameLog
      <3> QED
        BY <1>2, <2>2, <3>1 DEF HandIsNew
    <2> QED
      BY <1>10, <2>1, <2>2
  <1>19. CheckpointSettled'
    BY <1>2, <1>10, SameLog, SamePlaces DEF ShardInv, CheckpointSettled, Settled
  <1>20. ASSUME NEW q \in Keys, Streamed(q)'
         PROVE  Settled(q) \/ q = k
    <2>1. CASE Streamed(q)
      BY <1>2, <2>1 DEF ShardInv, StreamSettled
    <2>2. CASE ~Streamed(q)
      <3>1. Last(q) # 0 /\ ~(Last(q) <= seen[Place(q)]) /\ Last(q) <= seen'[Place(q)]
        BY <1>2, <1>20, <2>2, SameLog DEF Streamed, Reached, Place
      <3>2. Place(q) = s /\ Last(q) <= i
        BY <1>8, <1>11, <3>1
      <3>3. Last(q) > seen[s]
        BY <1>11, <3>1, <3>2, SMT
      <3>4. Last(q) \in DOMAIN log /\ log[Last(q)].key = q
        BY <3>1, LastOfKey, TypesNamed DEF ShardInv
      <3>5. Last(q) \in Unread(s)
        BY <3>2, <3>3, <3>4 DEF Unread, Place
      <3>6. Last(q) = i
        BY <1>4, <1>11, <3>2, <3>5, SMT
      <3> QED
        BY <1>5, <3>4, <3>6
    <2> QED BY <2>1, <2>2
  <1>21. StreamSettled'
    <2> SUFFICES ASSUME NEW q \in Keys, Streamed(q)'
                 PROVE  Settled(q)' \/ \E e \in hand' : e.key = q /\ ~e.landed
      BY DEF StreamSettled
    <2>1. Settled(q) => Settled(q)'
      BY <1>2, <1>10, SameLog DEF Settled
    <2>2. k \in astray' \/ \E e \in hand' : e.key = k /\ ~e.landed
      <3>1. CASE hand' = {[key |-> k, doc |-> Doc(i), mark |-> {seen'}, landed |-> FALSE]}
        <4>1. PICK x : x = [key |-> k, doc |-> Doc(i), mark |-> {seen'}, landed |-> FALSE]
          OBVIOUS
        <4>2. x.key = k /\ ~x.landed /\ x \in hand'
          BY <3>1, <4>1
        <4> QED
          BY <4>2
      <3> QED
        BY <1>10, <3>1
    <2>3. k \in astray' => Settled(k)'
      BY DEF Settled
    <2> QED
      BY <1>20, <2>1, <2>2, <2>3
  <1>22. Unwatched'
    <2>1. ASSUME NEW q \in Keys, Last(q) # 0, Place(q) \notin watched
          PROVE  q \in astray' /\ ~Streamed(q)'
      <3>1. q \in astray /\ ~Streamed(q)
        BY <1>2, <2>1 DEF ShardInv, Unwatched
      <3>2. seen'[Place(q)] = seen[Place(q)]
        BY <1>2, <1>8, <1>11, <2>1
      <3> QED
        BY <1>2, <1>10, <2>1, <3>1, <3>2, SameLog DEF Streamed, Reached, Place
    <2>2. \A e \in hand' : e.doc # 0 => e.doc \in DOMAIN log /\ log[e.doc].shard \in watched
      <3>1. Doc(i) \in {0, i}
        BY DEF Doc
      <3> QED
        BY <1>2, <1>4, <1>6, <1>10, <3>1
    <2> QED
      BY <1>2, <2>1, <2>2, SameLog DEF Unwatched
  <1> QED
    BY <1>1, <1>3, <1>12, <1>18, <1>19, <1>21, <1>22 DEF ShardInv

\* A write lands or is refused.
LEMMA LandSafe ==
    ASSUME ShardInv, UNCHANGED source, NEW e \in hand, Land(e) PROVE ShardInv'
  <1>1. TypeOK'
    BY LandType DEF ShardInv
  <1>2. UNCHANGED <<log, run, seen, ckpt, saved, watched>>
    BY DEF Land
  <1>3. Connector' = Connector
    BY DEF Connector
  <1>4. PICK k \in Keys : k = e.key
    BY PositionTypes DEF ShardInv
  <1>5. hand = {e} /\ run # "off"
    BY DEF ShardInv, HandIsNew
  <1>6. PICK f : /\ hand' = {f} /\ f = [e EXCEPT !.landed = TRUE]
    BY <1>5 DEF Land
  <1>7. f.key = e.key /\ f.doc = e.doc /\ f.mark = e.mark
    BY <1>6, TypesNamed DEF ShardInv, Item
  <1>8. \A q : q # k => (q \in astray' <=> q \in astray)
    BY <1>4 DEF Land, Found
  <1>9. \A q \in Keys \ {k} : Settled(q) => Settled(q)'
    BY <1>2, <1>4, <1>8, SameLog DEF Land, Settled, ShardInv, TypeOK
  <1>10. e.doc = Current(k) => Settled(k)'
    BY <1>2, <1>4, SameLog DEF Land, Settled, ShardInv, TypeOK
  <1>11. e.doc # Current(k) => astray' = astray
    BY <1>4 DEF Land, Found
  <1>12. k \in astray' => Settled(k)'
    BY DEF Settled
  <1>13. Behind'
    BY <1>2 DEF ShardInv, Behind
  <1>14. HandIsNew'
    BY <1>2, <1>4, <1>5, <1>6, <1>7, <1>11, SameLog, SamePlaces DEF ShardInv, HandIsNew
  <1>15. Streamed(k) \/ Marked(k) => Settled(k)'
    BY <1>4, <1>10, <1>11, <1>12 DEF ShardInv, HandIsNew
  <1>16. CheckpointSettled'
    BY <1>2, <1>9, <1>15, SamePlaces DEF ShardInv, CheckpointSettled
  <1>17. StreamSettled'
    BY <1>2, <1>4, <1>5, <1>9, <1>15, SamePlaces DEF ShardInv, StreamSettled
  <1>18. Unwatched'
    <2> SUFFICES ASSUME run = "stream" PROVE Unwatched'
      BY <1>2 DEF Unwatched
    <2>1. ASSUME NEW q \in Keys, Last(q) # 0, Place(q) \notin watched
          PROVE  q \in astray' /\ ~Streamed(q)
      <3>1. q \in astray /\ ~Streamed(q)
        BY <2>1 DEF ShardInv, Unwatched
      <3>2. CASE q = k /\ e.doc = Current(k) /\ e.doc # 0
        <4>1. e.doc = Last(k)
          BY <3>2 DEF Current, Doc
        <4>2. log[e.doc].shard \in watched
          BY <3>2 DEF ShardInv, Unwatched
        <4> QED
          BY <2>1, <3>2, <4>1, <4>2 DEF Place
      <3>3. CASE ~(q = k /\ e.doc = Current(k) /\ e.doc # 0)
        BY <1>4, <3>1, <3>3 DEF Land, Found, Streamed
      <3> QED BY <3>2, <3>3
    <2>2. \A x \in hand' : x.doc # 0 => x.doc \in DOMAIN log /\ log[x.doc].shard \in watched
      BY <1>5, <1>6, <1>7 DEF ShardInv, Unwatched
    <2> QED
      BY <1>2, <2>1, <2>2, SameLog, SamePlaces DEF Unwatched
  <1> QED
    BY <1>1, <1>3, <1>13, <1>14, <1>16, <1>17, <1>18 DEF ShardInv

\* The checkpoint follows the stream once the write has landed.
LEMMA AdvanceSafe ==
    ASSUME ShardInv, UNCHANGED source, NEW e \in hand, Advance(e) PROVE ShardInv'
  <1>1. TypeOK'
    BY AdvanceType DEF ShardInv
  <1>2. UNCHANGED <<log, run, seen, dest, refused, astray, watched>> /\ e.landed
    BY DEF Advance
  <1>3. Connector' = Connector
    BY DEF Connector
  <1>4. hand = {e} /\ hand' = {}
    BY DEF Advance, ShardInv, HandIsNew
  <1>5. \/ ckpt' = ckpt
        \/ ckpt' = seen /\ run \in {"stream", "stopping"}
    BY DEF Advance, ShardInv, HandIsNew
  <1>6. saved' \in {saved, ckpt'}
    BY DEF Advance
  <1>7. \A q \in Shards :
           /\ seen[q] \in Nat /\ ckpt[q] \in Nat /\ saved[q] \in Nat
           /\ saved[q] <= ckpt[q] /\ ckpt[q] <= Len(log) /\ seen[q] <= Len(log)
           /\ run \in {"stream", "stopping"} => ckpt[q] <= seen[q]
    BY PositionTypes DEF ShardInv, Behind
  <1>8. Behind'
    <2> SUFFICES ASSUME NEW q \in Shards
                 PROVE  /\ saved'[q] <= ckpt'[q] /\ ckpt'[q] <= Len(log) /\ seen[q] <= Len(log)
                        /\ run \in {"stream", "stopping"} => ckpt'[q] <= seen[q]
      BY <1>2 DEF Behind
    <2>1. CASE ckpt' = ckpt
      BY <1>6, <1>7, <2>1
    <2>2. CASE ckpt' = seen /\ run \in {"stream", "stopping"}
      <3>1. ckpt[q] <= seen[q] /\ saved[q] <= ckpt[q]
        BY <1>7, <2>2
      <3>2. saved[q] <= seen[q] /\ seen[q] <= seen[q]
        BY <1>7, <3>1, SMT
      <3> QED
        BY <1>6, <1>7, <2>2, <3>2
    <2> QED BY <1>5, <2>1, <2>2
  <1>9. HandIsNew'
    BY <1>4 DEF HandIsNew
  <1>10. run \in {"stream", "stopping"} => \A k \in Keys : Streamed(k) => Settled(k)
    BY <1>2, <1>4 DEF ShardInv, StreamSettled
  <1>11. CheckpointSettled' /\ StreamSettled'
    BY <1>2, <1>5, <1>10, SameLog, SamePlaces DEF ShardInv, CheckpointSettled, StreamSettled, Settled
  <1>12. Unwatched'
    BY <1>2, <1>4, SameLog, SamePlaces DEF ShardInv, Unwatched
  <1> QED
    BY <1>1, <1>3, <1>8, <1>9, <1>11, <1>12 DEF ShardInv

LEMMA ShardStepSafe == ASSUME ShardInv, [Next]_vars PROVE ShardInv'
  <1>1. TypeOK'
    BY CaptureTypeStep DEF ShardInv
  <1>2. CASE UNCHANGED vars \/ (UNCHANGED source /\ Split)
    <2>1. UNCHANGED <<source, log, run, watched, seen, hand, ckpt, saved, dest, refused, astray>>
      BY <1>2 DEF vars, Split
    <2> QED
      BY <1>1, <2>1, SameLog, SamePlaces DEF ShardInv, Behind, HandIsNew, CheckpointSettled, StreamSettled,
         Settled, Unwatched, Connector
  <1>3. CASE RunStep
    <2>1. CASE LoadDone
      BY <1>1, <1>3, <2>1, OpenSafe DEF RunStep, LoadDone
    <2>2. CASE Leave
      BY <1>1, <1>3, <2>2, TurnSafe DEF RunStep, Leave
    <2>3. /\ ~FeedPage /\ ~Poll /\ \A r \in rows : ~FeedItem(r) /\ ~PollRow(r)
          /\ \A k \in Keys : ~PollRead(k)
      BY DEF ShardInv, FeedPage, Poll, PollRead, FeedItem, PollRow
    <2> QED
      BY <1>3, <2>1, <2>2, <2>3, ExtractSafe, LandSafe, AdvanceSafe DEF RunStep
  <1>4. CASE WorldStep
    <2>1. \A op \in source.ops : op \in Operations
      BY SourceTypes DEF Source, ShardInv
    <2>2. CASE Start
      <3>1. hand = {}
        BY <2>2 DEF Start, ShardInv, HandIsNew
      <3>2. CASE run' = "load"
        BY <1>1, <1>4, <2>2, <3>1, <3>2, TurnSafe DEF WorldStep, Start, OpenStream
      <3>3. CASE OpenStream
        BY <1>1, <1>4, <2>2, <3>1, <3>3, OpenSafe DEF WorldStep, Start
      <3> QED
        BY <2>2, <3>2, <3>3 DEF Start
    <2>3. CASE Stop
      BY <1>1, <1>4, <2>3, TurnSafe DEF WorldStep, Stop
    <2>4. CASE SourceFails
      BY <1>1, <1>4, <2>4, TurnSafe DEF WorldStep, SourceFails
    <2>5. CASE Crash
      BY <1>1, <1>4, <2>5, TurnSafe DEF WorldStep, Crash
    <2>6. ~Blip
      BY DEF ShardInv, Blip
    <2>7. UNCHANGED source
      BY <1>4 DEF WorldStep
    <2> QED
      BY <1>2, <1>4, <2>1, <2>2, <2>3, <2>4, <2>5, <2>6, <2>7, ChangeSafe DEF WorldStep
  <1>5. ASSUME NEW s \in Shards, ShardStep(s) PROVE ShardInv'
    BY <1>5, DeliverSafe DEF ShardStep
  <1> QED
    BY <1>2, <1>3, <1>4, <1>5 DEF Next

LEMMA ShardInit ==
    ASSUME Init, Connector = "dynamodb"
    PROVE  ShardInv
  <1>1. TypeOK
    BY CaptureTypeInit
  <1>2. Len(log) = 0 /\ log = <<>>
    BY DEF Init
  <1>3. \A k \in Keys : Last(k) = 0
    <2> SUFFICES ASSUME NEW k \in Keys PROVE Last(k) = 0
      OBVIOUS
    <2>1. Last(k) \in {0} \cup Changes(k, Len(log)) /\ DOMAIN log = 1..0
      BY <1>1, <1>2, LastOfKey, TypesNamed, LogLength
    <2> QED
      BY <2>1 DEF Changes
  <1>4. \A k \in Keys : Settled(k)
    BY <1>3 DEF Init, Settled, Current, Doc
  <1>5. /\ run = "off" /\ hand = {}
        /\ \A s \in Shards : seen[s] = 0 /\ ckpt[s] = 0 /\ saved[s] = 0
    BY DEF Init, Beginning
  <1>6. Behind
    BY <1>2, <1>5, SMT DEF Behind
  <1>7. HandIsNew /\ Unwatched
    BY <1>5 DEF HandIsNew, Unwatched
  <1> QED
    BY <1>1, <1>4, <1>5, <1>6, <1>7 DEF ShardInv, CheckpointSettled, StreamSettled

-------------------------------------------------------------------------------
(* Sources whose documents are read when they are delivered *)

LateReader == Connector \in Scans \cup {"redis"}

DestIsOlder == \A k \in Keys : dest[k] <= Last(k)

\* There is one write at a time, and it does not take its document back.
WriteIsNewer ==
    /\ \A e, f \in hand : e = f
    /\ \A e \in hand : /\ e.doc <= Last(e.key)
                       /\ ~e.landed => e.doc = 0 \/ dest[e.key] <= e.doc

\* The rows of a page or a scan are of different documents, none of them being written
\* or still to be read.
RowsAreNewer ==
    /\ run \in {"off", "load"} \/ Connector = "redis" => rows = {}
    /\ run = "stream" /\ toRead # {} => Connector = "cassandra" /\ hand = {}
    /\ run = "stream" => \A r \in rows : r.key \notin toRead
    /\ \A r, q \in rows : r.key = q.key => r = q
    /\ \A r \in rows : /\ r.doc <= Last(r.key) /\ dest[r.key] <= r.doc
                       /\ \A e \in hand : ~e.landed => e.key # r.key

ForwardInv == TypeOK /\ LateReader /\ DestIsOlder /\ WriteIsNewer /\ RowsAreNewer

LEMMA SourceStays == ASSUME [Next]_vars PROVE UNCHANGED <<source, Connector, Hybrid, ShardOf>>
  <1>1. source' = source
    BY DEF Next, RunStep, WorldStep, ShardStep, vars
  <1> QED
    BY <1>1 DEF Connector, Hybrid, ShardOf

LEMMA CurrentOrGone ==
    ASSUME TypeOK, NEW k \in Keys
    PROVE  Last(k) \in Nat /\ Current(k) \in {0, Last(k)}
  <1>1. Last(k) \in Nat
    BY LastOfKey, TypesNamed
  <1> QED
    BY <1>1 DEF Current, Doc

LEMMA ItemTypes ==
    ASSUME TypeOK
    PROVE  /\ \A e \in hand : e.key \in Keys /\ e.doc \in Nat /\ e.mark \in SUBSET Position
           /\ \A r \in rows : r.key \in Keys /\ r.doc \in Nat /\ r.time \in Nat
           /\ \A k \in Keys : dest[k] \in Nat /\ Last(k) \in Nat
  <1>1. \A k \in Keys : dest[k] \in Nat /\ Last(k) \in Nat
    BY CurrentOrGone DEF TypeOK
  <1> QED
    BY <1>1 DEF TypeOK

\* A document has a later last change, or the one it had.
LEMMA LastGrows ==
    ASSUME TypeOK, NEW k \in Keys, NEW op \in Operations, Change(k, op)
    PROVE  \A q \in Keys : Last(q) \in Nat /\ Last(q)' \in Nat /\ Last(q) <= Last(q)'
  <1>1. /\ Last(k)' = Len(log) + 1 /\ Len(log) \in Nat
        /\ \A q \in Keys \ {k} : Last(q)' = Last(q)
    BY ChangeOfOne, LogLength, TypesNamed
  <1>2. \A q \in Keys : Last(q) \in 0..Len(log)
    BY LastOfKey, TypesNamed
  <1> QED
    BY <1>1, <1>2, SMT

LEMMA ChangeForward ==
    ASSUME ForwardInv, TypeOK', UNCHANGED <<source, Connector>>,
           NEW k \in Keys, NEW op \in Operations, Change(k, op)
    PROVE  ForwardInv'
  <1>1. UNCHANGED <<run, toRead, rows, hand, dest>>
    BY DEF Change
  <1>2. \A q \in Keys : Last(q) \in Nat /\ Last(q)' \in Nat /\ Last(q) <= Last(q)'
    BY LastGrows DEF ForwardInv
  <1>3. \A q \in Keys : \A n \in Nat : n <= Last(q) => n <= Last(q)'
    BY <1>2, SMT
  <1>4. /\ \A e \in hand : e.key \in Keys /\ e.doc \in Nat
        /\ \A r \in rows : r.key \in Keys /\ r.doc \in Nat
        /\ \A q \in Keys : dest[q] \in Nat
    BY ItemTypes DEF ForwardInv
  <1>5. DestIsOlder'
    BY <1>1, <1>3, <1>4 DEF ForwardInv, DestIsOlder
  <1>6. WriteIsNewer'
    BY <1>1, <1>3, <1>4 DEF ForwardInv, WriteIsNewer
  <1>7. RowsAreNewer'
    BY <1>1, <1>3, <1>4 DEF ForwardInv, RowsAreNewer
  <1> QED
    BY <1>5, <1>6, <1>7 DEF ForwardInv, LateReader

\* Steps that take nothing up.
LEMMA QuietForward ==
    ASSUME ForwardInv, TypeOK', UNCHANGED <<source, Connector, log, dest>>,
           hand' \subseteq hand, rows' \subseteq rows,
           run' = run \/ run' \notin {"off", "load"} \/ rows' = {},
           run' # "stream" \/ toRead' = {} \/ UNCHANGED <<run, toRead>>
    PROVE  ForwardInv'
  <1>1. DestIsOlder'
    BY SameLog DEF ForwardInv, DestIsOlder
  <1>2. WriteIsNewer'
    BY SameLog DEF ForwardInv, WriteIsNewer
  <1>3. RowsAreNewer'
    BY SameLog DEF ForwardInv, RowsAreNewer
  <1> QED
    BY <1>1, <1>2, <1>3 DEF ForwardInv, LateReader

\* A document that is read now, or that is gone, may be written.
LEMMA YieldForward ==
    ASSUME ForwardInv, TypeOK', UNCHANGED <<source, Connector, log, run, rows, dest>>,
           hand = {}, rows = {}, run # "stream" \/ toRead' = {},
           NEW k \in Keys, NEW doc \in {0, Last(k)}, NEW mark, Yield(k, doc, mark)
    PROVE  ForwardInv'
  <1>1. PICK x : x.key = k /\ x.doc = doc /\ hand' = {x}
    BY DEF Yield
  <1>2. Last(k) \in Nat /\ dest[k] <= Last(k) /\ 0 <= Last(k) /\ Last(k) <= Last(k)
    BY ItemTypes, SMT DEF ForwardInv, DestIsOlder
  <1>3. DestIsOlder'
    BY SameLog DEF ForwardInv, DestIsOlder
  <1>4. WriteIsNewer'
    BY <1>1, <1>2, SameLog DEF WriteIsNewer
  <1>5. RowsAreNewer'
    BY DEF RowsAreNewer
  <1> QED
    BY <1>3, <1>4, <1>5 DEF ForwardInv, LateReader

LEMMA ExtractForward ==
    ASSUME ForwardInv, TypeOK', UNCHANGED <<source, Connector>>, NEW k \in Keys, Extract(k)
    PROVE  ForwardInv'
  <1>1. UNCHANGED <<log, run, rows, dest>> /\ hand = {} /\ rows = {} /\ run = "load"
    BY DEF Extract, ForwardInv, RowsAreNewer
  <1>2. Current(k) \in {0, Last(k)}
    BY CurrentOrGone DEF ForwardInv
  <1>3. hand' = hand \/ Yield(k, Current(k), {})
    BY DEF Extract
  <1> QED
    BY <1>1, <1>2, <1>3, QuietForward, YieldForward

LEMMA DeliverForward ==
    ASSUME ForwardInv, TypeOK', UNCHANGED <<source, Connector>>, NEW s \in Shards, Deliver(s)
    PROVE  ForwardInv'
  <1>1. Connector = "redis" /\ Connector # "mongodb" /\ Unread(s) # {}
    BY DEF Deliver, ForwardInv, LateReader, Logs, Scans
  <1>2. UNCHANGED <<log, run, rows, dest>> /\ hand = {} /\ rows = {} /\ toRead' = {}
    BY <1>1 DEF Deliver, Idle, ForwardInv, RowsAreNewer
  <1>3. PICK i \in Nat : i = Min(Unread(s)) /\ i \in DOMAIN log /\ log[i] \in Entry
    BY <1>1, NextUnread DEF ForwardInv
  <1>4. PICK k \in Keys : k = log[i].key
    BY <1>3 DEF Entry
  <1>5. \A doc \in Delivered(i) : doc \in {0, Last(k)}
    BY <1>1, <1>4, CurrentOrGone DEF Delivered, ForwardInv
  <1>6. \E doc \in Delivered(i), mark \in {Mark(s, seen')} : Yield(k, doc, mark)
    BY <1>1, <1>3, <1>4 DEF Deliver, Skipped
  <1> QED
    BY <1>2, <1>5, <1>6, YieldForward

LEMMA FeedPageForward ==
    ASSUME ForwardInv, TypeOK', UNCHANGED <<source, Connector>>, FeedPage
    PROVE  ForwardInv'
  <1>1. UNCHANGED <<log, run, hand, dest>> /\ hand = {} /\ run = "stream" /\ Connector = "cosmosdb"
        /\ toRead' = {}
    BY DEF FeedPage, Idle, ForwardInv, RowsAreNewer
  <1>2. \A r \in rows' : r.key \in Keys /\ r.doc \in Nat /\ r.doc = Current(r.key) /\ r.doc # 0 /\ r.time = r.doc
    <2>1. PICK page : /\ page \subseteq {i \in DOMAIN log : i = Current(log[i].key)}
                      /\ rows' = {[key |-> log[i].key, doc |-> i, time |-> i] : i \in page}
      BY DEF FeedPage
    <2>2. \A i \in DOMAIN log : i # 0
      BY LogLength, TypesNamed, SMT DEF ForwardInv
    <2>3. \A r \in rows' : r.key \in Keys /\ r.doc \in Nat
      BY DEF TypeOK
    <2> QED
      BY <2>1, <2>2, <2>3
  <1>3. \A r \in rows' : r.doc = Last(r.key)
    BY <1>2, CurrentOrGone DEF ForwardInv
  <1>4. \A k \in Keys : Last(k) \in Nat /\ Last(k) <= Last(k) /\ dest[k] <= Last(k)
    BY ItemTypes, SMT DEF ForwardInv, DestIsOlder
  <1>5. \A r, q \in rows' : r.key = q.key => r = q
    BY <1>2 DEF TypeOK
  <1>6. RowsAreNewer'
    BY <1>1, <1>2, <1>3, <1>4, <1>5, SameLog DEF RowsAreNewer
  <1>7. DestIsOlder' /\ WriteIsNewer'
    BY <1>1, SameLog DEF ForwardInv, DestIsOlder, WriteIsNewer
  <1> QED
    BY <1>6, <1>7 DEF ForwardInv, LateReader

LEMMA PollReadForward ==
    ASSUME ForwardInv, TypeOK', UNCHANGED <<source, Connector>>, NEW k \in Keys, PollRead(k)
    PROVE  ForwardInv'
  <1>1. UNCHANGED <<log, run, hand, dest>> /\ hand = {} /\ run = "stream" /\ Connector = "cassandra"
        /\ toRead' = toRead \ {k} /\ k \in toRead
    BY DEF PollRead, ForwardInv, RowsAreNewer
  <1>2. PICK x : x.key = k /\ x.doc = Current(k)
                 /\ (rows' = rows \/ (rows' = rows \cup {x} /\ Current(k) # 0))
    <2>1. PICK x : x = [key |-> k, doc |-> Current(k), time |-> WriteTime(k)]
      OBVIOUS
    <2>2. x.key = k /\ x.doc = Current(k)
      BY <2>1
    <2>3. rows' = rows \/ (rows' = rows \cup {x} /\ Current(k) # 0)
      BY <2>1 DEF PollRead, Newer
    <2> QED
      BY <2>2, <2>3
  <1>3. Current(k) # 0 => Current(k) = Last(k)
    BY CurrentOrGone DEF ForwardInv
  <1>4. Last(k) \in Nat /\ Last(k) <= Last(k) /\ dest[k] <= Last(k)
    BY ItemTypes, SMT DEF ForwardInv, DestIsOlder
  <1>5. \A r \in rows : r.key # k
    BY <1>1 DEF ForwardInv, RowsAreNewer
  <1>6. RowsAreNewer'
    BY <1>1, <1>2, <1>3, <1>4, <1>5, SameLog DEF ForwardInv, RowsAreNewer
  <1>7. DestIsOlder' /\ WriteIsNewer'
    BY <1>1, SameLog DEF ForwardInv, DestIsOlder, WriteIsNewer
  <1> QED
    BY <1>6, <1>7 DEF ForwardInv, LateReader

\* A row of the page or the scan is taken up.
LEMMA RowForward ==
    ASSUME ForwardInv, TypeOK', UNCHANGED <<source, Connector, log, run, dest>>, hand = {},
           toRead' = {}, NEW r \in rows, rows' = rows \ {r}, NEW mark, Yield(r.key, r.doc, mark)
    PROVE  ForwardInv'
  <1>1. PICK x : x.key = r.key /\ x.doc = r.doc /\ hand' = {x}
    BY DEF Yield
  <1>2. \A q \in rows' : q \in rows /\ q.key # r.key
    BY DEF ForwardInv, RowsAreNewer
  <1>3. DestIsOlder'
    BY SameLog DEF ForwardInv, DestIsOlder
  <1>4. WriteIsNewer'
    BY <1>1, SameLog DEF ForwardInv, WriteIsNewer, RowsAreNewer
  <1>5. RowsAreNewer'
    BY <1>1, <1>2, SameLog DEF ForwardInv, RowsAreNewer
  <1> QED
    BY <1>3, <1>4, <1>5 DEF ForwardInv, LateReader

LEMMA LandForward ==
    ASSUME ForwardInv, TypeOK', UNCHANGED <<source, Connector>>, NEW e \in hand, Land(e)
    PROVE  /\ ForwardInv'
           /\ \A k \in Keys : dest'[k] = 0 \/ dest'[k] >= dest[k]
  <1>1. UNCHANGED <<log, run, rows, toRead>> /\ ~e.landed
    BY DEF Land
  <1>2. /\ e.key \in Keys /\ e.doc \in Nat /\ e.doc <= Last(e.key)
        /\ e.doc = 0 \/ dest[e.key] <= e.doc
    BY <1>1, ItemTypes DEF ForwardInv, WriteIsNewer
  <1>3. PICK f : hand' = {f} /\ f.key = e.key /\ f.doc = e.doc /\ f.landed
    <2>1. hand = {e}
      BY DEF ForwardInv, WriteIsNewer
    <2>2. PICK f : hand' = {f} /\ f = [e EXCEPT !.landed = TRUE]
      BY <2>1 DEF Land
    <2>3. e \in Item
      BY TypesNamed DEF ForwardInv
    <2>4. f.key = e.key /\ f.doc = e.doc /\ f.landed
      BY <2>2, <2>3 DEF Item
    <2> QED
      BY <2>2, <2>4
  <1>4. \A k \in Keys : dest'[k] = dest[k] \/ (k = e.key /\ dest'[k] = e.doc)
    BY DEF Land, ForwardInv, TypeOK
  <1>5. DestIsOlder'
    BY <1>1, <1>2, <1>4, SameLog DEF ForwardInv, DestIsOlder
  <1>6. WriteIsNewer'
    BY <1>1, <1>2, <1>3, SameLog DEF WriteIsNewer
  <1>7. \A r \in rows : r.key \in Keys /\ r.key # e.key
    BY <1>1, ItemTypes DEF ForwardInv, RowsAreNewer
  <1>8. RowsAreNewer'
    BY <1>1, <1>3, <1>4, <1>7, SameLog DEF ForwardInv, RowsAreNewer
  <1>9. ASSUME NEW k \in Keys PROVE dest'[k] = 0 \/ dest'[k] >= dest[k]
    <2>1. dest[k] \in Nat
      BY ItemTypes DEF ForwardInv
    <2> QED
      BY <1>2, <1>4, <2>1, SMT
  <1> QED
    BY <1>5, <1>6, <1>8, <1>9 DEF ForwardInv, LateReader

LEMMA ForwardStep ==
    ASSUME ForwardInv, [Next]_vars
    PROVE  ForwardInv' /\ \A k \in Keys : dest'[k] = 0 \/ dest'[k] >= dest[k]
  <1>1. TypeOK' /\ UNCHANGED <<source, Connector>>
    BY CaptureTypeStep, SourceStays DEF ForwardInv
  <1>2. \A k \in Keys : dest[k] \in Nat /\ dest[k] >= dest[k]
    BY ItemTypes, SMT DEF ForwardInv
  <1>3. CASE UNCHANGED vars
    BY <1>1, <1>2, <1>3, QuietForward DEF vars
  <1>4. CASE RunStep
    <2>1. CASE LoadDone
      BY <1>1, <1>2, <2>1, QuietForward DEF LoadDone, OpenStream
    <2>2. CASE Leave
      BY <1>1, <1>2, <2>2, QuietForward DEF Leave
    <2>3. ASSUME NEW e \in hand, Advance(e) PROVE ForwardInv' /\ dest' = dest
      BY <1>1, <2>3, QuietForward DEF Advance
    <2>4. ASSUME NEW r \in rows, FeedItem(r) \/ PollRow(r) PROVE ForwardInv' /\ dest' = dest
      <3>1. toRead' = {}
        BY <2>4 DEF FeedItem, PollRow, Idle, ForwardInv, RowsAreNewer
      <3> QED
        BY <1>1, <2>4, <3>1, RowForward DEF FeedItem, PollRow, Idle
    <2>5. ASSUME NEW k \in Keys, Extract(k) PROVE ForwardInv' /\ dest' = dest
      BY <1>1, <2>5, ExtractForward DEF Extract
    <2>6. CASE FeedPage
      BY <1>1, <1>2, <2>6, FeedPageForward DEF FeedPage
    <2>7. CASE Poll
      <3>1. rows' = {} /\ hand' = {} /\ UNCHANGED <<log, dest>> /\ Connector = "cassandra"
        BY <2>7 DEF Poll, Idle
      <3>2. DestIsOlder' /\ WriteIsNewer' /\ RowsAreNewer'
        BY <1>1, <3>1, SameLog DEF ForwardInv, DestIsOlder, WriteIsNewer, RowsAreNewer
      <3> QED
        BY <1>1, <1>2, <3>1, <3>2 DEF ForwardInv, LateReader
    <2>9. ASSUME NEW k \in Keys, PollRead(k) PROVE ForwardInv' /\ dest' = dest
      BY <1>1, <2>9, PollReadForward DEF PollRead
    <2>8. ASSUME NEW e \in hand, Land(e)
          PROVE  ForwardInv' /\ \A k \in Keys : dest'[k] = 0 \/ dest'[k] >= dest[k]
      BY <1>1, <2>8, LandForward
    <2> QED
      BY <1>2, <1>4, <2>1, <2>2, <2>3, <2>4, <2>5, <2>6, <2>7, <2>8, <2>9 DEF RunStep
  <1>5. CASE WorldStep
    <2>1. \A op \in source.ops : op \in Operations
      BY SourceTypes DEF Source, ForwardInv
    <2>2. ASSUME NEW k \in Keys, NEW op \in source.ops, Change(k, op) PROVE ForwardInv' /\ dest' = dest
      BY <1>1, <2>1, <2>2, ChangeForward DEF Change
    <2>3. CASE Start
      <3>1. rows' = {} /\ (run' # "stream" \/ toRead' = {}) /\ UNCHANGED <<log, hand, dest>>
        BY <2>3 DEF Start, OpenStream, ForwardInv, RowsAreNewer
      <3> QED
        BY <1>1, <1>2, <3>1, QuietForward
    <2>4. CASE Stop
      BY <1>1, <1>2, <2>4, QuietForward DEF Stop
    <2>5. CASE SourceFails
      BY <1>1, <1>2, <2>5, QuietForward DEF SourceFails
    <2>6. CASE Crash
      BY <1>1, <1>2, <2>6, QuietForward DEF Crash
    <2>7. CASE Split \/ Blip
      BY <1>1, <1>2, <2>7, QuietForward DEF Split, Blip
    <2> QED
      BY <1>2, <1>5, <2>2, <2>3, <2>4, <2>5, <2>6, <2>7 DEF WorldStep
  <1>6. ASSUME NEW s \in Shards, ShardStep(s) PROVE ForwardInv' /\ dest' = dest
    BY <1>1, <1>6, DeliverForward DEF ShardStep, Deliver
  <1> QED
    BY <1>2, <1>3, <1>4, <1>5, <1>6 DEF Next

LEMMA EmptyHistory == ASSUME Init PROVE \A k \in Keys : Last(k) = 0 /\ Current(k) = 0 /\ dest[k] = 0
  <1>1. TypeOK /\ log = <<>> /\ Len(log) = 0
    BY CaptureTypeInit DEF Init
  <1>2. \A k \in Keys : Last(k) \in 0..0
    BY <1>1, LastOfKey, TypesNamed
  <1>3. \A k \in Keys : Last(k) = 0
    BY <1>2, SMT
  <1> QED
    BY <1>3 DEF Init, Current, Doc

LEMMA ForwardInit == ASSUME Init, LateReader PROVE ForwardInv
  <1>1. \A k \in Keys : dest[k] <= Last(k)
    BY EmptyHistory, SMT
  <1> QED
    BY <1>1, CaptureTypeInit DEF Init, ForwardInv, DestIsOlder, WriteIsNewer, RowsAreNewer

\* Redis, Cosmos DB and Cassandra never take a document back to an older state of it,
\* whatever is loaded, polled, refused, stopped, lost and started again: what is read
\* late is not older than what was written before.
THEOREM NothingGoesBackwards == Spec => NeverBackwards
  <1> DEFINE Inv == LateReader => ForwardInv
  <1>1. Init => Inv
    BY ForwardInit
  <1>2. Inv /\ [Next]_vars => Inv'
    <2> SUFFICES ASSUME Inv, [Next]_vars, LateReader' PROVE ForwardInv'
      OBVIOUS
    <2>1. LateReader
      BY SourceStays DEF LateReader
    <2> QED
      BY <2>1, ForwardStep
  <1>3. Inv /\ [Next]_vars =>
            [\A k \in Keys : \/ Connector \notin Scans \cup {"redis"}
                             \/ dest'[k] = 0 \/ dest'[k] >= dest[k]]_vars
    BY ForwardStep DEF LateReader
  <1> QED
    BY <1>1, <1>2, <1>3, PTL DEF Spec, NeverBackwards
-------------------------------------------------------------------------------
(* Sources that are scanned, after a load *)

There(k) == Current(k) # 0

\* What is there is at the destination, or was refused.
Kept(k) == There(k) => dest[k] = Last(k) \/ k \in refused

\* What is being written or has been read of a document that the load has seen as it is
\* now, is the document as it is now.
LoadIsFresh ==
    /\ base <= Len(log)
    /\ run = "off" => hand = {}
    /\ run \in {"load", "stream"} =>
          /\ \A e \in hand : There(e.key) /\ Last(e.key) <= base => e.doc = Last(e.key)
          /\ \A r \in rows : There(r.key) /\ Last(r.key) <= base => r.doc = Last(r.key)

\* What the load has passed is kept or being written; after the load, all is kept.
LoadSettles ==
    /\ run = "load" =>
          \A k \in Keys \ toRead : Last(k) <= base =>
              Kept(k) \/ \E e \in hand : e.key = k /\ ~e.landed
    /\ run = "stream" => \A k \in Keys : Last(k) <= base => Kept(k)

LoadInv ==
    /\ ForwardInv /\ Hybrid /\ Connector \in Scans
    /\ LoadIsFresh /\ LoadSettles

LEMMA ThereIsLast ==
    ASSUME TypeOK, NEW k \in Keys
    PROVE  /\ There(k) => Current(k) = Last(k)
           /\ Last(k) = 0 => ~There(k)
BY CurrentOrGone DEF There

LEMMA SameThere == ASSUME UNCHANGED log PROVE \A k : Last(k)' = Last(k) /\ There(k)' = There(k)
BY SameLog DEF There

\* A change is ahead of the load.
LEMMA ChangeLoad ==
    ASSUME LoadInv, ForwardInv', UNCHANGED <<source, Connector, Hybrid>>,
           NEW k \in Keys, NEW op \in Operations, Change(k, op)
    PROVE  LoadInv'
  <1>1. UNCHANGED <<run, rows, hand, dest, base, toRead, refused>>
    BY DEF Change
  <1>2. Len(log') = Len(log) + 1 /\ Last(k)' = Len(log) + 1 /\ Len(log) \in Nat /\ base \in Nat
    BY ChangeAppends, ChangeOfOne, LogLength, TypesNamed DEF LoadInv, ForwardInv
  <1>3. \A q \in Keys \ {k} : Last(q)' = Last(q) /\ There(q)' = There(q)
    BY ChangeOfOne, TypesNamed DEF LoadInv, ForwardInv, There
  <1>5. base <= Len(log') /\ ~(Last(k)' <= base)
    BY <1>2, SMT DEF LoadInv, LoadIsFresh
  <1>6. LoadIsFresh'
    BY <1>1, <1>3, <1>5, ItemTypes DEF LoadInv, ForwardInv, LoadIsFresh
  <1>7. LoadSettles'
    BY <1>1, <1>3, <1>5 DEF LoadInv, LoadSettles, Kept
  <1> QED
    BY <1>6, <1>7 DEF LoadInv

\* A load sets out to read all documents.
LEMMA StartLoad ==
    ASSUME LoadInv, ForwardInv', UNCHANGED <<source, Connector, Hybrid>>, Start
    PROVE  LoadInv'
  <1>1. /\ run = "off" /\ run' = "load" /\ toRead' = Keys /\ base' = Len(log)
        /\ UNCHANGED <<log, hand, dest, refused, rows>>
    BY DEF Start, LoadInv
  <1>2. hand = {} /\ rows = {} /\ Len(log) <= Len(log)
    BY <1>1, LogLength, TypesNamed, SMT DEF LoadInv, LoadIsFresh, ForwardInv, RowsAreNewer
  <1>3. LoadIsFresh' /\ LoadSettles'
    BY <1>1, <1>2 DEF LoadIsFresh, LoadSettles
  <1> QED
    BY <1>1, <1>3 DEF LoadInv

\* The scan reads the document, or there is none to keep.
LEMMA ExtractLoad ==
    ASSUME LoadInv, ForwardInv', UNCHANGED <<source, Connector, Hybrid>>, NEW k \in Keys, Extract(k)
    PROVE  LoadInv'
  <1>1. /\ UNCHANGED <<log, run, rows, dest, refused, base>> /\ run = "load" /\ hand = {} /\ rows = {}
        /\ toRead' = toRead \ {k}
    BY DEF Extract, LoadInv, ForwardInv, RowsAreNewer
  <1>2. There(k) => Current(k) = Last(k)
    BY ThereIsLast DEF LoadInv, ForwardInv
  <1>3. CASE ~There(k)
    <2>1. hand' = {} /\ Kept(k)
      BY <1>1, <1>3 DEF Extract, There, Kept
    <2>2. LoadIsFresh' /\ LoadSettles'
      BY <1>1, <2>1, SameThere DEF LoadInv, LoadIsFresh, LoadSettles, Kept
    <2> QED
      BY <2>2 DEF LoadInv
  <1>4. CASE There(k)
    <2>1. PICK x : x.key = k /\ x.doc = Last(k) /\ ~x.landed /\ hand' = {x}
      BY <1>1, <1>2, <1>4 DEF Extract, Yield, There
    <2>2. LoadIsFresh' /\ LoadSettles'
      BY <1>1, <2>1, SameThere DEF LoadInv, LoadIsFresh, LoadSettles, Kept
    <2> QED
      BY <2>2 DEF LoadInv
  <1> QED
    BY <1>3, <1>4

LEMMA LoadDoneLoad ==
    ASSUME LoadInv, ForwardInv', UNCHANGED <<source, Connector, Hybrid>>, LoadDone
    PROVE  LoadInv'
  <1>1. /\ UNCHANGED <<log, hand, dest, refused, base>> /\ run = "load" /\ hand = {}
        /\ toRead = {} /\ run' = "stream" /\ rows' = {}
    BY DEF LoadDone, OpenStream
  <1>2. LoadIsFresh' /\ LoadSettles'
    BY <1>1, SameThere DEF LoadInv, LoadIsFresh, LoadSettles, Kept
  <1> QED
    BY <1>1, <1>2 DEF LoadInv

\* A page or a scan reads documents as they are.
LEMMA ReadLoad ==
    ASSUME LoadInv, ForwardInv', UNCHANGED <<source, Connector, Hybrid>>,
           FeedPage \/ Poll \/ \E k \in Keys : PollRead(k)
    PROVE  LoadInv'
  <1>1. UNCHANGED <<log, run, hand, dest, refused, base>> /\ run = "stream"
    BY DEF FeedPage, Poll, PollRead, Idle
  <1>2. \A r \in rows' : r \in rows \/ (r.key \in Keys /\ r.doc = Current(r.key))
    <2>1. CASE FeedPage
      <3>1. PICK page : /\ page \subseteq {i \in DOMAIN log : i = Current(log[i].key)}
                        /\ rows' = {[key |-> log[i].key, doc |-> i, time |-> i] : i \in page}
        BY <2>1 DEF FeedPage
      <3>2. \A i \in DOMAIN log : log[i].key \in Keys
        BY EntryTypes, TypesNamed DEF LoadInv, ForwardInv
      <3> QED
        BY <3>1, <3>2
    <2>2. CASE Poll
      BY <2>2 DEF Poll
    <2>3. ASSUME NEW k \in Keys, PollRead(k)
          PROVE  \A r \in rows' : r \in rows \/ (r.key \in Keys /\ r.doc = Current(r.key))
      BY <2>3 DEF PollRead
    <2> QED BY <2>1, <2>2, <2>3
  <1>3. \A r \in rows' : r \in rows \/ (There(r.key) => r.doc = Last(r.key))
    BY <1>2, ThereIsLast DEF LoadInv, ForwardInv
  <1>4. LoadIsFresh' /\ LoadSettles'
    BY <1>1, <1>3, SameThere DEF LoadInv, LoadIsFresh, LoadSettles, Kept
  <1> QED
    BY <1>4 DEF LoadInv

LEMMA RowLoad ==
    ASSUME LoadInv, ForwardInv', UNCHANGED <<source, Connector, Hybrid>>,
           NEW r \in rows, FeedItem(r) \/ PollRow(r)
    PROVE  LoadInv'
  <1>1. /\ UNCHANGED <<log, run, dest, refused, base, toRead>> /\ run = "stream"
        /\ hand = {} /\ rows' \subseteq rows
        /\ \E mark : Yield(r.key, r.doc, mark)
    BY DEF FeedItem, PollRow, Idle
  <1>2. PICK x : x.key = r.key /\ x.doc = r.doc /\ hand' = {x}
    BY <1>1 DEF Yield
  <1>3. LoadIsFresh' /\ LoadSettles'
    BY <1>1, <1>2, SameThere DEF LoadInv, LoadIsFresh, LoadSettles, Kept
  <1> QED
    BY <1>1, <1>3 DEF LoadInv

\* The write of a document keeps it if it is as it was last changed, and leaves the
\* others alone.
LEMMA LandKeeps ==
    ASSUME ForwardInv, NEW e \in hand, Land(e)
    PROVE  /\ \A k \in Keys \ {e.key} : Kept(k)' <=> Kept(k)
           /\ (There(e.key) => e.doc = Last(e.key)) => Kept(e.key)'
           /\ \E f : hand' = {f} /\ f.key = e.key /\ f.doc = e.doc /\ f.mark = e.mark
  <1>1. e.key \in Keys /\ log' = log
    BY ItemTypes DEF ForwardInv, Land
  <1>2. \A k \in Keys \ {e.key} : Kept(k)' <=> Kept(k)
    BY <1>1, SameThere DEF Land, Kept, ForwardInv, TypeOK
  <1>3. (There(e.key) => e.doc = Last(e.key)) => Kept(e.key)'
    BY <1>1, SameThere DEF Land, Kept, ForwardInv, TypeOK
  <1>4. PICK f : hand' = {f} /\ f = [e EXCEPT !.landed = TRUE]
    BY DEF Land, ForwardInv, WriteIsNewer
  <1>5. f.key = e.key /\ f.doc = e.doc /\ f.mark = e.mark
    BY <1>4, TypesNamed DEF ForwardInv, Item
  <1> QED
    BY <1>2, <1>3, <1>4, <1>5

LEMMA LandLoad ==
    ASSUME LoadInv, ForwardInv', UNCHANGED <<source, Connector, Hybrid>>, NEW e \in hand, Land(e)
    PROVE  LoadInv'
  <1>1. UNCHANGED <<log, run, rows, base, toRead>> /\ e.key \in Keys /\ hand = {e}
    BY ItemTypes DEF Land, LoadInv, ForwardInv, WriteIsNewer
  <1>2. /\ \A k \in Keys \ {e.key} : Kept(k)' <=> Kept(k)
        /\ (There(e.key) => e.doc = Last(e.key)) => Kept(e.key)'
    BY LandKeeps DEF LoadInv
  <1>3. PICK f : hand' = {f} /\ f.key = e.key /\ f.doc = e.doc
    BY LandKeeps DEF LoadInv
  <1>4. run # "off"
    BY DEF LoadInv, LoadIsFresh
  <1>5. LoadIsFresh'
    BY <1>1, <1>3, <1>4, SameThere DEF LoadInv, LoadIsFresh
  <1>6. run \in {"load", "stream"} /\ Last(e.key) <= base => Kept(e.key)'
    BY <1>2 DEF LoadInv, LoadIsFresh
  <1>7. LoadSettles'
    BY <1>1, <1>2, <1>6, SameThere DEF LoadInv, LoadSettles
  <1> QED
    BY <1>5, <1>7 DEF LoadInv

\* Steps that neither read nor write.
LEMMA QuietLoad ==
    ASSUME LoadInv, ForwardInv', UNCHANGED <<source, Connector, Hybrid, log, dest, refused, base>>,
           \/ run' = "off" /\ hand' = {}
           \/ run' = "stopping"
           \/ run' = run /\ toRead' = toRead /\ rows' = rows /\ hand' \subseteq hand /\ \A e \in hand \ hand' : e.landed
    PROVE  LoadInv'
  <1>1. LoadIsFresh'
    BY SameThere DEF LoadInv, LoadIsFresh
  <1>2. LoadSettles'
    BY SameThere DEF LoadInv, LoadSettles, Kept
  <1> QED
    BY <1>1, <1>2 DEF LoadInv

LEMMA LoadStep == ASSUME LoadInv, [Next]_vars PROVE LoadInv'
  <1>1. ForwardInv' /\ UNCHANGED <<source, Connector, Hybrid>>
    BY ForwardStep, SourceStays DEF LoadInv
  <1>2. CASE UNCHANGED vars
    BY <1>1, <1>2, QuietLoad DEF vars
  <1>3. CASE RunStep
    <2>1. CASE Leave
      BY <1>1, <2>1, QuietLoad DEF Leave
    <2>2. ASSUME NEW e \in hand, Advance(e) PROVE LoadInv'
      BY <1>1, <2>2, QuietLoad DEF Advance
    <2> QED
      BY <1>1, <1>3, <2>1, <2>2, ExtractLoad, LoadDoneLoad, ReadLoad, RowLoad, LandLoad DEF RunStep
  <1>4. CASE WorldStep
    <2>1. \A op \in source.ops : op \in Operations
      BY SourceTypes DEF Source, LoadInv, ForwardInv
    <2>2. CASE Stop
      BY <1>1, <2>2, QuietLoad DEF Stop
    <2>3. CASE SourceFails
      BY <1>1, <2>3, QuietLoad DEF SourceFails
    <2>4. CASE Crash
      BY <1>1, <2>4, QuietLoad DEF Crash
    <2>5. ~Split /\ ~Blip
      BY DEF Split, Blip, LoadInv, Scans
    <2> QED
      BY <1>1, <1>4, <2>1, <2>2, <2>3, <2>4, <2>5, ChangeLoad, StartLoad DEF WorldStep
  <1>5. ASSUME NEW s \in Shards, ShardStep(s) PROVE FALSE
    BY <1>5 DEF ShardStep, Deliver, LoadInv, Scans, Logs
  <1> QED
    BY <1>2, <1>3, <1>4, <1>5 DEF Next

LEMMA LoadInit ==
    ASSUME Init, Hybrid, Connector \in Scans
    PROVE  LoadInv
  <1>1. ForwardInv
    BY ForwardInit DEF LateReader
  <1>2. log = <<>> /\ base = 0 /\ Len(log) = 0 /\ 0 <= 0 /\ run = "off" /\ hand = {}
    BY SMT DEF Init
  <1> QED
    BY <1>1, <1>2 DEF LoadInv, LoadIsFresh, LoadSettles

\* With Cosmos DB and Cassandra, a document that is there and unchanged since the latest
\* load began is as the source has it or was refused, however many writes of the runs
\* before were lost with a crash, refused, or skipped by a checkpoint.
THEOREM LoadsReconcile == Spec => []LoadReconciles
  <1> DEFINE Inv == Hybrid /\ Connector \in Scans => LoadInv
  <1>1. Init => Inv
    BY LoadInit
  <1>2. Inv /\ [Next]_vars => Inv'
    BY SourceStays, LoadStep
  <1>3. Inv => LoadReconciles
    <2> SUFFICES ASSUME LoadInv, run = "stream", NEW k \in Keys, Last(k) <= base
                 PROVE  InSync(k) \/ k \in refused \/ Current(k) = 0
      BY DEF LoadReconciles, Vanished
    <2>1. There(k) => Current(k) = Last(k)
      BY ThereIsLast DEF LoadInv, ForwardInv
    <2> QED
      BY <2>1 DEF LoadInv, LoadSettles, Kept, There, InSync
  <1> QED
    BY <1>1, <1>2, <1>3, PTL DEF Spec

-------------------------------------------------------------------------------
(* Sources whose shards stay *)

\* Only DynamoDB replaces shards: otherwise a key stays where it was, and a stream that
\* is open reads it.
HomeInv ==
    /\ TypeOK /\ (Connector = "dynamodb" => "split" \notin source.faults)
    /\ home = ShardOf
    /\ \A i \in DOMAIN log : log[i].shard = home[log[i].key]
    /\ run = "stream" => \A k \in Keys : home[k] \in watched

LEMMA HomeStep == ASSUME HomeInv, [Next]_vars PROVE HomeInv'
  <1>1. TypeOK' /\ UNCHANGED <<source, Connector, ShardOf>>
    BY CaptureTypeStep, SourceStays DEF HomeInv
  <1>2. ASSUME UNCHANGED <<log, home, watched>>, run' = "stream" => run = "stream" PROVE HomeInv'
    BY <1>1, <1>2 DEF HomeInv
  <1>3. ASSUME OpenStream, UNCHANGED <<log, home>> PROVE HomeInv'
    BY <1>1, <1>3 DEF HomeInv, OpenStream
  <1>4. ASSUME NEW k \in Keys, NEW op \in Operations, Change(k, op) PROVE HomeInv'
    <2>1. /\ Len(log') = Len(log) + 1 /\ log'[Len(log) + 1].key = k /\ log'[Len(log) + 1].shard = home[k]
          /\ \A i \in DOMAIN log : log'[i] = log[i]
          /\ DOMAIN log = 1..Len(log) /\ Len(log) \in Nat
      BY <1>4, ChangeAppends, LogLength, TypesNamed DEF HomeInv
    <2>2. DOMAIN log' = 1..Len(log')
      <3>1. log' \in Seq(Entry)
        BY <1>4, ChangeAppends, TypesNamed DEF HomeInv, History
      <3> QED
        BY <3>1, SMT
    <2>3. \A i \in DOMAIN log' : i \in DOMAIN log \/ i = Len(log) + 1
      BY <2>1, <2>2, SMT
    <2>4. \A i \in DOMAIN log' : log'[i].shard = home[log'[i].key]
      BY <2>1, <2>3 DEF HomeInv
    <2>5. UNCHANGED <<home, run, watched>>
      BY <1>4 DEF Change
    <2> QED
      BY <1>1, <2>4, <2>5 DEF HomeInv
  <1>5. CASE RunStep
    <2>1. CASE LoadDone
      BY <1>3, <2>1 DEF LoadDone
    <2>2. CASE ~LoadDone
      <3>1. UNCHANGED <<log, home, watched>> /\ (run' = "stream" => run = "stream")
        BY <1>5, <2>2 DEF RunStep, Extract, PollRead, Land, Advance, FeedPage, Poll, Leave, FeedItem, PollRow
      <3> QED
        BY <1>2, <3>1
    <2> QED BY <2>1, <2>2
  <1>6. CASE WorldStep
    <2>1. \A op \in source.ops : op \in Operations
      BY SourceTypes DEF Source, HomeInv
    <2>2. CASE Start
      BY <1>2, <1>3, <2>2 DEF Start
    <2>3. CASE Stop \/ SourceFails \/ Crash \/ Blip
      BY <1>2, <2>3 DEF Stop, SourceFails, Crash, Blip
    <2>4. ~Split
      BY DEF Split, HomeInv
    <2> QED
      BY <1>4, <1>6, <2>1, <2>2, <2>3, <2>4 DEF WorldStep
  <1>7. ASSUME NEW s \in Shards, ShardStep(s) PROVE HomeInv'
    BY <1>2, <1>7 DEF ShardStep, Deliver
  <1>8. CASE UNCHANGED vars
    BY <1>2, <1>8 DEF vars
  <1> QED
    BY <1>5, <1>6, <1>7, <1>8 DEF Next

LEMMA HomeInit ==
    ASSUME Init, Connector = "dynamodb" => "split" \notin source.faults PROVE HomeInv
  <1>1. DOMAIN log = {} /\ run = "off"
    BY SMT DEF Init
  <1> QED
    BY <1>1, CaptureTypeInit DEF Init, HomeInv, ShardOf

\* Which position has passed a change.
LEMMA HomePlaces ==
    ASSUME HomeInv, NEW k \in Keys, NEW p
    PROVE  /\ Reached(k, p) <=> Last(k) = 0 \/ Last(k) <= p[ShardOf[k]]
           /\ Last(k) # 0 => Place(k) = ShardOf[k]
  <1>1. Last(k) # 0 => Last(k) \in DOMAIN log /\ log[Last(k)].key = k
    BY LastOfKey, TypesNamed DEF HomeInv
  <1> QED
    BY <1>1 DEF Reached, Place, HomeInv

-------------------------------------------------------------------------------
(* The stream of a source that is scanned: one position, and what was read of it *)

\* The stream has come to the last change of k, by its position or by what it read.
Passed(k) == Last(k) <= seen[Shard] \/ \E r \in rows : Last(k) <= r.time

OnTheWay(k) == (\E e \in hand : e.key = k /\ ~e.landed) \/ \E r \in rows : r.key = k

\* No position is ahead of the history, nor is a checkpoint ahead of a load.
WithinLog ==
    /\ seen[Shard] <= Len(log) /\ ckpt[Shard] <= Len(log) /\ saved[Shard] <= Len(log)
    /\ \A r \in rows : r.time <= Len(log)
    /\ \A e \in hand : \A m \in e.mark : m[Shard] <= Len(log)
    /\ run = "load" => ckpt[Shard] <= base /\ \A e \in hand : e.mark = {}

\* What was read of a document that the stream has come to, or that a scan has, is the
\* document as it is; otherwise it has gone astray.
ScanIsFresh ==
    run = "stream" =>
        /\ \A e \in hand : There(e.key) /\ Passed(e.key) => e.doc = Last(e.key) \/ e.key \in astray
        /\ \A r \in rows : There(r.key) /\ (Passed(r.key) \/ toRead # {}) =>
                              r.doc = Last(r.key) \/ r.key \in astray

\* What the position has passed is settled or on its way; what rows have passed may also
\* be ahead of the scan; and a scan has found what it has read.
ScanSettles ==
    run = "stream" =>
        \A k \in Keys : There(k) =>
            /\ Last(k) <= seen[Shard] => Settled(k) \/ OnTheWay(k)
            /\ Passed(k) => Settled(k) \/ OnTheWay(k) \/ k \in toRead
            /\ toRead # {} => k \in toRead \/ k \in astray \/ Last(k) <= seen[Shard] \/ OnTheWay(k)

\* Write times tell rows apart, and all changes but deletions show in the polled column.
TimesArePlaces ==
    Connector = "cassandra" =>
        /\ ~source.ties /\ source.ops \subseteq {"put", "delete"}
        /\ \A i \in DOMAIN log : log[i].op # "patch" /\ log[i].time = i

ScanInv ==
    /\ LoadInv /\ HomeInv /\ \A k \in Keys : ShardOf[k] = Shard
    /\ WithinLog /\ ScanIsFresh /\ ScanSettles /\ TimesArePlaces

LEMMA ScanTypes ==
    ASSUME TypeOK
    PROVE  /\ seen[Shard] \in Nat /\ ckpt[Shard] \in Nat /\ saved[Shard] \in Nat
           /\ Len(log) \in Nat /\ base \in Nat
           /\ \A r \in rows : r.key \in Keys /\ r.doc \in Nat /\ r.time \in Nat
           /\ \A e \in hand : e.key \in Keys /\ e.doc \in Nat /\ \A m \in e.mark : m[Shard] \in Nat
           /\ \A k \in Keys : Last(k) \in Nat
  <1>1. \A e \in hand : \A m \in e.mark : m \in Position
    BY ItemTypes
  <1> QED
    BY <1>1, ItemTypes, ShardIsOne, LogLength, TypesNamed DEF TypeOK, Position

\* A change is ahead of all that was read, and astray if it is behind a scan.
LEMMA ChangeScan ==
    ASSUME ScanInv, LoadInv', HomeInv', UNCHANGED <<source, Connector, ShardOf>>,
           NEW k \in Keys, NEW op \in source.ops, op \in Operations, Change(k, op)
    PROVE  ScanInv'
  <1>0. TypeOK
    BY DEF ScanInv, LoadInv, ForwardInv
  <1>1. UNCHANGED <<run, toRead, seen, rows, hand, ckpt, saved, dest, base, refused>> /\ astray \subseteq astray'
    BY DEF Change
  <1>2. Len(log') = Len(log) + 1 /\ Last(k)' = Len(log) + 1
    BY <1>0, ChangeAppends, ChangeOfOne, TypesNamed
  <1>3. \A q \in Keys \ {k} : Last(q)' = Last(q) /\ Current(q)' = Current(q) /\ There(q)' = There(q)
    BY <1>0, ChangeOfOne, TypesNamed DEF There
  <1>4. \A n \in Nat : n <= Len(log) => n <= Len(log') /\ ~(Last(k)' <= n)
    BY <1>0, <1>2, ScanTypes, SMT
  <1>5. WithinLog'
    BY <1>0, <1>1, <1>4, ScanTypes DEF ScanInv, WithinLog
  <1>6. /\ ~Passed(k)' /\ ~(Last(k)' <= seen[Shard])
        /\ \A q \in Keys \ {k} : Passed(q)' <=> Passed(q)
    BY <1>0, <1>1, <1>3, <1>4, ScanTypes DEF ScanInv, WithinLog, Passed
  <1>7. run = "stream" /\ toRead # {} => Connector = "cassandra" /\ \A r \in rows : r.key \notin toRead
    BY DEF ScanInv, LoadInv, ForwardInv, RowsAreNewer
  <1>8. run = "stream" /\ toRead # {} /\ k \notin toRead => k \in astray'
    BY <1>7 DEF Change, BehindScan
  <1>9. ScanIsFresh'
    BY <1>0, <1>1, <1>3, <1>6, <1>7, <1>8, ScanTypes DEF ScanInv, ScanIsFresh
  <1>10. ScanSettles'
    <2> SUFFICES ASSUME run = "stream", NEW q \in Keys, There(q)'
                 PROVE  /\ Last(q)' <= seen[Shard] => Settled(q)' \/ OnTheWay(q)'
                        /\ Passed(q)' => Settled(q)' \/ OnTheWay(q)' \/ q \in toRead
                        /\ toRead # {} => \/ q \in toRead \/ q \in astray'
                                          \/ Last(q)' <= seen[Shard] \/ OnTheWay(q)'
      BY <1>1 DEF ScanSettles
    <2>1. CASE q = k
      BY <1>6, <1>8, <2>1
    <2>2. CASE q # k
      <3>1. Last(q)' = Last(q) /\ There(q) /\ (Passed(q)' <=> Passed(q))
        BY <1>3, <1>6, <2>2
      <3>2. (Settled(q) => Settled(q)') /\ (OnTheWay(q)' <=> OnTheWay(q))
        BY <1>1, <1>3, <2>2 DEF Settled, OnTheWay
      <3> QED
        BY <1>1, <3>1, <3>2 DEF ScanInv, ScanSettles
    <2> QED BY <2>1, <2>2
  <1>11. TimesArePlaces'
    <2> SUFFICES ASSUME Connector = "cassandra"
                 PROVE  \A i \in DOMAIN log' : log'[i].op # "patch" /\ log'[i].time = i
      BY DEF ScanInv, TimesArePlaces
    <2>1. ~source.ties /\ op # "patch" /\ \A i \in DOMAIN log : log[i].op # "patch" /\ log[i].time = i
      BY DEF ScanInv, TimesArePlaces
    <2>2. Now = Len(log)
      <3>1. CASE log = <<>>
        BY <3>1 DEF Now
      <3>2. CASE log # <<>>
        <4>1. Len(log) \in DOMAIN log
          BY <1>0, <3>2, TypesNamed, SMT DEF History
        <4> QED
          BY <2>1, <3>2, <4>1 DEF Now
      <3> QED BY <3>1, <3>2
    <2>3. log' = Append(log, [key |-> k, op |-> op, time |-> Len(log) + 1, shard |-> home[k]])
      BY <2>1, <2>2 DEF Change
    <2>4. log'[Len(log) + 1].op = op /\ log'[Len(log) + 1].time = Len(log) + 1
      <3> DEFINE x == [key |-> k, op |-> op, time |-> Len(log) + 1, shard |-> home[k]]
      <3>1. log' = Append(log, x) /\ x.op = op /\ x.time = Len(log) + 1
        BY <2>3
      <3> HIDE DEF x
      <3>2. log'[Len(log) + 1] = x
        BY <1>0, <3>1, TypesNamed, SMT DEF History
      <3> QED
        BY <3>1, <3>2
    <2>5. \A i \in DOMAIN log' : i \in DOMAIN log \/ i = Len(log) + 1
      <3>1. DOMAIN log' = 1..(Len(log) + 1) /\ DOMAIN log = 1..Len(log) /\ Len(log) \in Nat
        BY <1>0, <1>2, ChangeAppends, LogLength, TypesNamed
      <3> QED
        BY <3>1, SMT
    <2>6. \A i \in DOMAIN log : log'[i] = log[i]
      BY <1>0, ChangeAppends, TypesNamed
    <2> QED
      BY <2>1, <2>4, <2>5, <2>6
  <1> QED
    BY <1>5, <1>9, <1>10, <1>11 DEF ScanInv

\* Steps that leave what was read alone, or end what the stream promises.
LEMMA QuietScan ==
    ASSUME ScanInv, LoadInv', HomeInv', UNCHANGED <<source, Connector, ShardOf, log, seen, dest, refused>>,
           rows' \subseteq rows, hand' \subseteq hand, \A e \in hand \ hand' : e.landed \/ run' # "stream",
           run' # "load",
           run' = "stream" => run = "stream" /\ rows' = rows /\ toRead' = toRead /\ astray' = astray,
           ckpt'[Shard] \in {ckpt[Shard], saved[Shard]} \cup {m[Shard] : m \in UNION {e.mark : e \in hand}},
           saved'[Shard] \in {saved[Shard], ckpt[Shard], ckpt'[Shard]}
    PROVE  ScanInv'
  <1>1. WithinLog'
    BY DEF ScanInv, WithinLog
  <1>2. run' = "stream" => \A k \in Keys : Passed(k)' <=> Passed(k)
    BY SameLog DEF Passed
  <1>3. ScanIsFresh'
    BY <1>2, ItemTypes, SameThere DEF ScanInv, LoadInv, ForwardInv, ScanIsFresh
  <1>4. ScanSettles'
    <2> SUFFICES ASSUME run' = "stream", NEW k \in Keys, There(k)'
                 PROVE  /\ Last(k)' <= seen'[Shard] => Settled(k)' \/ OnTheWay(k)'
                        /\ Passed(k)' => Settled(k)' \/ OnTheWay(k)' \/ k \in toRead'
                        /\ toRead' # {} => \/ k \in toRead' \/ k \in astray'
                                           \/ Last(k)' <= seen'[Shard] \/ OnTheWay(k)'
      BY DEF ScanSettles
    <2>1. Last(k)' = Last(k) /\ There(k) /\ (Passed(k)' <=> Passed(k))
      BY <1>2, SameThere
    <2>2. Settled(k)' <=> Settled(k)
      BY SameLog DEF Settled
    <2>3. OnTheWay(k)' <=> OnTheWay(k)
      BY DEF OnTheWay
    <2> QED
      BY <2>1, <2>2, <2>3 DEF ScanInv, ScanSettles
  <1> QED
    BY <1>1, <1>3, <1>4 DEF ScanInv, TimesArePlaces

LEMMA StartScan ==
    ASSUME ScanInv, LoadInv', HomeInv', UNCHANGED <<source, Connector, ShardOf>>, Start
    PROVE  ScanInv'
  <1>1. /\ run' = "load" /\ base' = Len(log) /\ saved' = ckpt /\ hand = {} /\ rows = {}
        /\ UNCHANGED <<log, seen, rows, hand, ckpt, dest, refused>>
    BY DEF Start, ScanInv, LoadInv, LoadIsFresh, ForwardInv, RowsAreNewer
  <1>2. WithinLog'
    BY <1>1 DEF ScanInv, WithinLog
  <1> QED
    BY <1>1, <1>2 DEF ScanInv, ScanIsFresh, ScanSettles, TimesArePlaces

LEMMA ExtractScan ==
    ASSUME ScanInv, LoadInv', HomeInv', UNCHANGED <<source, Connector, ShardOf>>, NEW k \in Keys, Extract(k)
    PROVE  ScanInv'
  <1>1. /\ run = "load" /\ run' = "load" /\ hand = {}
        /\ UNCHANGED <<log, seen, rows, ckpt, saved, dest, refused, base>>
        /\ \A e \in hand' : e.mark = {}
    BY DEF Extract, Yield
  <1>2. WithinLog'
    BY <1>1 DEF ScanInv, WithinLog
  <1> QED
    BY <1>1, <1>2 DEF ScanInv, ScanIsFresh, ScanSettles, TimesArePlaces

\* The load has settled what the stream passes over.
LEMMA LoadDoneScan ==
    ASSUME ScanInv, LoadInv', HomeInv', UNCHANGED <<source, Connector, ShardOf>>, LoadDone
    PROVE  ScanInv'
  <1>1. /\ run = "load" /\ run' = "stream" /\ hand = {} /\ rows' = {} /\ seen' = ckpt /\ saved' = ckpt
        /\ toRead' = {} /\ UNCHANGED <<log, hand, ckpt, dest, refused, base>>
    BY DEF LoadDone, OpenStream, OpenAt, ScanInv, LoadInv, Scans
  <1>2. WithinLog'
    BY <1>1 DEF ScanInv, WithinLog
  <1>3. ASSUME NEW k \in Keys, There(k)', Passed(k)' PROVE Settled(k)'
    <2>1. Last(k)' <= ckpt[Shard] /\ Last(k)' = Last(k) /\ ckpt[Shard] <= base
      BY <1>1, <1>3, SameLog DEF Passed, ScanInv, WithinLog
    <2>2. Last(k)' \in Nat /\ ckpt[Shard] \in Nat /\ base \in Nat
      BY <2>1, ScanTypes DEF ScanInv, LoadInv, ForwardInv
    <2>3. Last(k)' <= base
      BY <2>1, <2>2, SMT
    <2>4. Kept(k)'
      BY <1>1, <2>3 DEF LoadInv, LoadSettles
    <2>5. TypeOK => (There(k) => Current(k) = Last(k))
      BY ThereIsLast
    <2>6. There(k) /\ Current(k)' = Current(k) /\ Last(k)' = Last(k)
      BY <1>1, <1>3, SameThere, SameLog
    <2> QED
      BY <1>3, <2>4, <2>5, <2>6 DEF Kept, Settled, ScanInv, LoadInv, ForwardInv
  <1>4. ScanSettles'
    BY <1>1, <1>3 DEF ScanSettles, Passed
  <1> QED
    BY <1>1, <1>2, <1>4 DEF ScanInv, ScanIsFresh, TimesArePlaces

LEMMA LandScan ==
    ASSUME ScanInv, LoadInv', HomeInv', UNCHANGED <<source, Connector, ShardOf>>, NEW e \in hand, Land(e)
    PROVE  ScanInv'
  <1>1. /\ UNCHANGED <<log, run, toRead, seen, rows, ckpt, saved, base>> /\ e.key \in Keys /\ hand = {e}
        /\ ~e.landed
    BY ItemTypes DEF Land, ScanInv, LoadInv, ForwardInv, WriteIsNewer
  <1>2. PICK f : hand' = {f} /\ f.key = e.key /\ f.doc = e.doc /\ f.mark = e.mark
    BY LandKeeps DEF ScanInv, LoadInv
  <1>3. \A k \in Keys : Passed(k)' <=> Passed(k)
    BY <1>1, SameLog DEF Passed
  <1>4. WithinLog'
    BY <1>1, <1>2 DEF ScanInv, WithinLog
  <1>5. \A q : q # e.key => (q \in astray' <=> q \in astray)
    BY DEF Land, Found
  <1>6. e.doc # Current(e.key) => astray' = astray
    BY DEF Land, Found
  <1>7. There(e.key) => Current(e.key) = Last(e.key)
    BY <1>1, ThereIsLast DEF ScanInv, LoadInv, ForwardInv
  <1>8. \A r \in rows : r.key \in Keys /\ r.key # e.key
    BY <1>1, ItemTypes DEF ScanInv, LoadInv, ForwardInv, RowsAreNewer
  <1>9. run = "stream" => toRead = {}
    BY <1>1 DEF ScanInv, LoadInv, ForwardInv, RowsAreNewer
  <1>10. ScanIsFresh'
    BY <1>1, <1>2, <1>3, <1>5, <1>6, <1>7, <1>8, SameThere DEF ScanInv, ScanIsFresh
  <1>11. \A k \in Keys \ {e.key} : Settled(k) => Settled(k)'
    BY <1>1, <1>5, SameLog DEF Land, Settled, ScanInv, LoadInv, ForwardInv, TypeOK
  <1>12. e.doc = Current(e.key) => Settled(e.key)'
    BY <1>1, SameLog DEF Land, Settled, ScanInv, LoadInv, ForwardInv, TypeOK
  <1>13. run = "stream" /\ There(e.key) /\ Passed(e.key) => Settled(e.key)'
    <2>1. e.key \in astray' => Settled(e.key)'
      BY DEF Settled
    <2> QED
      BY <1>6, <1>7, <1>12, <2>1 DEF ScanInv, ScanIsFresh
  <1>14. ScanSettles'
    <2> SUFFICES ASSUME run = "stream", NEW k \in Keys, There(k), Passed(k)
                 PROVE  Settled(k)' \/ OnTheWay(k)'
      BY <1>1, <1>3, <1>9, SameThere DEF ScanSettles, Passed
    <2>1. CASE k = e.key
      BY <1>13, <2>1
    <2>2. CASE k # e.key /\ ~Settled(k)
      <3>1. OnTheWay(k)
        BY <1>9, <2>2 DEF ScanInv, ScanSettles
      <3>2. \E r \in rows : r.key = k
        BY <1>1, <2>2, <3>1 DEF OnTheWay
      <3> QED
        BY <1>1, <3>2 DEF OnTheWay
    <2> QED
      BY <1>11, <2>1, <2>2
  <1> QED
    BY <1>1, <1>4, <1>10, <1>14 DEF ScanInv, TimesArePlaces

\* A row that is taken up: whatever the position passes by it, it had been read.
LEMMA TakeScan ==
    ASSUME ScanInv, LoadInv', HomeInv', UNCHANGED <<source, Connector, ShardOf, log, run, toRead, ckpt, saved, dest, refused, astray, base>>,
           run = "stream", hand = {}, toRead = {}, NEW r \in rows, rows' = rows \ {r},
           seen'[Shard] \in {seen[Shard], r.time}, NEW mark, mark \subseteq {seen'}, Yield(r.key, r.doc, mark)
    PROVE  ScanInv'
  <1>1. PICK x : /\ x.key = r.key /\ x.doc = r.doc /\ x.mark = mark /\ ~x.landed /\ hand' = {x}
    BY DEF Yield
  <1>2. \A k \in Keys : Passed(k)' => Passed(k)
    BY SameLog DEF Passed
  <1>3. seen'[Shard] <= Len(log)
    BY DEF ScanInv, WithinLog
  <1>4. WithinLog'
    BY <1>1, <1>3 DEF ScanInv, WithinLog
  <1>5. ScanIsFresh'
    BY <1>1, <1>2, ItemTypes, SameThere DEF ScanInv, LoadInv, ForwardInv, ScanIsFresh
  <1>6. \A k \in Keys : OnTheWay(k) => OnTheWay(k)'
    BY <1>1 DEF OnTheWay
  <1>7. \A k \in Keys : Settled(k) => Settled(k)'
    BY SameLog DEF Settled
  <1>8. ScanSettles'
    <2> SUFFICES ASSUME NEW k \in Keys, There(k), Passed(k) PROVE Settled(k)' \/ OnTheWay(k)'
      BY <1>2, SameThere DEF ScanSettles, Passed
    <2> QED
      BY <1>6, <1>7 DEF ScanInv, ScanSettles
  <1> QED
    BY <1>4, <1>5, <1>8 DEF ScanInv, TimesArePlaces

LEMMA RowScan ==
    ASSUME ScanInv, LoadInv', HomeInv', UNCHANGED <<source, Connector, ShardOf>>, NEW r \in rows,
           FeedItem(r) \/ PollRow(r)
    PROVE  ScanInv'
  <1>1. CASE FeedItem(r)
    <2>1. toRead = {}
      BY <1>1 DEF FeedItem, Idle, ScanInv, LoadInv, ForwardInv, RowsAreNewer
    <2> QED
      BY <1>1, <2>1, TakeScan DEF FeedItem, Idle
  <1>2. CASE PollRow(r)
    <2>1. seen' = [seen EXCEPT ![Shard] = Max({seen[Shard], r.time})]
      BY <1>2 DEF PollRow
    <2>2. seen[Shard] \in Nat /\ r.time \in Nat
      BY ScanTypes DEF ScanInv, LoadInv, ForwardInv
    <2>3. Max({seen[Shard], r.time}) \in {seen[Shard], r.time}
      <3>1. {seen[Shard], r.time} \in SUBSET (0..(seen[Shard] + r.time)) /\ seen[Shard] + r.time \in Nat
        BY <2>2, SMT
      <3> QED
        BY <3>1, MaxIsGreatest
    <2>4. seen'[Shard] \in {seen[Shard], r.time}
      BY <2>1, <2>3, ShardIsOne DEF ScanInv, LoadInv, ForwardInv, TypeOK, Position
    <2> QED
      BY <1>2, <2>4, TakeScan DEF PollRow, Idle
  <1> QED
    BY <1>1, <1>2

\* The page holds every document that is there and whose last change lies between the
\* position and its end.
LEMMA FeedPageScan ==
    ASSUME ScanInv, LoadInv', HomeInv', UNCHANGED <<source, Connector, ShardOf>>, FeedPage
    PROVE  ScanInv'
  <1> DEFINE ahead == {i \in DOMAIN log : i > seen[Shard] /\ i = Current(log[i].key)}
  <1> DEFINE upTo(i) == {j \in ahead : j <= i}
  <1> DEFINE page == {i \in ahead : Cardinality(upTo(i)) <= PageSize}
  <1>0. TypeOK /\ seen[Shard] \in Nat /\ Len(log) \in Nat
    BY ScanTypes DEF ScanInv, LoadInv, ForwardInv
  <1>1. page # {} /\ rows' = {[key |-> log[i].key, doc |-> i, time |-> i] : i \in page}
        /\ seen' = [seen EXCEPT ![Shard] = Max(page)] /\ UNCHANGED log
    BY DEF FeedPage
  <1>2. ahead \subseteq 1..Len(log) /\ IsFiniteSet(ahead)
    <2>1. ahead \subseteq 1..Len(log)
      BY <1>0, LogLength, TypesNamed
    <2> HIDE DEF ahead
    <2>2. IsFiniteSet(1..Len(log))
      BY <1>0, FS_Interval, SMT
    <2> QED
      BY <2>1, <2>2, FS_Subset
  <1>3. \A i \in ahead : IsFiniteSet(upTo(i)) /\ Cardinality(upTo(i)) \in Nat
    BY <1>2, FS_Subset, FS_CardinalityType
  <1>4. PICK last \in page : last = Max(page) /\ \A i \in page : i <= last
    <2>1. page \in SUBSET (0..Len(log))
      BY <1>2, SMT
    <2>2. Max(page) \in page /\ \A i \in page : Max(page) >= i
      BY <1>0, <1>1, <2>1, MaxIsGreatest
    <2> HIDE DEF page
    <2>3. \A i \in page : i \in Int
      BY <2>1
    <2> QED
      BY <2>2, <2>3, SMT
  <1>5. ASSUME NEW i \in ahead, i <= last PROVE i \in page
    <2>1. i \in Int /\ last \in Int /\ \A j \in ahead : j \in Int
      BY <1>2, <1>4
    <2>2. upTo(i) \subseteq upTo(last)
      BY <1>5, <2>1, SMT
    <2>3. IsFiniteSet(upTo(last)) /\ last \in ahead
      BY <1>3, <1>4
    <2>4. Cardinality(upTo(i)) <= Cardinality(upTo(last))
      BY <2>2, <2>3, FS_Subset
    <2>5. Cardinality(upTo(last)) <= PageSize /\ PageSize \in Nat
      BY <1>4, CaptureAssumption
    <2>6. Cardinality(upTo(i)) \in Nat /\ Cardinality(upTo(last)) \in Nat
      BY <1>3, <2>3
    <2>7. Cardinality(upTo(i)) <= PageSize
      BY <2>4, <2>5, <2>6, SMT
    <2> QED
      BY <2>7
  <1> HIDE DEF page
  <1>6. last \in 1..Len(log) /\ \A i \in page : i \in 1..Len(log)
    BY <1>2, <1>4 DEF page
  <1>7. seen'[Shard] = last
    BY <1>0, <1>1, <1>4, ShardIsOne DEF TypeOK, Position
  <1>8. \A r \in rows' : r.time \in Nat /\ r.time <= last /\ r.time <= Len(log)
    BY <1>1, <1>4, <1>6
  <1>9. ASSUME NEW k \in Keys, There(k), Passed(k)', ~(Last(k) <= seen[Shard])
        PROVE  \E r \in rows' : r.key = k
    <2>1. Last(k)' = Last(k) /\ Last(k) \in Nat
      BY <1>0, <1>1, SameLog, ScanTypes
    <2>2. Last(k) <= last
      BY <1>6, <1>7, <1>8, <1>9, <2>1, SMT DEF Passed
    <2>3. Last(k) > seen[Shard] /\ Last(k) # 0
      BY <1>0, <1>9, <2>1, SMT
    <2>4. Last(k) \in DOMAIN log /\ log[Last(k)].key = k
      BY <1>0, <2>3, LastOfKey, TypesNamed
    <2>5. Current(k) = Last(k)
      BY <1>0, <1>9, ThereIsLast
    <2>6. Last(k) \in ahead
      BY <2>3, <2>4, <2>5
    <2>7. Last(k) \in page
      BY <1>5, <2>2, <2>6
    <2>8. [key |-> log[Last(k)].key, doc |-> Last(k), time |-> Last(k)] \in rows'
      BY <1>1, <2>7
    <2> QED
      BY <2>4, <2>8
  <1>10. /\ UNCHANGED <<run, toRead, hand, ckpt, saved, dest, refused, astray, base>>
         /\ hand = {} /\ rows = {} /\ run = "stream" /\ toRead = {}
    BY DEF FeedPage, Idle, ScanInv, LoadInv, ForwardInv, RowsAreNewer
  <1>11. last <= Len(log)
    BY <1>6
  <1>12. WithinLog'
    BY <1>1, <1>7, <1>8, <1>10, <1>11 DEF ScanInv, WithinLog
  <1>13. ScanIsFresh'
    <2>1. ASSUME NEW r \in rows' PROVE r.key \in Keys /\ r.doc = Current(r.key)
      <3>1. PICK i \in page : r = [key |-> log[i].key, doc |-> i, time |-> i]
        BY <1>1, <2>1
      <3>2. i \in DOMAIN log /\ i = Current(log[i].key)
        BY <3>1 DEF page
      <3> QED
        BY <1>0, <3>1, <3>2, EntryTypes, TypesNamed
    <2>2. \A r \in rows' : There(r.key) => r.doc = Last(r.key)
      BY <1>0, <2>1, ThereIsLast
    <2> QED
      BY <1>1, <1>10, <2>2, SameThere DEF ScanIsFresh
  <1>14. \A k \in Keys : Settled(k) <=> Settled(k)'
    BY <1>1, <1>10, SameLog DEF Settled
  <1>15. ScanSettles'
    <2> SUFFICES ASSUME NEW k \in Keys, There(k), Passed(k)' PROVE Settled(k)' \/ OnTheWay(k)'
      BY <1>1, <1>10, SameThere DEF ScanSettles, Passed
    <2>1. CASE Last(k) <= seen[Shard]
      BY <1>10, <1>14, <2>1 DEF ScanInv, ScanSettles, OnTheWay
    <2>2. CASE ~(Last(k) <= seen[Shard])
      BY <1>9, <2>2 DEF OnTheWay
    <2> QED BY <2>1, <2>2
  <1> QED
    BY <1>1, <1>12, <1>13, <1>15 DEF ScanInv, TimesArePlaces

\* Where nothing is patched and all times differ, the write time of a row that is there
\* is the place of its last change.
LEMMA WriteTimeIsLast ==
    ASSUME TypeOK, NEW k \in Keys, There(k), \A i \in DOMAIN log : log[i].op # "patch" /\ log[i].time = i
    PROVE  WriteTime(k) = Last(k)
  <1> DEFINE puts == {i \in Changes(k, Len(log)) : log[i].op = "put"}
  <1>1. puts \subseteq DOMAIN log /\ puts \in SUBSET (0..Len(log)) /\ Len(log) \in Nat
    BY LogLength, TypesNamed, SMT DEF Changes
  <1>2. WriteTime(k) = IF puts = {} THEN 0 ELSE log[Max(puts)].time
    BY DEF WriteTime
  <1>3. Last(k) \in DOMAIN log /\ log[Last(k)].key = k /\ Last(k) \in 0..Len(log)
    BY ThereIsLast, LastOfKey, TypesNamed
  <1>4. log[Last(k)].op = "put"
    <2>1. log[Last(k)].op \in Operations
      BY <1>3, EntryTypes, TypesNamed DEF Entry
    <2>2. log[Last(k)].op # "delete"
      BY <1>3 DEF There, Current, Doc
    <2> QED
      BY <1>3, <2>1, <2>2 DEF Operations
  <1>5. Last(k) \in puts
    BY <1>3, <1>4, LogLength, TypesNamed DEF Changes
  <1>6. \A i \in puts : i <= Last(k)
    BY LastOfKey, TypesNamed DEF Changes
  <1> HIDE DEF puts
  <1>7. Max(puts) \in puts /\ Max(puts) >= Last(k)
    BY <1>1, <1>5, MaxIsGreatest
  <1>8. Max(puts) = Last(k)
    BY <1>1, <1>3, <1>6, <1>7, SMT
  <1> QED
    BY <1>2, <1>3, <1>5, <1>8

\* A scan has all before it; nothing is read twice.
LEMMA PollScan ==
    ASSUME ScanInv, LoadInv', HomeInv', UNCHANGED <<source, Connector, ShardOf>>, Poll
    PROVE  ScanInv'
  <1>1. /\ UNCHANGED <<log, run, seen, rows, hand, ckpt, saved, dest, refused, astray, base>>
        /\ hand = {} /\ rows = {} /\ run = "stream" /\ toRead = {} /\ toRead' = Keys
    BY DEF Poll, Idle
  <1>2. WithinLog'
    BY <1>1 DEF ScanInv, WithinLog
  <1>3. ScanIsFresh'
    BY <1>1 DEF ScanIsFresh
  <1>4. \A k \in Keys : Settled(k) <=> Settled(k)'
    BY <1>1, SameLog DEF Settled
  <1>5. ScanSettles'
    BY <1>1, <1>4, SameThere DEF ScanInv, ScanSettles, OnTheWay
  <1> QED
    BY <1>1, <1>2, <1>3, <1>5 DEF ScanInv, TimesArePlaces

\* The scan finds a row written since the position, as it is.
LEMMA PollReadScan ==
    ASSUME ScanInv, LoadInv', HomeInv', UNCHANGED <<source, Connector, ShardOf>>, NEW k \in Keys, PollRead(k)
    PROVE  ScanInv'
  <1>0. TypeOK /\ seen[Shard] \in Nat /\ Len(log) \in Nat
    BY ScanTypes DEF ScanInv, LoadInv, ForwardInv
  <1>1. /\ UNCHANGED <<log, run, seen, hand, ckpt, saved, dest, refused, astray, base>>
        /\ hand = {} /\ run = "stream" /\ Connector = "cassandra" /\ k \in toRead /\ toRead' = toRead \ {k}
    BY DEF PollRead, ScanInv, LoadInv, ForwardInv, RowsAreNewer
  <1>2. PICK x : /\ x.key = k /\ x.doc = Current(k) /\ x.time = WriteTime(k)
                 /\ rows' = IF Newer(k) THEN rows \cup {x} ELSE rows
    <2>1. PICK x : x = [key |-> k, doc |-> Current(k), time |-> WriteTime(k)]
      OBVIOUS
    <2>2. x.key = k /\ x.doc = Current(k) /\ x.time = WriteTime(k)
      BY <2>1
    <2> QED
      BY <2>1, <2>2 DEF PollRead
  <1>3. There(k) => WriteTime(k) = Last(k) /\ Current(k) = Last(k)
    BY <1>0, <1>1, WriteTimeIsLast, ThereIsLast DEF ScanInv, TimesArePlaces
  <1>4. Last(k) \in 0..Len(log)
    BY <1>0, LastOfKey, TypesNamed
  <1>5. WithinLog'
    <2>1. Newer(k) => x.time <= Len(log)
      BY <1>2, <1>3, <1>4 DEF Newer, There
    <2> QED
      BY <1>1, <1>2, <2>1 DEF ScanInv, WithinLog
  <1>6. ScanIsFresh'
    BY <1>1, <1>2, <1>3, SameThere DEF ScanInv, ScanIsFresh
  <1>7. \A q \in Keys : (Settled(q) <=> Settled(q)') /\ (OnTheWay(q) => OnTheWay(q)')
    BY <1>1, <1>2, SameLog DEF Settled, OnTheWay
  <1>8. There(k) => Last(k) <= seen[Shard] \/ OnTheWay(k)'
    <2>1. CASE Newer(k)
      BY <1>2, <2>1 DEF OnTheWay
    <2>2. CASE ~Newer(k)
      BY <1>0, <1>3, <1>4, <2>2, SMT DEF Newer, There
    <2> QED BY <2>1, <2>2
  <1>9. ASSUME NEW q \in Keys, There(q), q \notin toRead'
        PROVE  q \in astray \/ Last(q) <= seen[Shard] \/ OnTheWay(q)'
    BY <1>1, <1>7, <1>8, <1>9 DEF ScanInv, ScanSettles
  <1>10. ASSUME NEW q \in Keys, There(q), Last(q) <= seen[Shard]
         PROVE  Settled(q)' \/ OnTheWay(q)'
    BY <1>1, <1>7, <1>10 DEF ScanInv, ScanSettles
  <1>11. \A q \in astray' : Settled(q)'
    BY DEF Settled
  <1>12. ScanSettles'
    BY <1>1, <1>9, <1>10, <1>11, SameThere DEF ScanSettles
  <1> QED
    BY <1>1, <1>5, <1>6, <1>12 DEF ScanInv, TimesArePlaces

LEMMA ScanStep == ASSUME ScanInv, [Next]_vars PROVE ScanInv'
  <1>1. LoadInv' /\ HomeInv' /\ UNCHANGED <<source, Connector, ShardOf>>
    BY LoadStep, HomeStep, SourceStays DEF ScanInv
  <1>2. CASE UNCHANGED vars
    BY <1>1, <1>2, SameLog, SameThere
       DEF vars, ScanInv, WithinLog, ScanIsFresh, ScanSettles, Passed, OnTheWay, Settled, TimesArePlaces
  <1>3. CASE RunStep
    <2>1. CASE Leave
      BY <1>1, <2>1, QuietScan DEF Leave
    <2>2. ASSUME NEW e \in hand, Advance(e) PROVE ScanInv'
      <3>1. CASE run = "load"
        <4>1. ckpt' = ckpt /\ saved' \in {saved, ckpt} /\ hand' \subseteq hand /\ run' = "load"
              /\ UNCHANGED <<log, seen, rows, dest, refused, base>>
          BY <2>2, <3>1 DEF Advance, ScanInv, WithinLog
        <4>2. WithinLog'
          BY <3>1, <4>1 DEF ScanInv, WithinLog
        <4> QED
          BY <1>1, <4>1, <4>2 DEF ScanInv, ScanIsFresh, ScanSettles, TimesArePlaces
      <3>2. CASE run # "load"
        <4>1. ckpt' = ckpt \/ \E m \in e.mark : ckpt' = m
          BY <2>2 DEF Advance
        <4> QED
          BY <1>1, <2>2, <3>2, <4>1, QuietScan DEF Advance
      <3> QED BY <3>1, <3>2
    <2> QED
      BY <1>1, <1>3, <2>1, <2>2, ExtractScan, LoadDoneScan, LandScan, FeedPageScan, PollScan,
         PollReadScan, RowScan
      DEF RunStep
  <1>4. CASE WorldStep
    <2>1. \A op \in source.ops : op \in Operations
      BY SourceTypes DEF Source, ScanInv, LoadInv, ForwardInv
    <2>2. CASE Stop
      BY <1>1, <2>2, QuietScan DEF Stop
    <2>3. CASE SourceFails
      BY <1>1, <2>3, QuietScan DEF SourceFails
    <2>4. CASE Crash
      BY <1>1, <2>4, QuietScan DEF Crash
    <2>5. ~Split /\ ~Blip
      BY DEF Split, Blip, ScanInv, LoadInv, Scans
    <2> QED
      BY <1>1, <1>4, <2>1, <2>2, <2>3, <2>4, <2>5, ChangeScan, StartScan DEF WorldStep
  <1>5. ASSUME NEW s \in Shards, ShardStep(s) PROVE FALSE
    BY <1>5 DEF ShardStep, Deliver, ScanInv, LoadInv, Scans, Logs
  <1> QED
    BY <1>2, <1>3, <1>4, <1>5 DEF Next

LEMMA ScanInit ==
    ASSUME Init, Hybrid, Connector \in Scans, \A k \in Keys : ShardOf[k] = Shard,
           Connector = "cassandra" => ~source.ties /\ source.ops \subseteq {"put", "delete"}
    PROVE  ScanInv
  <1>1. LoadInv /\ HomeInv
    BY LoadInit, HomeInit DEF Scans
  <1>2. /\ log = <<>> /\ Len(log) = 0 /\ 0 <= 0 /\ run = "off" /\ hand = {} /\ rows = {}
        /\ seen[Shard] = 0 /\ ckpt[Shard] = 0 /\ saved[Shard] = 0
    BY ShardIsOne, SMT DEF Init, Beginning
  <1>3. DOMAIN log = {}
    BY <1>2, SMT
  <1>4. WithinLog
    BY <1>2 DEF WithinLog
  <1>5. TimesArePlaces
    BY <1>3 DEF TimesArePlaces
  <1> QED
    BY <1>1, <1>2, <1>4, <1>5 DEF ScanInv, ScanIsFresh, ScanSettles

-------------------------------------------------------------------------------
(* Sources without a checkpoint: MongoDB, whose token is not in the change, and Redis *)

Tokenless == Connector \in {"mongodb", "redis"}

NoTokens == TypeOK /\ Tokenless /\ ckpt = Beginning /\ saved = Beginning /\ \A e \in hand : e.mark = {}

LEMMA TokenlessStep == ASSUME NoTokens, [Next]_vars PROVE NoTokens'
  <1>1. TypeOK' /\ UNCHANGED <<source, Connector, Hybrid, ShardOf>> /\ Connector # "dynamodb"
    BY CaptureTypeStep, SourceStays DEF NoTokens, Tokenless
  <1> SUFFICES ckpt' = Beginning /\ saved' = Beginning /\ \A e \in hand' : e.mark = {}
    BY <1>1 DEF NoTokens, Tokenless, Beginning
  <1>2. CASE UNCHANGED vars
    BY <1>2 DEF vars, NoTokens
  <1>3. CASE RunStep
    <2>1. /\ ~FeedPage /\ ~Poll /\ \A r \in rows : ~FeedItem(r) /\ ~PollRow(r)
          /\ \A k \in Keys : ~PollRead(k)
      BY DEF NoTokens, Tokenless, FeedPage, Poll, PollRead, FeedItem, PollRow
    <2>2. ASSUME NEW k \in Keys, Extract(k)
          PROVE  ckpt' = Beginning /\ saved' = Beginning /\ \A e \in hand' : e.mark = {}
      BY <2>2 DEF Extract, Yield, NoTokens
    <2>3. ASSUME NEW e \in hand, Land(e)
          PROVE  ckpt' = Beginning /\ saved' = Beginning /\ \A f \in hand' : f.mark = {}
      <3>1. [e EXCEPT !.landed = TRUE].mark = e.mark
        BY TypesNamed DEF NoTokens, Item
      <3> QED
        BY <2>3, <3>1 DEF Land, NoTokens
    <2>4. ASSUME NEW e \in hand, Advance(e)
          PROVE  ckpt' = Beginning /\ saved' = Beginning /\ \A f \in hand' : f.mark = {}
      BY <2>4 DEF Advance, NoTokens
    <2>5. CASE LoadDone
      BY <2>5 DEF LoadDone, NoTokens
    <2>6. CASE Leave
      BY <2>6 DEF Leave, NoTokens
    <2> QED
      BY <1>3, <2>1, <2>2, <2>3, <2>4, <2>5, <2>6 DEF RunStep
  <1>4. CASE WorldStep
    BY <1>4 DEF WorldStep, Change, Split, Blip, Start, Stop, SourceFails, Crash, NoTokens
  <1>5. ASSUME NEW s \in Shards, ShardStep(s)
        PROVE  ckpt' = Beginning /\ saved' = Beginning /\ \A e \in hand' : e.mark = {}
    <2>1. Mark(s, seen') = {}
      BY <1>1 DEF Mark
    <2>2. UNCHANGED <<ckpt, saved>> /\ (hand' = hand \/ \E k, doc : Yield(k, doc, {}))
      BY <1>5, <2>1 DEF ShardStep, Deliver
    <2> QED
      BY <2>2 DEF Yield, NoTokens
  <1> QED
    BY <1>2, <1>3, <1>4, <1>5 DEF Next

\* The one run of such a source, without a load.
OnlyRun ==
    /\ ~Hybrid /\ source.maxRuns \in 0..1
    /\ runs \in Nat /\ run # "load"
    /\ run = "off" => hand = {}
    /\ run # "off" \/ from # {} => runs >= 1

\* Of the documents that changed after the stream was opened, the stream has settled what
\* it has passed or writes it as it is.
OnceSettles ==
    /\ \A s \in Shards : seen[s] <= Len(log)
    /\ \A e, f \in hand : e = f
    /\ \A e \in hand : Streamed(e.key) => e.doc = Current(e.key) \/ e.key \in astray
    /\ run = "stream" =>
          \A k \in Keys : Promised(k) /\ Streamed(k) =>
              Settled(k) \/ \E e \in hand : e.key = k /\ ~e.landed

OnceInv == NoTokens /\ HomeInv /\ OnlyRun /\ OnceSettles

LEMMA ChangeOnce ==
    ASSUME OnceInv, NoTokens', HomeInv', UNCHANGED <<source, Connector, Hybrid, ShardOf>>,
           NEW k \in Keys, NEW op \in Operations, Change(k, op)
    PROVE  OnceInv'
  <1>0. TypeOK
    BY DEF OnceInv, NoTokens
  <1>1. UNCHANGED <<run, runs, from, seen, hand, dest, refused>> /\ astray \subseteq astray'
    BY DEF Change
  <1>2. Len(log') = Len(log) + 1 /\ Last(k)' = Len(log) + 1 /\ Place(k)' = home[k] /\ Len(log) \in Nat
    BY <1>0, ChangeAppends, ChangePlaces, LogLength, TypesNamed
  <1>3. \A q \in Keys \ {k} : /\ Last(q)' = Last(q) /\ Current(q)' = Current(q)
                              /\ Streamed(q)' = Streamed(q)
    BY <1>0, ChangePlaces
  <1>4. \A s \in Shards : seen[s] \in Nat /\ seen[s] <= Len(log)
    BY <1>0, PositionTypes DEF OnceInv, OnceSettles
  <1>5. (\A s \in Shards : seen[s] <= Len(log') /\ ~(Last(k)' <= seen[s])) /\ Last(k)' # 0
    BY <1>2, <1>4, SMT
  <1>6. ~Streamed(k)'
    <2>1. home[k] \in Shards
      BY <1>0, TypesNamed
    <2> QED
      BY <1>1, <1>2, <1>5, <2>1 DEF Streamed, Reached, Place
  <1>7. \A q \in Keys \ {k} : Promised(q)' <=> Promised(q)
    BY <1>1, <1>3 DEF Promised
  <1>8. \A e \in hand : e.key \in Keys
    BY <1>0, PositionTypes
  <1>9. \A q \in Keys \ {k} : Settled(q) => Settled(q)'
    BY <1>1, <1>3 DEF Settled
  <1>10. OnceSettles'
    BY <1>1, <1>3, <1>5, <1>6, <1>7, <1>8, <1>9 DEF OnceInv, OnceSettles
  <1> QED
    BY <1>1, <1>10 DEF OnceInv, OnlyRun

\* Nothing is promised yet when the stream is opened: it begins with the next change.
LEMMA StartOnce ==
    ASSUME OnceInv, NoTokens', HomeInv', UNCHANGED <<source, Connector, Hybrid, ShardOf>>, Start
    PROVE  OnceInv'
  <1>0. TypeOK /\ Len(log) \in Nat
    BY LogLength, TypesNamed DEF OnceInv, NoTokens
  <1>1. runs \in Nat /\ runs < source.maxRuns /\ source.maxRuns \in 0..1
    BY DEF Start, OnceInv, OnlyRun
  <1>2. runs = 0 /\ runs' = 1
    BY <1>1, SMT DEF Start
  <1>3. from = {} /\ hand = {} /\ run = "off" /\ ~(0 >= 1) /\ 1 >= 1
    BY <1>2, SMT DEF Start, OnceInv, OnlyRun
  <1>4. /\ run' = "stream" /\ seen' = EndOfLog /\ from' = {Min({EndOfLog[s] : s \in Shards})}
        /\ UNCHANGED <<log, hand, dest, refused>>
    BY <1>3 DEF Start, OpenStream, OpenAt, OnceInv, NoTokens, Tokenless, OnlyRun
  <1>5. Min({EndOfLog[s] : s \in Shards}) = Len(log)
    <2>1. {EndOfLog[s] : s \in Shards} = {Len(log)}
      BY CaptureAssumption DEF EndOfLog
    <2> QED
      BY <1>0, <2>1, MinIsLeast
  <1>6. \A k \in Keys : ~Promised(k)'
    <2>1. \A k \in Keys : Last(k) \in 0..Len(log)
      BY <1>0, LastOfKey, TypesNamed
    <2>2. \A k \in Keys : ~(Last(k) > Len(log))
      BY <1>0, <2>1, SMT
    <2> QED
      BY <1>4, <1>5, <2>2, SameLog DEF Promised
  <1>7. \A s \in Shards : seen'[s] <= Len(log')
    BY <1>0, <1>4, SMT DEF EndOfLog
  <1>8. OnceSettles'
    BY <1>3, <1>4, <1>6, <1>7 DEF OnceSettles
  <1>9. OnlyRun'
    BY <1>2, <1>3, <1>4 DEF OnceInv, OnlyRun
  <1> QED
    BY <1>8, <1>9 DEF OnceInv

\* A change that is the last of its document is delivered as it was made; a lookup finds
\* the document that is there now.
LEMMA LookedUp ==
    ASSUME TypeOK, Tokenless, NEW i \in DOMAIN log, NEW k \in Keys, log[i].key = k, Last(k) <= i,
           NEW doc \in Delivered(i)
    PROVE  doc = Current(k) /\ (doc = 0 => log[i].op # "patch" \/ Connector = "redis")
  <1>1. Len(log) \in Nat /\ DOMAIN log = 1..Len(log) /\ i \in 1..Len(log)
    BY LogLength, TypesNamed
  <1>2. Last(k) \in Nat /\ i <= Last(k)
    BY LastOfKey, TypesNamed
  <1>3. Last(k) = i /\ i # 0
    BY <1>1, <1>2, SMT
  <1>4. Current(k) = Doc(i)
    BY <1>3 DEF Current
  <1>5. CASE log[i].op = "delete"
    BY <1>4, <1>5 DEF Delivered, Doc
  <1>6. CASE log[i].op # "delete" /\ Connector = "redis"
    BY <1>6 DEF Delivered
  <1>7. CASE log[i].op # "delete" /\ Connector = "mongodb"
    <2>1. Doc(i) = i
      BY <1>3, <1>7 DEF Doc
    <2>2. \A j \in Changes(k, Len(log)) \cap i..Len(log) : j = i
      <3>1. \A j \in Changes(k, Len(log)) : j \in DOMAIN log /\ log[j].key = k
        BY DEF Changes
      <3>2. \A j \in Changes(k, Len(log)) : j <= i
        BY <1>3, <3>1, LastOfKey, TypesNamed
      <3> QED
        BY <1>1, <3>1, <3>2, SMT
    <2>3. doc = Doc(i)
      BY <1>7, <2>2 DEF Delivered
    <2> QED
      BY <1>3, <1>4, <2>1, <2>3
  <1> QED
    BY <1>5, <1>6, <1>7 DEF Tokenless

LEMMA DeliverOnce ==
    ASSUME OnceInv, NoTokens', HomeInv', UNCHANGED <<source, Connector, Hybrid, ShardOf>>, NEW s \in Shards, Deliver(s)
    PROVE  OnceInv'
  <1>0. TypeOK /\ Tokenless
    BY DEF OnceInv, NoTokens
  <1>1. UNCHANGED <<log, run, runs, from, dest, refused>> /\ run = "stream" /\ hand = {} /\ Unread(s) # {}
    BY DEF Deliver, Idle
  <1>2. PICK i \in Nat : /\ i = Min(Unread(s)) /\ i \in DOMAIN log /\ log[i] \in Entry
                        /\ i \in Unread(s) /\ \A j \in Unread(s) : i <= j
    BY <1>0, <1>1, NextUnread
  <1>3. PICK k \in Keys : k = log[i].key
    BY <1>2 DEF Entry
  <1>4. ShardOf[k] = s /\ i <= Len(log)
    <2>1. ShardOf[k] = s
      BY <1>2, <1>3 DEF Unread, OnceInv, HomeInv
    <2>2. i <= Len(log)
      BY <1>0, <1>2, LogLength, TypesNamed
    <2> QED BY <2>1, <2>2
  <1>5. \A q \in Shards : seen'[q] = IF q = s THEN i ELSE seen[q]
    BY <1>0, <1>2 DEF Deliver, TypeOK, Position
  <1>6. PICK doc \in Delivered(i) :
           \/ doc = 0 /\ log[i].op = "patch" /\ Connector = "mongodb" /\ hand' = {}
           \/ Yield(k, doc, Mark(s, seen'))
    BY <1>0, <1>1, <1>2, <1>3 DEF Deliver, Skipped, Tokenless
  <1>7. Last(k) <= i => doc = Current(k) /\ (doc = 0 => log[i].op # "patch" \/ Connector = "redis")
    BY <1>0, <1>2, <1>3, LookedUp
  <1>8. /\ \A e, f \in hand' : e = f
        /\ \A e \in hand' : e.key = k /\ e.doc = doc /\ ~e.landed
        /\ Last(k) <= i => hand' # {}
    <2>1. CASE hand' = {} /\ doc = 0 /\ log[i].op = "patch" /\ Connector = "mongodb"
      BY <1>7, <2>1
    <2>2. CASE Yield(k, doc, Mark(s, seen'))
      <3> DEFINE x == [key |-> k, doc |-> doc, mark |-> Mark(s, seen'), landed |-> FALSE]
      <3>1. hand' = {x}
        BY <1>1, <2>2 DEF Yield
      <3>2. x.key = k /\ x.doc = doc /\ ~x.landed
        OBVIOUS
      <3> HIDE DEF x
      <3> QED
        BY <3>1, <3>2
    <2> QED BY <1>6, <2>1, <2>2
  <1>9. \A q \in Shards : seen'[q] <= Len(log)
    BY <1>4, <1>5 DEF OnceInv, OnceSettles
  <1>12. astray \subseteq astray'
    BY <1>2 DEF Deliver
  <1>13. \A q \in Keys : /\ Streamed(q) <=> Last(q) = 0 \/ Last(q) <= seen[ShardOf[q]]
                         /\ Streamed(q)' <=> Last(q) = 0 \/ Last(q) <= seen'[ShardOf[q]]
    <2>1. \A q \in Keys : Streamed(q) <=> Last(q) = 0 \/ Last(q) <= seen[ShardOf[q]]
      BY HomePlaces DEF OnceInv, Streamed
    <2>2. \A q \in Keys : Reached(q, seen') <=> Last(q) = 0 \/ Last(q) <= seen'[ShardOf[q]]
      BY HomePlaces DEF OnceInv
    <2>3. \A q \in Keys : Streamed(q)' <=> Reached(q, seen')
      BY <1>1, SameLog DEF Streamed, Reached
    <2> QED BY <2>1, <2>2, <2>3
  <1>14. Last(k) # 0
    <2>1. i <= Last(k) /\ Last(k) \in Nat /\ i # 0
      BY <1>0, <1>2, <1>3, LastOfKey, LogLength, TypesNamed, SMT
    <2> QED
      BY <2>1, SMT
  <1>10. ASSUME NEW q \in Keys, Promised(q), Streamed(q)'
         PROVE  Settled(q) \/ \E e \in hand' : e.key = q /\ ~e.landed
    <2>0. ShardOf[q] \in Shards /\ Last(q) \in Nat /\ \A p \in Shards : seen[p] \in Nat
      BY <1>0, PositionTypes, SourceTypes
    <2>1. CASE Streamed(q)
      BY <1>1, <1>10, <2>1 DEF OnceInv, OnceSettles
    <2>2. CASE ~Streamed(q)
      <3>0. Last(q) # 0 /\ ~(Last(q) <= seen[ShardOf[q]]) /\ Last(q) <= seen'[ShardOf[q]]
        BY <1>10, <1>13, <2>2
      <3>1. ShardOf[q] = s /\ Last(q) <= i
        BY <1>5, <2>0, <3>0
      <3>2. Last(q) > seen[s] /\ Last(q) # 0
        BY <2>0, <3>0, <3>1, SMT
      <3>3. Last(q) \in DOMAIN log /\ log[Last(q)].key = q
        BY <1>0, <3>2, LastOfKey, TypesNamed
      <3>4. Last(q) \in Unread(s)
        BY <3>1, <3>2, <3>3 DEF Unread, OnceInv, HomeInv
      <3>5. Last(q) = i
        BY <1>2, <2>0, <3>1, <3>4, SMT
      <3>6. q = k
        BY <1>3, <3>3, <3>5
      <3> QED
        BY <1>8, <3>1, <3>6
    <2> QED BY <2>1, <2>2
  <1>11. OnceSettles'
    <2>1. \A q \in Keys : Promised(q)' <=> Promised(q)
      BY <1>1, SameLog DEF Promised
    <2>2. Streamed(k)' => doc = Current(k)
      BY <1>4, <1>5, <1>7, <1>13, <1>14
    <2>3. \A e \in hand' : Streamed(e.key)' => e.doc = Current(e.key)'
      BY <1>1, <1>8, <2>2, SameLog
    <2>4. \A q \in Keys : Settled(q) => Settled(q)'
      BY <1>1, <1>12, SameLog DEF Settled
    <2> QED
      BY <1>1, <1>8, <1>9, <1>10, <2>1, <2>3, <2>4 DEF OnceSettles
  <1> QED
    BY <1>1, <1>11 DEF OnceInv, OnlyRun

\* A subscription that is made anew has passed what it has not delivered.
LEMMA BlipOnce ==
    ASSUME OnceInv, NoTokens', HomeInv', UNCHANGED <<source, Connector, Hybrid, ShardOf>>, Blip
    PROVE  OnceInv'
  <1>1. UNCHANGED <<log, run, runs, from, hand, dest, refused>> /\ run = "stream" /\ hand = {}
    BY DEF Blip, Idle
  <1>2. \A s \in Shards : seen'[s] = Len(log) /\ Len(log) <= Len(log)
    <2>1. Len(log) \in Nat
      BY LogLength, TypesNamed DEF OnceInv, NoTokens
    <2> QED
      BY <2>1, SMT DEF Blip, EndOfLog
  <1>3. ASSUME NEW q \in Keys, Promised(q) PROVE Settled(q)'
    <2>1. CASE Streamed(q)
      <3>1. Settled(q)
        BY <1>1, <1>3, <2>1 DEF OnceInv, OnceSettles
      <3> QED
        BY <1>1, <3>1, SameLog DEF Settled, Blip
    <2>2. CASE ~Streamed(q)
      BY <2>2 DEF Blip, Streamed, Settled
    <2> QED BY <2>1, <2>2
  <1>4. \A q \in Keys : Promised(q)' <=> Promised(q)
    BY <1>1, SameLog DEF Promised
  <1>5. OnceSettles'
    BY <1>1, <1>2, <1>3, <1>4 DEF OnceSettles
  <1> QED
    BY <1>1, <1>5 DEF OnceInv, OnlyRun

LEMMA LandOnce ==
    ASSUME OnceInv, NoTokens', HomeInv', UNCHANGED <<source, Connector, Hybrid, ShardOf>>, NEW e \in hand, Land(e)
    PROVE  OnceInv'
  <1>1. UNCHANGED <<log, run, runs, from, seen>> /\ e.key \in Keys /\ hand = {e} /\ TypeOK
    BY ItemTypes DEF Land, OnceInv, NoTokens, OnceSettles
  <1>2. PICK f : hand' = {f} /\ f = [e EXCEPT !.landed = TRUE]
    BY <1>1 DEF Land
  <1>3. f.key = e.key /\ f.doc = e.doc
    BY <1>1, <1>2, TypesNamed DEF Item
  <1>4. /\ \A q : q # e.key => (q \in astray' <=> q \in astray)
        /\ e.doc # Current(e.key) => astray' = astray
    BY DEF Land, Found
  <1>5. \A k \in Keys \ {e.key} : Settled(k) => Settled(k)'
    BY <1>1, <1>4, SameLog DEF Land, Settled, TypeOK
  <1>6. e.doc = Current(e.key) => Settled(e.key)'
    BY <1>1, SameLog DEF Land, Settled, TypeOK
  <1>7. e.key \in astray' => Settled(e.key)'
    BY DEF Settled
  <1>8. \A k \in Keys : (Promised(k)' <=> Promised(k)) /\ (Streamed(k)' <=> Streamed(k))
    BY <1>1, SameLog, SamePlaces DEF Promised
  <1>9. Streamed(e.key) => Settled(e.key)'
    BY <1>4, <1>6, <1>7 DEF OnceInv, OnceSettles
  <1>10. OnceSettles'
    BY <1>1, <1>2, <1>3, <1>4, <1>5, <1>8, <1>9, SameLog DEF OnceInv, OnceSettles
  <1> QED
    BY <1>1, <1>10 DEF OnceInv, OnlyRun

\* The write is over, or the run is.
LEMMA QuietOnce ==
    ASSUME OnceInv, NoTokens', HomeInv', UNCHANGED <<source, Connector, Hybrid, ShardOf, log, seen, dest, refused, astray, from, runs>>,
           hand' \subseteq hand,
           \/ run' = "off" /\ hand' = {}
           \/ run' = "stopping" /\ run = "stream"
           \/ run' = run /\ \A e \in hand \ hand' : e.landed
    PROVE  OnceInv'
  <1>1. \A k \in Keys : /\ Promised(k)' <=> Promised(k)
                        /\ Streamed(k)' <=> Streamed(k)
                        /\ Settled(k)' <=> Settled(k)
    BY SameLog, SamePlaces DEF Promised, Settled
  <1>2. OnceSettles'
    BY <1>1, SameLog, ItemTypes DEF OnceInv, NoTokens, OnceSettles
  <1>3. OnlyRun'
    BY DEF OnceInv, OnlyRun
  <1> QED
    BY <1>2, <1>3 DEF OnceInv

LEMMA OnceStep == ASSUME OnceInv, [Next]_vars PROVE OnceInv'
  <1>1. NoTokens' /\ HomeInv' /\ UNCHANGED <<source, Connector, Hybrid, ShardOf>>
    BY TokenlessStep, HomeStep, SourceStays DEF OnceInv
  <1>2. CASE UNCHANGED vars
    BY <1>1, <1>2, QuietOnce DEF vars
  <1>3. CASE RunStep
    <2>1. /\ ~FeedPage /\ ~Poll /\ \A r \in rows : ~FeedItem(r) /\ ~PollRow(r)
          /\ \A k \in Keys : ~PollRead(k)
      BY DEF OnceInv, NoTokens, Tokenless, FeedPage, Poll, PollRead, FeedItem, PollRow
    <2>2. ~LoadDone /\ \A k \in Keys : ~Extract(k)
      BY DEF OnceInv, OnlyRun, LoadDone, Extract
    <2>3. CASE Leave
      BY <1>1, <2>3, QuietOnce DEF Leave
    <2>4. ASSUME NEW e \in hand, Advance(e) PROVE OnceInv'
      BY <1>1, <2>4, QuietOnce DEF Advance
    <2> QED
      BY <1>1, <1>3, <2>1, <2>2, <2>3, <2>4, LandOnce DEF RunStep
  <1>4. CASE WorldStep
    <2>1. \A op \in source.ops : op \in Operations
      BY SourceTypes DEF Source, OnceInv, NoTokens
    <2>2. CASE Stop
      BY <1>1, <2>2, QuietOnce DEF Stop
    <2>3. CASE SourceFails
      BY <1>1, <2>3, QuietOnce DEF SourceFails
    <2>4. CASE Crash
      BY <1>1, <2>4, QuietOnce DEF Crash
    <2>5. ~Split
      BY DEF Split, OnceInv, HomeInv
    <2> QED
      BY <1>1, <1>4, <2>1, <2>2, <2>3, <2>4, <2>5, ChangeOnce, StartOnce, BlipOnce DEF WorldStep
  <1>5. ASSUME NEW s \in Shards, ShardStep(s) PROVE OnceInv'
    BY <1>1, <1>5, DeliverOnce DEF ShardStep
  <1> QED
    BY <1>2, <1>3, <1>4, <1>5 DEF Next

LEMMA TokenlessInit == ASSUME Init, Tokenless PROVE NoTokens
BY CaptureTypeInit DEF Init, NoTokens

LEMMA OnceInit == ASSUME Init, Tokenless, ~Hybrid, source.maxRuns <= 1 PROVE OnceInv
  <1>1. NoTokens /\ HomeInv
    BY TokenlessInit, HomeInit DEF Tokenless
  <1>2. source.maxRuns \in 0..1
    <2>1. source.maxRuns \in Nat
      BY <1>1, SourceTypes DEF NoTokens, Source
    <2> QED
      BY <2>1, SMT
  <1>3. /\ Len(log) = 0 /\ run = "off" /\ hand = {} /\ from = {} /\ runs = 0 /\ 0 \in Nat
        /\ \A s \in Shards : seen[s] <= Len(log)
    BY SMT DEF Init, Beginning
  <1> QED
    BY <1>1, <1>2, <1>3 DEF OnceInv, OnlyRun, OnceSettles

-------------------------------------------------------------------------------
(* All sources *)

\* The sources that change capture follows: every DynamoDB table; MongoDB and Redis in
\* one run, without a load; Cosmos DB and Cassandra with a load at each start, if every
\* change but a deletion shows in what is polled, at a time of its own.
Followed(s) ==
    /\ s.connector \in {"mongodb", "redis"} => ~s.hybrid /\ s.maxRuns <= 1
    /\ s.connector \in Scans =>
          s.hybrid /\ \A k \in Keys : s.shardOf[k] = Shard
    /\ s.connector = "cassandra" => ~s.ties /\ s.ops \subseteq {"put", "delete"}

FollowInv ==
    /\ source \in Sources
    /\ Connector = "dynamodb" => ShardInv
    /\ Connector \in Scans => ScanInv
    /\ Tokenless => OnceInv

LEMMA FollowInit == ASSUME \A s \in Sources : Followed(s), Init PROVE FollowInv
  <1>1. source \in Sources /\ Followed(source)
    BY DEF Init
  <1>2. Connector = "dynamodb" => ShardInv
    BY ShardInit
  <1>3. Connector \in Scans => ScanInv
    BY <1>1, ScanInit DEF Followed, Connector, Hybrid, ShardOf
  <1>4. Tokenless => OnceInv
    BY <1>1, OnceInit DEF Followed, Tokenless, Connector, Hybrid
  <1> QED
    BY <1>1, <1>2, <1>3, <1>4 DEF FollowInv

LEMMA FollowStep == ASSUME FollowInv, [Next]_vars PROVE FollowInv'
  <1>1. UNCHANGED <<source, Connector>>
    BY SourceStays
  <1> QED
    BY <1>1, ShardStepSafe, ScanStep, OnceStep DEF FollowInv, Tokenless

\* What is written and not passed, or passed and not yet written, is on its way.
LEMMA ShardFollows == ShardInv => NothingFallsBetween
  <1> SUFFICES ASSUME ShardInv, run = "stream", NEW k \in Keys
               PROVE  InSync(k) \/ Coming(k) \/ k \in refused \/ k \in astray
    BY DEF NothingFallsBetween
  <1>1. CASE ~Streamed(k)
    <2>1. Last(k) # 0
      BY <1>1 DEF Streamed, Reached
    <2>2. Place(k) \in watched \/ k \in astray
      BY <2>1 DEF ShardInv, Unwatched
    <2> QED
      BY <1>1, <2>2 DEF Coming, ShardInv, Place, Streamed
  <1>2. CASE Streamed(k)
    <2>1. CASE Settled(k)
      BY <2>1 DEF Settled, InSync
    <2>2. CASE \E e \in hand : e.key = k /\ ~e.landed
      BY <1>2, <2>2 DEF ShardInv, HandIsNew, Coming
    <2> QED
      BY <1>2, <2>1, <2>2 DEF ShardInv, StreamSettled
  <1> QED
    BY <1>1, <1>2

LEMMA OnceFollows == OnceInv => NothingFallsBetween
  <1> SUFFICES ASSUME OnceInv, run = "stream", NEW k \in Keys, Promised(k)
               PROVE  InSync(k) \/ Coming(k) \/ k \in refused \/ k \in astray
    BY DEF NothingFallsBetween
  <1>1. CASE ~Streamed(k)
    <2>1. Last(k) # 0
      BY <1>1 DEF Streamed, Reached
    <2>2. Place(k) \in watched
      BY <2>1, HomePlaces DEF OnceInv, HomeInv
    <2> QED
      BY <1>1, <2>2 DEF Coming, OnceInv, NoTokens, Tokenless, Place, Streamed
  <1>2. CASE Streamed(k)
    <2>1. CASE Settled(k)
      BY <2>1 DEF Settled, InSync
    <2>2. CASE \E e \in hand : e.key = k /\ ~e.landed
      BY <1>2, <2>2 DEF OnceInv, OnceSettles, Coming
    <2> QED
      BY <1>2, <2>1, <2>2 DEF OnceInv, OnceSettles
  <1> QED
    BY <1>1, <1>2

LEMMA ScanFollows == ScanInv => NothingFallsBetween
  <1> SUFFICES ASSUME ScanInv, run = "stream", NEW k \in Keys, There(k)
               PROVE  InSync(k) \/ Coming(k) \/ k \in refused \/ k \in astray
    BY DEF NothingFallsBetween, Vanished, There, ScanInv, LoadInv
  <1>0. TypeOK
    BY DEF ScanInv, LoadInv, ForwardInv
  <1>1. Last(k) \in Nat /\ seen[Shard] \in Nat /\ Current(k) = Last(k) /\ Last(k) # 0 /\ ShardOf[k] = Shard
    BY <1>0, ScanTypes, ThereIsLast DEF ScanInv
  <1>2. CASE Last(k) <= seen[Shard]
    <2>1. CASE Settled(k)
      BY <2>1 DEF Settled, InSync
    <2>2. CASE OnTheWay(k)
      <3>1. Passed(k)
        BY <1>2 DEF Passed
      <3> QED
        BY <1>1, <2>2, <3>1 DEF OnTheWay, ScanInv, ScanIsFresh, Coming
    <2> QED
      BY <1>2, <2>1, <2>2 DEF ScanInv, ScanSettles
  <1>3. CASE ~(Last(k) <= seen[Shard])
    <2>1. Last(k) > seen[Shard]
      BY <1>1, <1>3, SMT
    <2>2. CASE Connector = "cassandra"
      <3>1. WriteTime(k) = Last(k)
        BY <1>0, <2>2, WriteTimeIsLast DEF ScanInv, TimesArePlaces
      <3> QED
        BY <2>1, <2>2, <3>1 DEF Coming, Newer, There
    <2>3. CASE Connector # "cassandra"
      <3>1. ~Reached(k, seen) /\ Place(k) \in watched
        BY <1>1, <1>3, HomePlaces DEF ScanInv, HomeInv
      <3> QED
        BY <2>3, <3>1 DEF Coming, Place
    <2> QED BY <2>2, <2>3
  <1> QED
    BY <1>2, <1>3

\* A source that replaces no shard, keeps images, does not cut a subscription and is not
\* read by scans keeps no change from a stream that is open, and gives none out of order:
\* there, NothingFallsBetween has no exception but a refused write and a deletion that a
\* feed does not show.
THEOREM NothingGoesAstray ==
    ASSUME \A s \in Sources : /\ s.connector # "cassandra"
                              /\ s.faults \cap {"split", "no_image", "blip"} = {}
    PROVE  Spec => [](astray = {})
  <1> DEFINE Steady == /\ Connector # "cassandra"
                       /\ source.faults \cap {"split", "no_image", "blip"} = {}
  <1> DEFINE Inv == Steady /\ HomeInv /\ astray = {}
  <1>1. Init => Inv
    BY HomeInit DEF Init, Connector
  <1>2. Inv /\ [Next]_vars => Inv'
    <2> SUFFICES ASSUME Inv, [Next]_vars PROVE astray' = {}
      BY HomeStep, SourceStays
    <2>1. CASE RunStep
      BY <2>1 DEF RunStep, Extract, LoadDone, PollRead, Land, Found, Advance, FeedPage, Poll, Leave, FeedItem, PollRow
    <2>2. CASE WorldStep
      <3>1. ASSUME NEW k \in Keys, NEW op \in source.ops, Change(k, op) PROVE astray' = {}
        BY <3>1 DEF Change, BehindScan, HomeInv
      <3> QED
        BY <2>2, <3>1 DEF WorldStep, Split, Blip, Start, Stop, SourceFails, Crash
    <2>3. ASSUME NEW s \in Shards, ShardStep(s) PROVE astray' = {}
      <3>1. TypeOK /\ Unread(s) # {}
        BY <2>3 DEF ShardStep, Deliver, HomeInv
      <3>2. PICK i \in Nat : i = Min(Unread(s)) /\ i \in DOMAIN log /\ i \in Unread(s)
        BY <3>1, NextUnread
      <3>3. ~Overtaken(i)
        <4> SUFFICES ASSUME NEW j \in Changes(log[i].key, Len(log)), j > i, j <= seen[log[j].shard]
                     PROVE  FALSE
          BY DEF Overtaken
        <4>1. log[j].shard = s /\ i > seen[s] /\ j \in DOMAIN log
          BY <3>2 DEF Changes, HomeInv, Unread
        <4>2. s \in Shards /\ seen[s] \in Nat /\ j \in Nat
          BY <3>1, <4>1, PositionTypes, LogLength, TypesNamed
        <4> QED
          BY <4>1, <4>2, SMT
      <3>4. \A doc : ~(Skipped(i, doc) /\ Connector = "dynamodb")
        BY DEF Skipped
      <3> QED
        BY <2>3, <3>2, <3>3, <3>4 DEF ShardStep, Deliver
    <2>4. CASE UNCHANGED vars
      BY <2>4 DEF vars
    <2> QED
      BY <2>1, <2>2, <2>3, <2>4 DEF Next
  <1> QED
    BY <1>1, <1>2, PTL DEF Spec

\* README, "change-data-capture takes over the ongoing delta": of every source of this
\* kind no change falls between the load, the start of the stream, a page or a scan, a
\* failed write, a stop, an error of the source, a crash and the runs after it, but what
\* the source itself keeps from the stream (NothingGoesAstray).  The configurations
\* MongoLoadGap, MongoRestart, CosmosPage, CassandraScan, CassandraTie and CassandraColumn
\* show what happens without one of the conditions.
THEOREM NothingFalls ==
    ASSUME \A s \in Sources : Followed(s)
    PROVE  Spec => []NothingFallsBetween
  <1>1. Init => FollowInv
    BY FollowInit
  <1>2. FollowInv /\ [Next]_vars => FollowInv'
    BY FollowStep
  <1>3. FollowInv => NothingFallsBetween
    <2>1. FollowInv => Connector = "dynamodb" \/ Connector \in Scans \/ Tokenless
      BY CaptureAssumption DEF FollowInv, Source, Connector, Connectors, Logs, Tokenless
    <2> QED
      BY <2>1, ShardFollows, ScanFollows, OnceFollows DEF FollowInv
  <1> QED
    BY <1>1, <1>2, <1>3, PTL DEF Spec

\* connectors/base.py, a token is persisted once its event has been written: with
\* DynamoDB no change at or before the saved checkpoint was left out, whenever the
\* backend stops or dies; if it is not at the destination, it was refused there, or the
\* source kept it from the stream.  MongoDB and Redis save none, however often they are
\* started.
THEOREM CheckpointsAreWritten == Spec => []CheckpointIsWritten
  <1> DEFINE Inv == (Connector = "dynamodb" => ShardInv) /\ (Tokenless => NoTokens)
  <1>1. Init => Inv
    BY ShardInit, TokenlessInit
  <1>2. Inv /\ [Next]_vars => Inv'
    BY SourceStays, ShardStepSafe, TokenlessStep DEF Tokenless
  <1>3. Inv => CheckpointIsWritten
    <2> SUFFICES ASSUME Inv, Connector \in Logs, NEW k \in Keys, Promised(k), OnDisk(k)
                 PROVE  InSync(k) \/ k \in refused \cup astray
      BY DEF CheckpointIsWritten, OnDisk
    <2>1. CASE Connector = "dynamodb"
      <3>1. ShardInv /\ Marked(k)
        BY <2>1, PassedInOrder DEF ShardInv
      <3> QED
        BY <3>1 DEF ShardInv, CheckpointSettled, Settled, InSync
    <2>2. CASE Tokenless
      <3>1. NoTokens /\ Last(k) \in Nat /\ (Last(k) # 0 => Place(k) \in Shards)
        BY <2>2, PositionTypes DEF NoTokens
      <3>2. Last(k) = 0 \/ Last(k) <= 0
        BY <3>1 DEF NoTokens, Beginning, OnDisk, Reached, Place
      <3>3. PICK i \in Nat : Last(k) > i
        BY <3>1 DEF Promised, NoTokens, TypeOK
      <3> QED
        BY <3>1, <3>2, <3>3, SMT
    <2> QED
      BY <2>1, <2>2 DEF Logs, Tokenless
  <1> QED
    BY <1>1, <1>2, <1>3, PTL DEF Spec
================================================================================
