--------------------------- MODULE BatchBridgeProofs ---------------------------
(***************************************************************************)
(* What the bridge guarantees for every number of batches and every queue  *)
(* size: its types, order without loss or repetition, and, where _produce  *)
(* reports every exception, that a normal end means a complete container.  *)
(* Then that thread and coroutine never block each other, and how many     *)
(* steps a run can have.                                                   *)
(***************************************************************************)
EXTENDS BatchBridge, TLAPS

\* The queue holds the batches the sink has yet to see, in order, then markers,
\* which come only from a thread that has stopped reading.
Contents ==
    /\ Len(got) <= made
    /\ Len(got) + Len(queue) >= made
    /\ producer \in {"reading", "raising"} => Len(got) + Len(queue) = made
    /\ \A i \in 1..Len(queue) :
          /\ Len(got) + i <= made => queue[i] = Batch(Len(got) + i)
          /\ Len(got) + i > made => queue[i].kind # "batch"

OrderInv == TypeOK /\ InOrder /\ Contents

\* None is the last thing in the queue, put by a thread that is gone.
EndIsLast ==
    \A i \in 1..Len(queue) :
        queue[i].kind = "end" => i = Len(queue) /\ producer = "gone"

\* A thread that ended early has an exception in the queue, or had one taken.
Told ==
    \/ made = Batches
    \/ producer \in {"reading", "raising"}
    \/ reader = "raised"
    \/ \E i \in 1..Len(queue) : queue[i].kind = "error"

CompleteInv == EndIsLast /\ Told /\ NeverTruncated

\* None stays the last thing in the queue until it is taken.
EndComes ==
    producer = "gone" /\ reader \in {"waiting", "using"} =>
        queue # <<>> /\ queue[Len(queue)].kind = "end"

\* An exception is followed by None and nothing else.
EndFollowsError ==
    \A i \in 1..Len(queue) :
        queue[i].kind = "error" => \/ producer = "gone"
                                   \/ producer = "closing" /\ i = Len(queue)

\* A reader that ended on what the thread put leaves room for None.
RoomForEnd ==
    /\ reader = "returned" => producer = "gone"
    /\ reader = "raised" => producer = "gone" \/ (producer = "closing" /\ queue = <<>>)

MeetInv == EndIsLast /\ EndComes /\ EndFollowsError /\ RoomForEnd

\* The coroutine, and the thread, have a step to take whatever the other does.
ReaderCan == reader = "using" \/ (reader = "waiting" /\ queue # <<>>)
ThreadCan == producer # "gone" /\ Len(queue) < Capacity

\* Unless both have ended, one of the two has a step to take; a reader that the sink
\* made leave does not count as one that ended.
NobodyStuck ==
    reader \in {"waiting", "using"} \/ (producer # "gone" /\ reader # "left") =>
        ReaderCan \/ ThreadCan

\* A bound on the steps the two may still take.
ToEnd == [reading |-> 7, raising |-> 6, closing |-> 3, gone |-> 0]
WorkLeft ==
    4 * (Batches - made) + ToEnd[producer] + 2 * Len(queue) + (IF reader = "using" THEN 1 ELSE 0)

\* Appending to and taking from a queue of items.
LEMMA AppendItem ==
    ASSUME NEW q \in Seq(Item), NEW x \in Item
    PROVE  /\ Append(q, x) \in Seq(Item)
           /\ Len(Append(q, x)) = Len(q) + 1
           /\ \A i \in 1..Len(q) : Append(q, x)[i] = q[i]
           /\ Append(q, x)[Len(q) + 1] = x
  OBVIOUS

LEMMA TakeItem ==
    ASSUME NEW q \in Seq(Item), q # <<>>
    PROVE  /\ Tail(q) \in Seq(Item)
           /\ Len(Tail(q)) = Len(q) - 1
           /\ Len(q) >= 1
           /\ \A i \in 1..Len(Tail(q)) : Tail(q)[i] = q[i + 1]
           /\ Head(q) = q[1] /\ Head(q) \in Item
  OBVIOUS

LEMMA ItemKinds == Error \in Item /\ End \in Item /\ \A n \in Nat : Batch(n) \in Item
  BY DEF Item, Error, End, Batch

\* The lists the sink has been given.
LEMMA GotAppend ==
    ASSUME NEW g \in Seq(Nat), NEW n \in Nat
    PROVE  /\ Append(g, n) \in Seq(Nat)
           /\ Len(Append(g, n)) = Len(g) + 1
           /\ \A i \in 1..Len(g) : Append(g, n)[i] = g[i]
           /\ Append(g, n)[Len(g) + 1] = n
  OBVIOUS

LEMMA Types ==
    ASSUME TypeOK
    PROVE  /\ queue \in Seq(Item) /\ Len(queue) \in Nat
           /\ got \in Seq(Nat) /\ Len(got) \in Nat
           /\ made \in Nat /\ Batches \in Nat /\ Capacity \in Nat
  BY BridgeAssumption DEF TypeOK

LEMMA InitOrder == Init => OrderInv
  BY BridgeAssumption DEF Init, OrderInv, TypeOK, InOrder, Contents

LEMMA PutKeepsOrder ==
    ASSUME OrderInv, NEW x \in Item, Put(x), UNCHANGED <<got, reader>>,
           \/ producer = "reading" /\ x = Batch(made + 1) /\ made' = made + 1
                  /\ made < Batches /\ UNCHANGED producer
           \/ x.kind # "batch" /\ producer' \in {"closing", "gone"} /\ UNCHANGED made
    PROVE  OrderInv'
<1>1. TypeOK /\ InOrder /\ Contents
  BY DEF OrderInv
<1>2. /\ queue \in Seq(Item) /\ Len(queue) \in Nat /\ Len(got) \in Nat
      /\ made \in Nat /\ Batches \in Nat /\ Capacity \in Nat
  BY <1>1, Types
<1>3. /\ queue' \in Seq(Item) /\ Len(queue') = Len(queue) + 1
      /\ \A i \in 1..Len(queue) : queue'[i] = queue[i]
      /\ queue'[Len(queue) + 1] = x
      /\ Len(queue) < Capacity
  BY <1>2, AppendItem DEF Put
<1>4. TypeOK'
  BY <1>1, <1>2, <1>3 DEF TypeOK
<1>5. InOrder'
  BY <1>1 DEF InOrder
<1>6. Contents'
  <2>1. CASE /\ producer = "reading" /\ x = Batch(made + 1) /\ made' = made + 1
             /\ UNCHANGED producer
    BY <1>1, <1>2, <1>3, <2>1 DEF Contents
  <2>2. CASE x.kind # "batch" /\ producer' \in {"closing", "gone"} /\ UNCHANGED made
    BY <1>1, <1>2, <1>3, <2>2 DEF Contents
  <2> QED  BY <2>1, <2>2
<1> QED  BY <1>4, <1>5, <1>6 DEF OrderInv

LEMMA TakeKeepsOrder == ASSUME OrderInv, Take PROVE OrderInv'
<1>1. TypeOK /\ InOrder /\ Contents
  BY DEF OrderInv
<1>2. /\ queue \in Seq(Item) /\ Len(queue) \in Nat
      /\ got \in Seq(Nat) /\ Len(got) \in Nat
      /\ made \in Nat /\ Batches \in Nat /\ Capacity \in Nat
  BY <1>1, Types
<1>3. /\ queue # <<>> /\ queue' = Tail(queue) /\ UNCHANGED <<made, producer>>
      /\ reader' \in {"using", "raised", "returned"}
  BY DEF Take
<1>4. /\ queue' \in Seq(Item) /\ Len(queue') = Len(queue) - 1 /\ Len(queue) >= 1
      /\ \A i \in 1..Len(queue') : queue'[i] = queue[i + 1]
      /\ Head(queue) = queue[1] /\ Head(queue) \in Item
  BY <1>2, <1>3, TakeItem
<1>5. CASE Head(queue).kind = "batch"
  <2>1. got' = Append(got, Head(queue).n)
    BY <1>5 DEF Take
  <2>2. Len(got) + 1 <= made /\ Head(queue) = Batch(Len(got) + 1)
    BY <1>1, <1>2, <1>4, <1>5 DEF Contents
  <2>3. Head(queue).n = Len(got) + 1
    BY <2>2 DEF Batch
  <2>4. /\ got' \in Seq(Nat) /\ Len(got') = Len(got) + 1
        /\ \A i \in 1..Len(got) : got'[i] = got[i]
        /\ got'[Len(got) + 1] = Len(got) + 1
    BY <1>2, <2>1, <2>3, GotAppend
  <2>5. TypeOK'
    BY <1>1, <1>2, <1>3, <1>4, <2>4 DEF TypeOK
  <2>6. InOrder'
    BY <1>1, <1>2, <2>4 DEF InOrder
  <2>7. /\ Len(got') <= made' /\ Len(got') + Len(queue') >= made'
        /\ producer' \in {"reading", "raising"} => Len(got') + Len(queue') = made'
    <3>1. /\ Len(got) + Len(queue) >= made
          /\ producer \in {"reading", "raising"} => Len(got) + Len(queue) = made
      BY <1>1 DEF Contents
    <3>2. Len(got') + Len(queue') = Len(got) + Len(queue)
      BY <1>2, <1>4, <2>4
    <3> QED  BY <1>2, <1>3, <2>2, <2>4, <3>1, <3>2
  <2>8. ASSUME NEW i \in 1..Len(queue')
        PROVE  /\ Len(got') + i <= made' => queue'[i] = Batch(Len(got') + i)
               /\ Len(got') + i > made' => queue'[i].kind # "batch"
    <3>1. i + 1 \in 1..Len(queue) /\ queue'[i] = queue[i + 1]
      BY <1>2, <1>4
    <3>2. /\ Len(got) + (i + 1) <= made => queue[i + 1] = Batch(Len(got) + (i + 1))
          /\ Len(got) + (i + 1) > made => queue[i + 1].kind # "batch"
      BY <1>1, <3>1 DEF Contents
    <3>3. Len(got') + i = Len(got) + (i + 1) /\ made' = made
      BY <1>2, <1>3, <2>4
    <3> QED  BY <3>1, <3>2, <3>3
  <2>9. Contents'
    BY <2>7, <2>8 DEF Contents
  <2> QED  BY <2>5, <2>6, <2>9 DEF OrderInv
<1>6. CASE Head(queue).kind # "batch"
  <2>1. got' = got
    BY <1>6 DEF Take
  <2>2. Len(got) + 1 > made
    <3>1. 1 \in 1..Len(queue) /\ queue[1].kind # "batch"
      BY <1>2, <1>4, <1>6
    <3>2. Len(got) + 1 <= made => queue[1] = Batch(Len(got) + 1)
      BY <1>1, <3>1 DEF Contents
    <3>3. Batch(Len(got) + 1).kind = "batch"
      BY DEF Batch
    <3> QED  BY <1>2, <3>1, <3>2, <3>3
  <2>3. TypeOK'
    BY <1>1, <1>2, <1>3, <1>4, <2>1 DEF TypeOK
  <2>4. InOrder'
    BY <1>1, <2>1 DEF InOrder
  <2>5. Contents'
    BY <1>1, <1>2, <1>3, <1>4, <2>1, <2>2 DEF Contents
  <2> QED  BY <2>3, <2>4, <2>5 DEF OrderInv
<1> QED  BY <1>5, <1>6

LEMMA StepKeepsOrder == ASSUME OrderInv, [Next]_vars PROVE OrderInv'
<1>1. TypeOK /\ made \in Nat
  BY Types DEF OrderInv
<1>2. CASE Produce
  BY <1>1, <1>2, PutKeepsOrder, ItemKinds DEF Produce
<1>3. CASE Raise
  BY <1>3, PutKeepsOrder, ItemKinds DEF Raise, Error
<1>4. CASE Close
  BY <1>4, PutKeepsOrder, ItemKinds DEF Close, End
<1>5. CASE Take
  BY <1>5, TakeKeepsOrder
<1>6. CASE Exhausted \/ DriverFails \/ OtherFails
  BY <1>6 DEF Exhausted, DriverFails, OtherFails, OrderInv, TypeOK, InOrder, Contents
<1>7. CASE Used \/ SinkFails
  BY <1>7 DEF Used, SinkFails, OrderInv, TypeOK, InOrder, Contents
<1>8. CASE UNCHANGED vars
  BY <1>8 DEF vars, OrderInv, TypeOK, InOrder, Contents
<1> QED
  BY <1>2, <1>3, <1>4, <1>5, <1>6, <1>7, <1>8 DEF Next, ThreadStep, ReaderStep

-------------------------------------------------------------------------------
(* A normal end *)

\* One item more in the queue: an end comes last and ends the thread, an error or
\* an end comes from a thread that has stopped reading.
LEMMA PutKeepsComplete ==
    ASSUME OrderInv, CompleteInv, NEW x \in Item, Put(x), producer # "gone",
           UNCHANGED <<got, reader>>,
           \/ x.kind = "batch" /\ producer = "reading" /\ UNCHANGED producer
           \/ x.kind = "error" /\ UNCHANGED made
           \/ x.kind = "end" /\ producer = "closing" /\ producer' = "gone" /\ UNCHANGED made
    PROVE  CompleteInv'
<1>1. EndIsLast /\ Told /\ NeverTruncated
  BY DEF CompleteInv
<1>2. queue \in Seq(Item) /\ Len(queue) \in Nat
  BY Types DEF OrderInv
<1>3. /\ Len(queue') = Len(queue) + 1
      /\ \A i \in 1..Len(queue) : queue'[i] = queue[i]
      /\ queue'[Len(queue) + 1] = x
  BY <1>2, AppendItem DEF Put
<1>4. \A i \in 1..Len(queue) : queue[i].kind # "end"
  BY <1>1 DEF EndIsLast
<1>5. \A i \in 1..Len(queue') : queue'[i].kind = "end" => i = Len(queue') /\ x.kind = "end"
  BY <1>2, <1>3, <1>4
<1>6. EndIsLast'
  BY <1>5 DEF EndIsLast
<1>7. Told'
  <2>1. CASE x.kind = "error"
    <3>1. Len(queue) + 1 \in 1..Len(queue')
      BY <1>2, <1>3
    <3> QED  BY <1>3, <2>1, <3>1 DEF Told
  <2>2. CASE producer = "reading" /\ UNCHANGED producer
    BY <2>2 DEF Told
  <2>3. CASE producer = "closing" /\ UNCHANGED made
    <3>1. CASE \E i \in 1..Len(queue) : queue[i].kind = "error"
      <4>1. PICK i \in 1..Len(queue) : queue[i].kind = "error"
        BY <3>1
      <4>2. i \in 1..Len(queue') /\ queue'[i].kind = "error"
        BY <1>2, <1>3, <4>1
      <4> QED  BY <4>2 DEF Told
    <3>2. CASE made = Batches \/ reader = "raised"
      BY <2>3, <3>2 DEF Told
    <3> QED  BY <1>1, <2>3, <3>1, <3>2 DEF Told
  <2> QED  BY <2>1, <2>2, <2>3
<1>8. NeverTruncated'
  BY <1>1 DEF NeverTruncated
<1> QED  BY <1>6, <1>7, <1>8 DEF CompleteInv

\* Taking the end means that everything else has been taken.
LEMMA TakeKeepsComplete == ASSUME OrderInv, CompleteInv, Take PROVE CompleteInv'
<1>1. EndIsLast /\ Told
  BY DEF CompleteInv
<1>2. /\ queue \in Seq(Item) /\ Len(queue) \in Nat /\ Len(got) \in Nat
      /\ made \in Nat /\ Batches \in Nat
  BY Types DEF OrderInv
<1>3. queue # <<>> /\ queue' = Tail(queue) /\ UNCHANGED <<made, producer>> /\ reader = "waiting"
  BY DEF Take
<1>4. /\ Len(queue') = Len(queue) - 1 /\ Len(queue) >= 1
      /\ \A i \in 1..Len(queue') : queue'[i] = queue[i + 1]
      /\ Head(queue) = queue[1]
  BY <1>2, <1>3, TakeItem
<1>5. EndIsLast'
  <2>1. SUFFICES ASSUME NEW i \in 1..Len(queue'), queue'[i].kind = "end"
                 PROVE  i = Len(queue') /\ producer = "gone"
    BY <1>3 DEF EndIsLast
  <2>2. i + 1 \in 1..Len(queue) /\ queue[i + 1].kind = "end"
    BY <1>2, <1>4, <2>1
  <2>3. i + 1 = Len(queue) /\ producer = "gone"
    BY <1>1, <2>2 DEF EndIsLast
  <2> QED  BY <1>2, <1>4, <2>3
<1>6. CASE Head(queue).kind = "error"
  <2>1. reader' = "raised"
    BY <1>6 DEF Take
  <2> QED  BY <1>5, <2>1 DEF CompleteInv, Told, NeverTruncated
<1>7. CASE Head(queue).kind = "batch"
  <2>1. reader' = "using"
    BY <1>7 DEF Take
  <2>2. Told'
    <3>1. CASE \E i \in 1..Len(queue) : queue[i].kind = "error"
      <4>1. PICK i \in 1..Len(queue) : queue[i].kind = "error"
        BY <3>1
      <4>2. i # 1
        BY <1>4, <1>7, <4>1
      <4>3. i - 1 \in 1..Len(queue') /\ (i - 1) + 1 = i
        BY <1>2, <1>4, <4>1, <4>2
      <4>4. queue'[i - 1].kind = "error"
        BY <1>4, <4>1, <4>3
      <4> QED  BY <4>3, <4>4 DEF Told
    <3> QED  BY <1>1, <1>3, <3>1 DEF Told
  <2> QED  BY <1>5, <2>1, <2>2 DEF CompleteInv, NeverTruncated
<1>8. CASE Head(queue).kind = "end"
  <2>1. 1 \in 1..Len(queue) /\ queue[1].kind = "end"
    BY <1>2, <1>4, <1>8
  <2>2. Len(queue) = 1 /\ producer = "gone"
    BY <1>1, <2>1 DEF EndIsLast
  <2>3. made = Batches
    <3>1. \A i \in 1..Len(queue) : queue[i].kind # "error"
      BY <2>1, <2>2
    <3> QED  BY <1>1, <1>3, <2>2, <3>1 DEF Told
  <2>4. got' = got
    BY <1>8 DEF Take
  <2>5. Len(got) <= made /\ (Len(got) + 1 <= made => queue[1] = Batch(Len(got) + 1))
    BY <2>1 DEF OrderInv, Contents
  <2>6. ~(Len(got) + 1 <= made)
    BY <2>1, <2>5 DEF Batch
  <2>7. Len(got) = Batches
    BY <1>2, <2>3, <2>5, <2>6
  <2> QED  BY <1>3, <1>5, <2>3, <2>4, <2>7 DEF CompleteInv, Told, NeverTruncated
<1>9. Head(queue) \in Item
  BY <1>2, <1>3, TakeItem
<1> QED  BY <1>6, <1>7, <1>8, <1>9 DEF Item

LEMMA StepKeepsComplete ==
    ASSUME OrderInv, CompleteInv, [Next]_vars, CatchAll \/ "other" \notin Faults
    PROVE  CompleteInv'
<1>1. CASE Produce
  <2>1. Batch(made + 1) \in Item /\ Batch(made + 1).kind = "batch"
    BY Types, ItemKinds DEF OrderInv, Batch
  <2> QED  BY <1>1, <2>1, PutKeepsComplete DEF Produce
<1>2. CASE Raise
  BY <1>2, PutKeepsComplete, ItemKinds DEF Raise, Error
<1>3. CASE Close
  BY <1>3, PutKeepsComplete, ItemKinds DEF Close, End
<1>4. CASE Take
  BY <1>4, TakeKeepsComplete
<1>5. CASE Exhausted \/ DriverFails \/ OtherFails
  BY <1>5 DEF Exhausted, DriverFails, OtherFails, CompleteInv, EndIsLast, Told, NeverTruncated
<1>6. CASE Used \/ SinkFails
  BY <1>6 DEF Used, SinkFails, CompleteInv, EndIsLast, Told, NeverTruncated
<1>7. CASE UNCHANGED vars
  BY <1>7 DEF vars, CompleteInv, EndIsLast, Told, NeverTruncated
<1> QED
  BY <1>1, <1>2, <1>3, <1>4, <1>5, <1>6, <1>7 DEF Next, ThreadStep, ReaderStep

-------------------------------------------------------------------------------
(* The theorems *)

\* util.py's queue: types hold and the queue never exceeds its maxsize.
THEOREM BridgeTypeCorrect == Spec => []TypeOK
<1>1. OrderInv => TypeOK
  BY DEF OrderInv
<1> QED  BY <1>1, InitOrder, StepKeepsOrder, PTL DEF Spec

\* The sink is given every batch once and in order, for every queue size, however
\* thread and coroutine interleave and whatever fails.
THEOREM BatchesInOrder == Spec => []InOrder
<1>1. OrderInv => InOrder
  BY DEF OrderInv
<1> QED  BY <1>1, InitOrder, StepKeepsOrder, PTL DEF Spec

\* If _produce reports every exception, as MongoDB's and Cassandra's do, or only its
\* driver fails, an extraction that returns has handed over the whole container.
THEOREM NormalEndIsComplete ==
    ASSUME CatchAll \/ "other" \notin Faults
    PROVE  Spec => []NeverTruncated
<1>1. Init => OrderInv /\ CompleteInv
  BY InitOrder DEF Init, CompleteInv, EndIsLast, Told, NeverTruncated
<1>2. OrderInv /\ CompleteInv /\ [Next]_vars => (OrderInv /\ CompleteInv)'
  BY StepKeepsOrder, StepKeepsComplete
<1>3. OrderInv /\ CompleteInv => NeverTruncated
  BY DEF CompleteInv
<1> QED  BY <1>1, <1>2, <1>3, PTL DEF Spec

-------------------------------------------------------------------------------
(* Thread and coroutine *)

LEMMA PutKeepsMeet ==
    ASSUME OrderInv, MeetInv, NEW x \in Item, Put(x), UNCHANGED <<got, reader>>,
           \/ x.kind = "batch" /\ producer = "reading" /\ UNCHANGED producer
           \/ x.kind = "error" /\ producer = "raising" /\ producer' = "closing"
           \/ x.kind = "end" /\ producer = "closing" /\ producer' = "gone"
    PROVE  MeetInv'
<1>1. EndIsLast /\ EndFollowsError /\ RoomForEnd
  BY DEF MeetInv
<1>2. queue \in Seq(Item) /\ Len(queue) \in Nat
  BY Types DEF OrderInv
<1>3. /\ Len(queue') = Len(queue) + 1
      /\ \A i \in 1..Len(queue) : queue'[i] = queue[i]
      /\ queue'[Len(queue) + 1] = x
      /\ queue' # <<>>
  <2>1. /\ Len(queue') = Len(queue) + 1
        /\ \A i \in 1..Len(queue) : queue'[i] = queue[i]
        /\ queue'[Len(queue) + 1] = x
    BY <1>2, AppendItem DEF Put
  <2>2. queue' # <<>>
    BY <1>2, <2>1
  <2> QED  BY <2>1, <2>2
<1>4. \A i \in 1..Len(queue') : i \in 1..Len(queue) \/ i = Len(queue')
  BY <1>2, <1>3
<1>5. EndIsLast'
  <2>1. \A i \in 1..Len(queue) : queue[i].kind # "end"
    BY <1>1 DEF EndIsLast
  <2> QED  BY <1>3, <1>4, <2>1 DEF EndIsLast
<1>6. EndComes'
  BY <1>3 DEF EndComes
<1>7. EndFollowsError'
  <2>1. \A i \in 1..Len(queue) : queue[i].kind = "error" => producer = "closing"
    BY <1>1 DEF EndFollowsError
  <2>2. SUFFICES ASSUME NEW i \in 1..Len(queue'), queue'[i].kind = "error"
                 PROVE  producer' = "gone" \/ (producer' = "closing" /\ i = Len(queue'))
    BY DEF EndFollowsError
  <2>3. CASE i \in 1..Len(queue)
    BY <1>3, <2>1, <2>2, <2>3
  <2>4. CASE i = Len(queue')
    BY <1>3, <2>2, <2>4
  <2> QED  BY <1>4, <2>3, <2>4
<1>8. RoomForEnd'
  BY <1>1 DEF RoomForEnd
<1> QED  BY <1>5, <1>6, <1>7, <1>8 DEF MeetInv

LEMMA TakeKeepsMeet == ASSUME OrderInv, MeetInv, Take PROVE MeetInv'
<1>1. EndIsLast /\ EndComes /\ EndFollowsError
  BY DEF MeetInv
<1>2. queue \in Seq(Item) /\ Len(queue) \in Nat
  BY Types DEF OrderInv
<1>3. queue # <<>> /\ queue' = Tail(queue) /\ UNCHANGED <<made, producer>> /\ reader = "waiting"
  BY DEF Take
<1>4. /\ queue' \in Seq(Item) /\ Len(queue') = Len(queue) - 1 /\ Len(queue) >= 1
      /\ \A i \in 1..Len(queue') : queue'[i] = queue[i + 1]
      /\ Head(queue) = queue[1] /\ Head(queue) \in Item
  BY <1>2, <1>3, TakeItem
<1>5. /\ Len(queue') \in Nat
      /\ \A i \in 1..Len(queue') :
            /\ i + 1 \in 1..Len(queue)
            /\ i + 1 = Len(queue) => i = Len(queue')
  BY <1>2, <1>4
<1>6. 1 \in 1..Len(queue)
  BY <1>2, <1>4
<1>7. EndIsLast'
  BY <1>1, <1>3, <1>4, <1>5 DEF EndIsLast
<1>8. EndFollowsError'
  BY <1>1, <1>3, <1>4, <1>5 DEF EndFollowsError
<1>9. EndComes'
  <2>1. SUFFICES ASSUME producer = "gone", reader' \in {"waiting", "using"}
                 PROVE  queue' # <<>> /\ queue'[Len(queue')].kind = "end"
    BY <1>3 DEF EndComes
  <2>2. Head(queue).kind = "batch"
    BY <2>1 DEF Take
  <2>3. queue[Len(queue)].kind = "end"
    BY <1>1, <1>3, <2>1 DEF EndComes
  <2>4. Len(queue) # 1
    BY <1>4, <2>2, <2>3
  <2>5. Len(queue') \in 1..Len(queue') /\ Len(queue') + 1 = Len(queue)
    BY <1>2, <1>4, <2>4
  <2>6. queue' # <<>>
    BY <1>4, <2>5
  <2> QED  BY <1>4, <2>3, <2>5, <2>6
<1>10. RoomForEnd'
  <2>1. ASSUME reader' = "returned" PROVE producer' = "gone"
    <3>1. Head(queue).kind = "end"
      BY <2>1 DEF Take
    <3> QED  BY <1>1, <1>3, <1>4, <1>6, <3>1 DEF EndIsLast
  <2>2. ASSUME reader' = "raised" PROVE producer' = "gone" \/ (producer' = "closing" /\ queue' = <<>>)
    <3>1. Head(queue).kind = "error"
      BY <2>2 DEF Take
    <3>2. producer = "gone" \/ (producer = "closing" /\ 1 = Len(queue))
      BY <1>1, <1>4, <1>6, <3>1 DEF EndFollowsError
    <3>3. 1 = Len(queue) => queue' = <<>>
      BY <1>2, <1>4
    <3> QED  BY <1>3, <3>2, <3>3
  <2> QED  BY <2>1, <2>2 DEF RoomForEnd
<1> QED  BY <1>7, <1>8, <1>9, <1>10 DEF MeetInv

LEMMA StepKeepsMeet == ASSUME OrderInv, MeetInv, [Next]_vars PROVE MeetInv'
<1>1. CASE Produce
  <2>1. Batch(made + 1) \in Item /\ Batch(made + 1).kind = "batch"
    BY Types, ItemKinds DEF OrderInv, Batch
  <2> QED  BY <1>1, <2>1, PutKeepsMeet DEF Produce
<1>2. CASE Raise
  BY <1>2, PutKeepsMeet, ItemKinds DEF Raise, Error
<1>3. CASE Close
  BY <1>3, PutKeepsMeet, ItemKinds DEF Close, End
<1>4. CASE Take
  BY <1>4, TakeKeepsMeet
<1>5. CASE Exhausted \/ DriverFails \/ OtherFails
  <2>1. /\ producer = "reading" /\ producer' \in {"raising", "closing"}
        /\ UNCHANGED <<queue, reader>>
    BY <1>5 DEF Exhausted, DriverFails, OtherFails
  <2> QED  BY <2>1 DEF MeetInv, EndIsLast, EndComes, EndFollowsError, RoomForEnd
<1>6. CASE Used \/ SinkFails
  BY <1>6 DEF Used, SinkFails, MeetInv, EndIsLast, EndComes, EndFollowsError, RoomForEnd
<1>7. CASE UNCHANGED vars
  BY <1>7 DEF vars, MeetInv, EndIsLast, EndComes, EndFollowsError, RoomForEnd
<1> QED
  BY <1>1, <1>2, <1>3, <1>4, <1>5, <1>6, <1>7 DEF Next, ThreadStep, ReaderStep

LEMMA MeetMeansNobodyStuck == ASSUME OrderInv, MeetInv PROVE NobodyStuck
<1>1. queue = <<>> => Len(queue) < Capacity
  BY BridgeAssumption
<1>2. TypeOK /\ EndComes /\ RoomForEnd
  BY DEF OrderInv, MeetInv
<1>3. CASE reader = "using" \/ (reader = "waiting" /\ queue # <<>>)
  BY <1>3 DEF NobodyStuck, ReaderCan
<1>4. CASE reader = "waiting" /\ queue = <<>>
  BY <1>1, <1>2, <1>4 DEF EndComes, NobodyStuck, ThreadCan
<1>5. CASE reader \in {"returned", "raised", "left"}
  BY <1>1, <1>2, <1>5 DEF RoomForEnd, NobodyStuck, ThreadCan
<1> QED  BY <1>2, <1>3, <1>4, <1>5 DEF TypeOK

-------------------------------------------------------------------------------
(* How long a run can be *)

LEMMA WorkIsANumber == ASSUME OrderInv PROVE WorkLeft \in Nat
<1>1. /\ made \in 0..Batches /\ Batches \in Nat /\ Len(queue) \in Nat
      /\ producer \in {"reading", "raising", "closing", "gone"}
  BY Types DEF OrderInv, TypeOK
<1>2. ToEnd[producer] \in Nat
  BY <1>1 DEF ToEnd
<1> DEFINE busy == IF reader = "using" THEN 1 ELSE 0
           toend == ToEnd[producer]
<1>3. busy \in Nat /\ toend \in Nat
  BY <1>2
<1>4. WorkLeft = 4 * (Batches - made) + toend + 2 * Len(queue) + busy
  BY DEF WorkLeft
<1> HIDE DEF busy, toend
<1> QED  BY <1>1, <1>3, <1>4

\* The batches to make and the items in the queue count more than what making and
\* taking them adds elsewhere.
LEMMA LessToDo ==
    ASSUME NEW m0 \in 0..Batches, NEW m1 \in 0..Batches, NEW e0 \in Nat, NEW e1 \in Nat,
           NEW l0 \in Nat, NEW l1 \in Nat, NEW u0 \in {0, 1}, NEW u1 \in {0, 1},
           \/ m1 = m0 + 1 /\ e1 = e0 /\ l1 = l0 + 1 /\ u1 = u0
           \/ m1 = m0 /\ e1 + 3 = e0 /\ l1 = l0 + 1 /\ u1 = u0
           \/ m1 = m0 /\ e1 = e0 /\ l1 = l0 - 1 /\ u0 = 0
           \/ m1 = m0 /\ e0 = 7 /\ e1 \in {3, 6} /\ l1 = l0 /\ u1 = u0
           \/ m1 = m0 /\ e1 = e0 /\ l1 = l0 /\ u0 = 1 /\ u1 = 0
    PROVE  4 * (Batches - m1) + e1 + 2 * l1 + u1 < 4 * (Batches - m0) + e0 + 2 * l0 + u0
<1> DEFINE a0 == Batches - m0
           a1 == Batches - m1
<1>1. \/ a1 = a0 - 1 /\ e1 = e0 /\ l1 = l0 + 1 /\ u1 = u0
      \/ a1 = a0 /\ e1 + 3 = e0 /\ l1 = l0 + 1 /\ u1 = u0
      \/ a1 = a0 /\ e1 = e0 /\ l1 = l0 - 1 /\ u0 = 0
      \/ a1 = a0 /\ e0 = 7 /\ e1 \in {3, 6} /\ l1 = l0 /\ u1 = u0
      \/ a1 = a0 /\ e1 = e0 /\ l1 = l0 /\ u0 = 1 /\ u1 = 0
  BY BridgeAssumption
<1>2. a0 \in Nat /\ a1 \in Nat
  BY BridgeAssumption
<1> HIDE DEF a0, a1
<1>3. 4 * a1 + e1 + 2 * l1 + u1 < 4 * a0 + e0 + 2 * l0 + u0
  BY <1>1, <1>2
<1> QED  BY <1>3 DEF a0, a1

\* Every step leaves less to do.
LEMMA StepTakesWork == ASSUME OrderInv, Next PROVE WorkLeft' < WorkLeft
<1>1. /\ made \in 0..Batches /\ Batches \in Nat
      /\ queue \in Seq(Item) /\ Len(queue) \in Nat
      /\ producer \in {"reading", "raising", "closing", "gone"}
  BY Types DEF OrderInv, TypeOK
<1>2. ASSUME NEW x \in Item, Put(x) PROVE Len(queue') = Len(queue) + 1
  BY <1>1, <1>2, AppendItem DEF Put
<1> DEFINE toend == ToEnd[producer]
           busy == IF reader = "using" THEN 1 ELSE 0
           len == Len(queue)
<1>3. /\ producer = "reading" => toend = 7
      /\ producer = "raising" => toend = 6
      /\ producer = "closing" => toend = 3
      /\ producer' = "raising" => toend' = 6
      /\ producer' = "closing" => toend' = 3
      /\ producer' = "gone" => toend' = 0
      /\ producer' = producer => toend' = toend
      /\ toend \in Nat
  BY <1>1 DEF ToEnd
<1>4. /\ reader = "using" => busy = 1
      /\ reader # "using" => busy = 0
      /\ reader' # "using" => busy' = 0
      /\ reader' = reader => busy' = busy
      /\ busy' \in {0, 1} /\ busy \in {0, 1}
  OBVIOUS
<1>5. \/ made' = made + 1 /\ toend' = toend /\ len' = len + 1 /\ busy' = busy
      \/ made' = made /\ toend' + 3 = toend /\ len' = len + 1 /\ busy' = busy
      \/ made' = made /\ toend' = toend /\ len' = len - 1 /\ busy = 0
      \/ made' = made /\ toend = 7 /\ toend' \in {3, 6} /\ len' = len /\ busy' = busy
      \/ made' = made /\ toend' = toend /\ len' = len /\ busy = 1 /\ busy' = 0
  <2>1. CASE Produce
    <3>1. len' = len + 1
      BY <1>1, <1>2, <2>1, ItemKinds DEF Produce
    <3> QED  BY <1>3, <1>4, <2>1, <3>1 DEF Produce
  <2>2. CASE Raise \/ Close
    <3>1. len' = len + 1
      BY <1>2, <2>2, ItemKinds DEF Raise, Close
    <3> QED  BY <1>3, <1>4, <2>2, <3>1 DEF Raise, Close
  <2>3. CASE Take
    <3>1. len' = len - 1
      BY <1>1, <2>3, TakeItem DEF Take
    <3> QED  BY <1>3, <1>4, <2>3, <3>1 DEF Take
  <2>4. CASE Exhausted \/ DriverFails \/ OtherFails
    BY <1>3, <1>4, <2>4 DEF Exhausted, DriverFails, OtherFails
  <2>5. CASE Used \/ SinkFails
    BY <1>3, <1>4, <2>5 DEF Used, SinkFails
  <2> QED
    BY <2>1, <2>2, <2>3, <2>4, <2>5 DEF Next, ThreadStep, ReaderStep
<1>6. /\ made \in 0..Batches /\ toend \in Nat /\ len \in Nat /\ busy \in {0, 1}
      /\ made' \in 0..Batches /\ toend' \in Nat /\ len' \in Nat /\ busy' \in {0, 1}
  <2>1. OrderInv'
    BY StepKeepsOrder
  <2>2. made' \in 0..Batches /\ len' \in Nat /\ toend' \in Nat
    BY <2>1, BridgeAssumption DEF OrderInv, TypeOK, ToEnd
  <2> QED  BY <1>1, <1>3, <1>4, <2>2
<1>7. WorkLeft' = 4 * (Batches - made') + toend' + 2 * len' + busy'
  BY DEF WorkLeft
<1>8. WorkLeft = 4 * (Batches - made) + toend + 2 * len + busy
  BY DEF WorkLeft
<1> HIDE DEF toend, busy, len
<1>9. 4 * (Batches - made') + toend' + 2 * len' + busy'
         < 4 * (Batches - made) + toend + 2 * len + busy
  <2>1. PICK m0, m1, e0, e1, l0, l1, u0, u1 :
           /\ m0 = made /\ e0 = toend /\ l0 = len /\ u0 = busy
           /\ m1 = made' /\ e1 = toend' /\ l1 = len' /\ u1 = busy'
    OBVIOUS
  <2>2. /\ m0 \in 0..Batches /\ e0 \in Nat /\ l0 \in Nat /\ u0 \in {0, 1}
        /\ m1 \in 0..Batches /\ e1 \in Nat /\ l1 \in Nat /\ u1 \in {0, 1}
    BY <1>6, <2>1
  <2>3. \/ m1 = m0 + 1 /\ e1 = e0 /\ l1 = l0 + 1 /\ u1 = u0
        \/ m1 = m0 /\ e1 + 3 = e0 /\ l1 = l0 + 1 /\ u1 = u0
        \/ m1 = m0 /\ e1 = e0 /\ l1 = l0 - 1 /\ u0 = 0
        \/ m1 = m0 /\ e0 = 7 /\ e1 \in {3, 6} /\ l1 = l0 /\ u1 = u0
        \/ m1 = m0 /\ e1 = e0 /\ l1 = l0 /\ u0 = 1 /\ u1 = 0
    BY <1>5, <2>1
  <2>4. 4 * (Batches - m1) + e1 + 2 * l1 + u1 < 4 * (Batches - m0) + e0 + 2 * l0 + u0
    BY <2>2, <2>3, LessToDo
  <2> QED  BY <2>1, <2>4
<1> QED  BY <1>7, <1>8, <1>9

\* util.py: thread and coroutine never wait for each other.  As long as either has
\* not ended, one of them can go on, for every queue size and whatever the driver,
\* the other exceptions of _produce and the sink do; the sink that raises leaves the
\* thread alone and is the one exception.
THEOREM BridgeNeverStuck == Spec => []NobodyStuck
<1>1. Init => MeetInv
  BY DEF Init, MeetInv, EndIsLast, EndComes, EndFollowsError, RoomForEnd
<1>2. OrderInv /\ MeetInv /\ [Next]_vars => (OrderInv /\ MeetInv)'
  BY StepKeepsOrder, StepKeepsMeet
<1> QED  BY <1>1, <1>2, InitOrder, MeetMeansNobodyStuck, PTL DEF Spec

\* util.py: an extraction has an end.  Every step of thread and coroutine takes from
\* a number that starts at 4 * Batches + 7 and is never negative, so no run has more
\* steps than that.
THEOREM BridgeRunsOut ==
    Spec => /\ [](WorkLeft \in 0..(4 * Batches + 7))
            /\ [][WorkLeft' < WorkLeft]_vars
<1> DEFINE Bound == 4 * Batches + 7
           Within == WorkLeft \in 0..Bound
           Less == WorkLeft' < WorkLeft
<1>1. Bound \in Nat
  BY BridgeAssumption
<1>2. Init => Within
  <2>1. Init => WorkLeft = 4 * Batches + 7
    BY BridgeAssumption DEF Init, WorkLeft, ToEnd
  <2> QED  BY <1>1, <2>1
<1>3. ASSUME OrderInv, [Next]_vars PROVE Less \/ UNCHANGED vars
  BY <1>3, StepTakesWork
<1>4. OrderInv' => (WorkLeft \in Nat)'
  <2>1. OrderInv => WorkLeft \in Nat
    BY WorkIsANumber
  <2> QED  BY <2>1, PTL
<1>5. ASSUME OrderInv, Within, [Next]_vars PROVE Within'
  <2>1. WorkLeft \in Nat /\ WorkLeft' \in Nat
    <3>1. OrderInv'
      BY <1>5, StepKeepsOrder
    <3> QED  BY <1>5, <1>4, <3>1, WorkIsANumber
  <2>2. CASE Less
    <3> HIDE DEF Bound
    <3>1. WorkLeft <= Bound
      BY <1>5
    <3>2. WorkLeft' <= Bound
      BY <1>1, <2>1, <2>2, <3>1
    <3> QED  BY <2>1, <3>2, <1>1
  <2>3. CASE UNCHANGED vars
    BY <1>5, <2>3 DEF vars, WorkLeft
  <2> QED  BY <1>3, <1>5, <2>2, <2>3
<1> HIDE DEF Within, Less
<1>6. Spec => []OrderInv /\ []Within /\ [][Less]_vars
  BY <1>2, <1>3, <1>5, InitOrder, StepKeepsOrder, PTL DEF Spec
<1> QED  BY <1>6 DEF Within, Less, Bound
================================================================================
