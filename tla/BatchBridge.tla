------------------------------ MODULE BatchBridge ------------------------------
(***************************************************************************)
(* One container's extraction through bridge_blocking_batches              *)
(* (backend/app/core/connectors/util.py): a thread runs the connector's    *)
(* _produce, which reads the source with a blocking driver and puts        *)
(* batches, then perhaps an exception, then None into a bounded queue; the *)
(* coroutine takes them out and hands each batch to the engine's sink.     *)
(* MongoDB, DynamoDB and Cassandra extract this way.                       *)
(***************************************************************************)
EXTENDS Naturals, Sequences

CONSTANTS
    Batches,    \* how many batches the container yields
    Capacity,   \* maxsize of the queue
    CatchAll,   \* does _produce report every exception, or only the driver's own?
    Faults      \* what may fail: "driver", "other" exceptions of _produce, the "sink"

ASSUME BridgeAssumption ==
    /\ Batches \in Nat
    /\ Capacity \in Nat \ {0}
    /\ CatchAll \in BOOLEAN
    /\ Faults \subseteq {"driver", "other", "sink"}

VARIABLES
    made,      \* batches the thread has put
    producer,  \* "reading", "raising", "closing" (in its finally), "gone"
    queue,
    got,       \* the batches the sink has been given, by number
    reader     \* "waiting", "using", "returned", "raised", "left"

vars == <<made, producer, queue, got, reader>>

Batch(n) == [kind |-> "batch", n |-> n]
Error == [kind |-> "error", n |-> 0]
End == [kind |-> "end", n |-> 0]

Item == [kind : {"batch", "error", "end"}, n : Nat]

Init ==
    /\ made = 0
    /\ producer = "reading"
    /\ queue = <<>>
    /\ got = <<>>
    /\ reader = "waiting"

-------------------------------------------------------------------------------
(* The thread *)

\* Mutant of Put: the queue has no maxsize.
PutUnbounded(item) == queue' = Append(queue, item)

\* q.put: blocks while the queue is full.
Put(item) ==
    /\ Len(queue) < Capacity
    /\ queue' = Append(queue, item)

\* Mutant of Produce: batch = [] is forgotten after the put.
ProduceStale ==
    /\ producer = "reading" /\ made < Batches
    /\ Put(Batch(IF made = 0 THEN 1 ELSE made))
    /\ made' = made + 1
    /\ UNCHANGED <<producer, got, reader>>

\* MongoDB makes its cursor anew without no_cursor_timeout where the server rejects
\* that.  The server does so when it is asked to open the cursor, before the first
\* batch: made is 0 before and after, which is no step here.
Produce ==
    /\ producer = "reading" /\ made < Batches
    /\ Put(Batch(made + 1))
    /\ made' = made + 1
    /\ UNCHANGED <<producer, got, reader>>

Exhausted ==
    /\ producer = "reading" /\ made = Batches
    /\ producer' = "closing"
    /\ UNCHANGED <<made, queue, got, reader>>

\* Mutant of DriverFails: the except clause only logs.
DriverFailsQuietly ==
    /\ producer = "reading" /\ "driver" \in Faults
    /\ producer' = "closing"
    /\ UNCHANGED <<made, queue, got, reader>>

DriverFails ==
    /\ producer = "reading" /\ "driver" \in Faults
    /\ producer' = "raising"
    /\ UNCHANGED <<made, queue, got, reader>>

\* DynamoDB catches BotoCoreError and ClientError; anything else runs into the
\* finally clause and is not reported.
OtherFails ==
    /\ producer = "reading" /\ "other" \in Faults
    /\ producer' = IF CatchAll THEN "raising" ELSE "closing"
    /\ UNCHANGED <<made, queue, got, reader>>

Raise ==
    /\ producer = "raising"
    /\ Put(Error)
    /\ producer' = "closing"
    /\ UNCHANGED <<made, got, reader>>

\* Mutant of Close: there is no finally clause.
CloseSilently ==
    /\ producer = "closing"
    /\ producer' = "gone"
    /\ UNCHANGED <<made, queue, got, reader>>

Close ==
    /\ producer = "closing"
    /\ Put(End)
    /\ producer' = "gone"
    /\ UNCHANGED <<made, got, reader>>

-------------------------------------------------------------------------------
(* The coroutine *)

\* Mutants of Take: exceptions are skipped like heartbeats; the loop is left after
\* the first batch.
TakeButErrors ==
    LET item == Head(queue)
    IN  /\ reader = "waiting" /\ queue # <<>>
        /\ queue' = Tail(queue)
        /\ \/ /\ item.kind = "batch"
              /\ got' = Append(got, item.n) /\ reader' = "using"
           \/ item.kind = "error" /\ UNCHANGED <<got, reader>>
           \/ item.kind = "end" /\ reader' = "returned" /\ UNCHANGED got
        /\ UNCHANGED <<made, producer>>

TakeFirstOnly ==
    LET item == Head(queue)
    IN  /\ reader = "waiting" /\ queue # <<>>
        /\ queue' = Tail(queue)
        /\ reader' = IF item.kind = "error" THEN "raised" ELSE "returned"
        /\ UNCHANGED <<made, producer, got>>

\* q.get with a timeout: what comes after a time of nothing (IDLE) is ignored by
\* extract(), so an empty queue only means more waiting.
Take ==
    LET item == Head(queue)
    IN  /\ reader = "waiting" /\ queue # <<>>
        /\ queue' = Tail(queue)
        /\ \/ /\ item.kind = "batch"
              /\ got' = Append(got, item.n) /\ reader' = "using"
           \/ item.kind = "error" /\ reader' = "raised" /\ UNCHANGED got
           \/ item.kind = "end" /\ reader' = "returned" /\ UNCHANGED got
        /\ UNCHANGED <<made, producer>>

\* The sink comes back, or raises out of the loop that reads the bridge.
Used ==
    /\ reader = "using"
    /\ reader' = "waiting"
    /\ UNCHANGED <<made, producer, queue, got>>

SinkFails ==
    /\ reader = "using" /\ "sink" \in Faults
    /\ reader' = "left"
    /\ UNCHANGED <<made, producer, queue, got>>

-------------------------------------------------------------------------------
(* The specification *)

ThreadStep == Produce \/ Exhausted \/ Raise \/ Close
ReaderStep == Take \/ Used

Next == ThreadStep \/ ReaderStep \/ DriverFails \/ OtherFails \/ SinkFails

Spec == Init /\ [][Next]_vars

\* Drivers answer or raise, the thread and the loop keep running.
FairSpec == Spec /\ WF_vars(ThreadStep) /\ WF_vars(ReaderStep)

-------------------------------------------------------------------------------
(* Properties *)

\* Every variable holds values of its kind, and the queue respects its maxsize.
TypeOK ==
    /\ made \in 0..Batches
    /\ producer \in {"reading", "raising", "closing", "gone"}
    /\ queue \in Seq(Item)
    /\ Len(queue) <= Capacity
    /\ got \in Seq(Nat)
    /\ reader \in {"waiting", "using", "returned", "raised", "left"}

\* The sink gets every batch once and in order, whatever blocks when.
InOrder == \A i \in DOMAIN got : got[i] = i

\* extract() returns normally only when the whole container has been handed over:
\* a failure never passes for the end of the data.
NeverTruncated == reader = "returned" => Len(got) = Batches

\* An exception put into the queue comes out of extract(), unless the sink raised
\* first.
FailureSurfaces == producer = "raising" ~> reader \in {"raised", "left"}

\* The load does not hang: its reader always ends.
ReaderEnds == <>(reader \in {"returned", "raised", "left"})

\* util.py: the producer finishes on its own.  The thread ends as long as somebody
\* reads; a sink that raises leaves it alone with a queue that may be full.
ProducerEnds == <>(producer = "gone" \/ reader = "left")

\* util.py: an orphaned thread exits once it meets a full queue.  Whatever becomes of
\* the reader, the thread ends.
OrphanEnds == <>(producer = "gone")
================================================================================
