----------------------------- MODULE AutoThrottle -----------------------------
(***************************************************************************)
(* The full load of one migration under the bottleneck monitor: _sink of   *)
(* _run_full_load (backend/app/core/migration_engine.py), BottleneckMonitor*)
(* (core/bottleneck_detector.py) and write_batch of CouchbaseLoader        *)
(* (core/couchbase_loader.py).                                             *)
(*                                                                         *)
(* The documents of a batch are written by concurrent tasks under the      *)
(* loader's semaphore; when all are done the monitor is fed and polled, in *)
(* one step.  Time is a clock that ticks while writes are under way and    *)
(* while the source prepares a batch.  The thresholds are the code's, in   *)
(* ticks and in documents per tick.                                        *)
(***************************************************************************)
EXTENDS Integers, Sequences

CONSTANTS
    PlannedConcurrency,   \* plan.concurrency
    BatchSize,            \* documents per batch
    Batches,              \* batches the source has (a bound)
    Horizon,              \* when the clock stops (a bound)
    WindowLength,         \* maxlen of _recent_batches
    MinSamples,           \* DEST_ERROR_MIN_SAMPLES
    ErrorPercent,         \* DEST_ERROR_RATE_THRESHOLD, in percent
    Cooldown,             \* FINDING_COOLDOWN_S
    MaxAttempts,          \* MAX_AUTO_THROTTLE_ATTEMPTS
    StallWindow,          \* STALL_WINDOW_S
    StallRate,            \* STALL_THRESHOLD_DOCS_PER_SEC, in tenths of documents per tick
    DegradedWindow,       \* DEGRADED_WINDOW_S
    DegradedMinPeak       \* DEGRADED_MIN_PEAK_DOCS_PER_SEC, in tenths of documents per tick

ASSUME ThrottleAssumption ==
    /\ PlannedConcurrency \in Nat \ {0} /\ BatchSize \in Nat \ {0}
    /\ Batches \in Nat /\ Horizon \in Nat
    /\ WindowLength \in Nat \ {0} /\ MinSamples \in Nat \ {0} /\ ErrorPercent \in Nat
    /\ Cooldown \in Nat \ {0} /\ MaxAttempts \in Nat
    /\ StallWindow \in Nat /\ StallRate \in Nat
    /\ DegradedWindow \in Nat /\ DegradedMinPeak \in Nat

VARIABLES
    slow,          \* may a batch take more than a tick?
    clock,         \* ticks since the load began
    left,          \* batches the source has still to give
    batch,         \* "none" between two batches, "writing" during write_batch
    waiting,       \* documents of the batch whose task waits for the semaphore
    flying,        \* documents being written
    written,       \* documents of the batch that were written
    failed,        \* documents of the batch that were not
    gate,          \* permits of the semaphore the batch's tasks wait for
    concurrency,   \* current_concurrency, of the engine, the monitor and the loader
    attempts,      \* throttle_attempts
    migrated,      \* stats.docs_migrated
    peak,          \* _peak_docs_per_sec, in tenths
    stallSince,    \* _stall_started_at, or Never
    slackSince,    \* _degraded_started_at, or Never
    recent,        \* _recent_batches
    found,         \* _last_finding_at of each kind, or Never
    lastEnd,       \* when the latest batch ended
    newer          \* how many batches ended since the latest reduction

loading == <<batch, waiting, flying, written, failed, gate, left>>
monitor == <<migrated, peak, stallSince, slackSince, recent, found, lastEnd, newer>>
vars == <<slow, clock, loading, concurrency, attempts, monitor>>

Kinds == {"stalled", "degraded", "backpressure"}
Never == -1

AtMost(a, b) == IF a < b THEN a ELSE b
AtLeast(a, b) == IF a > b THEN a ELSE b

-------------------------------------------------------------------------------
(* write_batch *)

\* The connector hands over a batch; every task asks for the semaphore there is.
BatchBegins ==
    /\ batch = "none" /\ left > 0
    /\ batch' = "writing" /\ left' = left - 1
    /\ waiting' = BatchSize /\ flying' = 0 /\ written' = 0 /\ failed' = 0
    /\ gate' = concurrency
    /\ UNCHANGED <<slow, clock, concurrency, attempts, monitor>>

Acquire ==
    /\ batch = "writing" /\ waiting > 0 /\ flying < gate
    /\ waiting' = waiting - 1 /\ flying' = flying + 1
    /\ UNCHANGED <<slow, clock, batch, written, failed, gate, left, concurrency, attempts, monitor>>

\* _upsert_one returns, with a document written or an error.
Upserted ==
    /\ batch = "writing" /\ flying > 0
    /\ flying' = flying - 1
    /\ \/ written' = written + 1 /\ UNCHANGED failed
       \/ failed' = failed + 1 /\ UNCHANGED written
    /\ UNCHANGED <<slow, clock, batch, waiting, gate, left, concurrency, attempts, monitor>>

-------------------------------------------------------------------------------
(* The monitor, with the values after the batch *)

\* docs_per_sec: the mean since the load began, in tenths of documents per tick.
Rate == IF clock = 0 THEN 0 ELSE (10 * migrated') \div clock

Since(condition, start) == IF ~condition THEN Never ELSE IF start = Never THEN clock ELSE start

Observe ==
    /\ migrated' = migrated + written
    /\ peak' = AtLeast(peak, Rate)
    /\ stallSince' = Since(Rate < StallRate /\ clock > 0, stallSince)
    /\ slackSince' = Since(peak' >= DegradedMinPeak /\ 10 * Rate < 4 * peak', slackSince)
    /\ recent' = LET all == Append(recent, [written |-> written, failed |-> failed])
                 IN  IF Len(all) > WindowLength THEN Tail(all) ELSE all
    /\ lastEnd' = clock

\* Mutant of Eligible: no cooldown.
EligibleAlways(kind) == TRUE

Eligible(kind) == found[kind] = Never \/ clock - found[kind] >= Cooldown

Lasted(since, window) == since # Never /\ clock - since >= window

\* The totals of a window of batches.
Total(window) ==
    LET sum[i \in 0..Len(window)] ==
            IF i = 0 THEN [written |-> 0, failed |-> 0]
            ELSE [written |-> sum[i - 1].written + window[i].written,
                  failed |-> sum[i - 1].failed + window[i].failed]
    IN  sum[Len(window)]

Refusing(window) ==
    LET total == Total(window)
    IN  /\ total.written + total.failed > 0
        /\ 100 * total.failed >= ErrorPercent * (total.written + total.failed)

\* What poll() finds.
Due(kind) ==
    /\ Eligible(kind)
    /\ CASE kind = "stalled" -> Lasted(stallSince', StallWindow)
         [] kind = "degraded" -> Lasted(slackSince', DegradedWindow)
         [] kind = "backpressure" -> Len(recent') >= MinSamples /\ Refusing(recent')

Recommended == AtLeast(1, concurrency \div 2)

\* Mutant of Reducing: attempts are not limited.
ReducingForEver == Due("backpressure") /\ Recommended < concurrency

\* Only this finding comes with a recommendation.
Reducing == Due("backpressure") /\ attempts < MaxAttempts /\ Recommended < concurrency

\* Mutant of BatchDone: it does not wait for the documents under way.
BatchAbandoned == batch = "writing" /\ waiting = 0

\* gather() is through.
BatchDone == batch = "writing" /\ waiting = 0 /\ flying = 0

\* The rest of _sink.
BatchEnds ==
    /\ BatchDone
    /\ Observe
    /\ found' = [kind \in Kinds |-> IF Due(kind) THEN clock ELSE found[kind]]
    /\ IF Reducing
       THEN attempts' = attempts + 1 /\ concurrency' = Recommended /\ newer' = 0
       ELSE newer' = AtMost(newer + 1, WindowLength) /\ UNCHANGED <<attempts, concurrency>>
    /\ batch' = "none"
    /\ UNCHANGED <<slow, clock, waiting, flying, written, failed, gate, left>>

-------------------------------------------------------------------------------
(* The specification *)

\* A tick, in which the source reads and the destination writes.
Tick ==
    /\ clock < Horizon
    /\ slow \/ clock = lastEnd
    /\ clock' = clock + 1
    /\ UNCHANGED <<slow, loading, concurrency, attempts, monitor>>

Init ==
    /\ slow \in BOOLEAN
    /\ clock = 0
    /\ left = Batches /\ batch = "none"
    /\ waiting = 0 /\ flying = 0 /\ written = 0 /\ failed = 0
    /\ gate = PlannedConcurrency
    /\ concurrency = PlannedConcurrency
    /\ attempts = 0
    /\ migrated = 0 /\ peak = 0
    /\ stallSince = Never /\ slackSince = Never
    /\ recent = <<>>
    /\ found = [kind \in Kinds |-> Never]
    /\ lastEnd = 0 /\ newer = 0

Next == BatchBegins \/ Acquire \/ Upserted \/ BatchEnds \/ Tick

Spec == Init /\ [][Next]_vars

-------------------------------------------------------------------------------
(* Properties *)

Times == 0..Horizon
Moments == Times \cup {Never}

\* Every variable holds values of its kind.
TypeOK ==
    /\ slow \in BOOLEAN
    /\ clock \in Times /\ lastEnd \in Times
    /\ left \in 0..Batches /\ batch \in {"none", "writing"}
    /\ waiting \in Nat /\ flying \in Nat /\ written \in Nat /\ failed \in Nat
    /\ gate \in Nat \ {0} /\ concurrency \in Nat \ {0}
    /\ attempts \in 0..MaxAttempts
    /\ migrated \in Nat /\ peak \in Nat
    /\ stallSince \in Moments /\ slackSince \in Moments
    /\ recent \in Seq([written : Nat, failed : Nat]) /\ Len(recent) <= WindowLength
    /\ found \in [Kinds -> Moments]
    /\ newer \in 0..WindowLength

\* The concurrency is lowered by putting another semaphore in the place of the old:
\* never are more documents being written than the current concurrency allows.
FlightsBounded == flying <= concurrency

\* From the planned concurrency, halved n times and never below one.
Halved[n \in Nat] == IF n = 0 THEN PlannedConcurrency ELSE AtLeast(1, Halved[n - 1] \div 2)

\* However long the destination refuses, the concurrency is halved at most once per
\* cooldown and at most MaxAttempts times.
DescentIsSlow ==
    /\ concurrency = Halved[attempts]
    /\ attempts > 0 => (attempts - 1) * Cooldown <= clock

\* A reduction is judged by batches written since the one before, unless batches
\* are so slow that the cooldown ends before they fill the window.
RestsOnNewBatches ==
    [][concurrency' < concurrency /\ attempts > 0 /\ ~slow => newer + 1 >= Len(recent')]_vars

\* bottleneck_detector.py: "docs/sec has been ~0 for a sustained window".  A stall
\* of twice that window has been reported.
StallNoticed ==
    [][clock' - lastEnd >= 2 * StallWindow /\ batch = "writing" => found["stalled"] # Never]_vars
================================================================================
