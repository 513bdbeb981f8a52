-------------------------- MODULE AutoThrottleProofs --------------------------
(***************************************************************************)
(* The load under the bottleneck monitor: proofs for every concurrency,    *)
(* batch size, window and cooldown.                                        *)
(***************************************************************************)
EXTENDS AutoThrottle, WellFoundedInduction, TLAPS

-------------------------------------------------------------------------------
(* The operators *)

LEMMA Quotient == ASSUME NEW a \in Nat, NEW b \in Nat \ {0} PROVE a \div b \in Nat
BY SMT

LEMMA Tenfold == ASSUME NEW a \in Nat PROVE 10 * a \in Nat
BY SMT

\* A batch more in the window, and the oldest out of it if it is full.
LEMMA WindowSlides ==
    ASSUME NEW S, NEW s \in Seq(S), NEW e \in S, NEW n \in Nat \ {0}, Len(s) <= n
    PROVE  LET all == Append(s, e)
               next == IF Len(all) > n THEN Tail(all) ELSE all
           IN  next \in Seq(S) /\ Len(next) <= n
  <1>1. Append(s, e) \in Seq(S) /\ Len(Append(s, e)) = Len(s) + 1 /\ Len(s) \in Nat
    BY SMT
  <1>2. Append(s, e) # <<>>
    BY <1>1, SMT
  <1>3. Tail(Append(s, e)) \in Seq(S) /\ Len(Tail(Append(s, e))) = Len(s)
    BY <1>1, <1>2, SMT
  <1> QED
    BY <1>1, <1>3, SMT

-------------------------------------------------------------------------------
(* The inductive invariant: the tasks of a batch are held by the semaphore of the
   concurrency in force, since it is only replaced between batches. *)
GateInForce ==
    /\ batch = "writing" => gate = concurrency
    /\ batch = "none" => flying = 0
    /\ flying <= concurrency

\* One reduction per cooldown, as the monitor's own clock tells.
CooldownKept ==
    /\ found["backpressure"] <= clock
    /\ attempts > 0 => /\ found["backpressure"] # Never
                       /\ (attempts - 1) * Cooldown <= found["backpressure"]

ThrottleInv == TypeOK /\ GateInForce /\ CooldownKept

LEMMA ThrottleInit == ASSUME Init PROVE ThrottleInv
  <1>1. 0 \in Times /\ Never \in Moments /\ 0 \in 0..MaxAttempts /\ 0 \in 0..WindowLength
        /\ Batches \in 0..Batches /\ 0 \in Nat /\ 0 <= PlannedConcurrency /\ Never <= 0 /\ ~(0 > 0)
    BY ThrottleAssumption, SMT DEF Times, Moments, Never
  <1>2. recent \in Seq([written : Nat, failed : Nat]) /\ Len(recent) = 0 /\ 0 <= WindowLength
    BY ThrottleAssumption, SMT DEF Init
  <1>3. TypeOK
    BY <1>1, <1>2, ThrottleAssumption DEF Init, TypeOK
  <1> QED
    BY <1>1, <1>3 DEF Init, ThrottleInv, GateInForce, CooldownKept, Kinds

LEMMA BatchBeginsSafe == ASSUME ThrottleInv, BatchBegins PROVE ThrottleInv'
  <1>1. TypeOK'
    BY ThrottleAssumption, SMT DEF BatchBegins, ThrottleInv, TypeOK, monitor, Times, Moments
  <1>2. GateInForce'
    BY SMT DEF BatchBegins, ThrottleInv, TypeOK, GateInForce
  <1> QED
    BY <1>1, <1>2 DEF BatchBegins, ThrottleInv, CooldownKept, monitor

LEMMA AcquireSafe == ASSUME ThrottleInv, Acquire PROVE ThrottleInv'
  <1>1. TypeOK'
    BY SMT DEF Acquire, ThrottleInv, TypeOK, monitor, Times, Moments
  <1>2. GateInForce'
    BY SMT DEF Acquire, ThrottleInv, TypeOK, GateInForce
  <1> QED
    BY <1>1, <1>2 DEF Acquire, ThrottleInv, CooldownKept, monitor

LEMMA UpsertedSafe == ASSUME ThrottleInv, Upserted PROVE ThrottleInv'
  <1>1. TypeOK'
    BY SMT DEF Upserted, ThrottleInv, TypeOK, monitor, Times, Moments
  <1>2. GateInForce'
    BY SMT DEF Upserted, ThrottleInv, TypeOK, GateInForce
  <1> QED
    BY <1>1, <1>2 DEF Upserted, ThrottleInv, CooldownKept, monitor

LEMMA TickSafe == ASSUME ThrottleInv, Tick PROVE ThrottleInv'
  <1>1. TypeOK'
    BY ThrottleAssumption, SMT DEF Tick, ThrottleInv, TypeOK, loading, monitor, Times, Moments
  <1>2. GateInForce'
    BY DEF Tick, ThrottleInv, GateInForce, loading
  <1>3. CooldownKept'
    BY SMT DEF Tick, ThrottleInv, TypeOK, CooldownKept, monitor, Times, Moments, Never, Kinds
  <1> QED
    BY <1>1, <1>2, <1>3 DEF ThrottleInv

LEMMA BatchEndsSafe == ASSUME ThrottleInv, BatchEnds PROVE ThrottleInv'
  <1>1. clock \in Nat /\ clock \in Times /\ migrated' \in Nat
    BY ThrottleAssumption, SMT DEF BatchEnds, Observe, ThrottleInv, TypeOK, Times
  <1>2. PICK rate \in Nat : rate = Rate
    <2>1. 10 * migrated' \in Nat
      BY <1>1, Tenfold
    <2>2. clock # 0 => (10 * migrated') \div clock \in Nat
      BY <1>1, <2>1, Quotient
    <2> QED
      BY <2>2 DEF Rate
  <1>3. peak' \in Nat
    <2>1. peak' = AtLeast(peak, rate) /\ peak \in Nat
      BY <1>2 DEF BatchEnds, Observe, ThrottleInv, TypeOK
    <2> QED
      BY <2>1, SMT DEF AtLeast
  <1>4. stallSince' \in Moments /\ slackSince' \in Moments
    BY <1>1 DEF BatchEnds, Observe, Since, ThrottleInv, TypeOK, Moments
  <1>5. recent' \in Seq([written : Nat, failed : Nat]) /\ Len(recent') <= WindowLength
    <2>1. [written |-> written, failed |-> failed] \in [written : Nat, failed : Nat]
      BY DEF ThrottleInv, TypeOK
    <2> QED
      BY <2>1, WindowSlides, ThrottleAssumption DEF BatchEnds, Observe, ThrottleInv, TypeOK
  <1>6. found' \in [Kinds -> Moments]
    BY <1>1 DEF BatchEnds, ThrottleInv, TypeOK, Moments
  <1>7. Recommended \in Nat \ {0}
    BY SMT DEF Recommended, AtLeast, ThrottleInv, TypeOK
  <1>8. concurrency' \in Nat \ {0} /\ attempts' \in 0..MaxAttempts
    <2>1. CASE Reducing
      <3>1. attempts' = attempts + 1 /\ concurrency' = Recommended /\ attempts < MaxAttempts
        BY <2>1 DEF BatchEnds, Reducing
      <3>2. attempts \in 0..MaxAttempts
        BY DEF ThrottleInv, TypeOK
      <3> QED
        BY <1>7, <3>1, <3>2, ThrottleAssumption, SMT
    <2>2. CASE ~Reducing
      BY <2>2 DEF BatchEnds, ThrottleInv, TypeOK
    <2> QED BY <2>1, <2>2
  <1>9. newer' \in 0..WindowLength
    BY ThrottleAssumption, SMT DEF BatchEnds, AtMost, ThrottleInv, TypeOK
  <1>10. TypeOK'
    BY <1>1, <1>3, <1>4, <1>5, <1>6, <1>8, <1>9 DEF BatchEnds, Observe, ThrottleInv, TypeOK
  <1>11. GateInForce'
    BY <1>8, SMT DEF BatchEnds, BatchDone, ThrottleInv, TypeOK, GateInForce
  <1>12. CooldownKept'
    <2>1. found'["backpressure"] \in {clock, found["backpressure"]}
      BY DEF BatchEnds, Kinds
    <2>2. found["backpressure"] \in Int /\ attempts \in Nat
      BY SMT DEF ThrottleInv, TypeOK, Kinds, Moments, Times, Never
    <2>3. CASE Reducing
      <3>1. Due("backpressure") /\ found'["backpressure"] = clock /\ attempts' = attempts + 1
            /\ clock' = clock
        BY <2>3 DEF BatchEnds, Reducing, Kinds
      <3>2. found["backpressure"] = Never \/ clock - found["backpressure"] >= Cooldown
        BY <3>1 DEF Due, Eligible
      <3>3. attempts * Cooldown <= clock
        <4>1. CASE attempts = 0
          BY <1>1, <4>1, ThrottleAssumption, SMT
        <4>2. CASE attempts > 0
          <5>1. attempts * Cooldown = (attempts - 1) * Cooldown + Cooldown
                /\ (attempts - 1) * Cooldown \in Int
            BY <2>2, ThrottleAssumption, SMT
          <5>2. (attempts - 1) * Cooldown <= found["backpressure"]
                /\ clock - found["backpressure"] >= Cooldown
            BY <3>2, <4>2 DEF ThrottleInv, CooldownKept
          <5> QED
            BY <1>1, <2>2, <5>1, <5>2, ThrottleAssumption, SMT
        <4> QED BY <2>2, <4>1, <4>2, SMT
      <3> QED
        BY <1>1, <2>2, <3>1, <3>3, SMT DEF CooldownKept, Never
    <2>4. CASE ~Reducing
      <3>1. attempts' = attempts /\ clock' = clock
        BY <2>4 DEF BatchEnds
      <3>2. found["backpressure"] <= clock
            /\ (attempts > 0 => /\ found["backpressure"] # Never
                                /\ (attempts - 1) * Cooldown <= found["backpressure"])
        BY DEF ThrottleInv, CooldownKept
      <3>3. (attempts - 1) * Cooldown \in Int
        BY <2>2, ThrottleAssumption, SMT
      <3> QED
        BY <1>1, <2>1, <2>2, <3>1, <3>2, <3>3, SMT DEF CooldownKept, Never
    <2> QED BY <2>3, <2>4
  <1> QED
    BY <1>10, <1>11, <1>12 DEF ThrottleInv

LEMMA ThrottleStep == ASSUME ThrottleInv, [Next]_vars PROVE ThrottleInv'
  <1>1. CASE UNCHANGED vars
    BY <1>1 DEF vars, loading, monitor, ThrottleInv, TypeOK, GateInForce, CooldownKept
  <1> QED
    BY <1>1, BatchBeginsSafe, AcquireSafe, UpsertedSafe, BatchEndsSafe, TickSafe DEF Next

-------------------------------------------------------------------------------
(* Theorems *)

\* Every variable holds values of its kind: the concurrency never reaches zero, and no
\* more than MAX_AUTO_THROTTLE_ATTEMPTS reductions are made.
THEOREM ThrottleTypeCorrect == Spec => []TypeOK
  <1>1. Init => ThrottleInv
    BY ThrottleInit
  <1>2. ThrottleInv /\ [Next]_vars => ThrottleInv'
    BY ThrottleStep
  <1>3. ThrottleInv => TypeOK
    BY DEF ThrottleInv
  <1> QED
    BY <1>1, <1>2, <1>3, PTL DEF Spec

\* set_concurrency replaces the semaphore: nevertheless no more documents are written
\* at one time than the current concurrency allows.
THEOREM FlightsAreBounded == Spec => []FlightsBounded
  <1>1. Init => ThrottleInv
    BY ThrottleInit
  <1>2. ThrottleInv /\ [Next]_vars => ThrottleInv'
    BY ThrottleStep
  <1>3. ThrottleInv => FlightsBounded
    BY DEF ThrottleInv, GateInForce, FlightsBounded
  <1> QED
    BY <1>1, <1>2, <1>3, PTL DEF Spec

-------------------------------------------------------------------------------
(* Halved is a function: by induction over a set of numbers *)

LEMMA SetInduction ==
    ASSUME NEW S \in SUBSET Nat, 0 \in S, \A n \in S : n + 1 \in S
    PROVE  S = Nat
  <1> SUFFICES ASSUME S # Nat PROVE FALSE
    OBVIOUS
  <1>1. Nat \ S # {}
    OBVIOUS
  <1>2. PICK x \in Nat \ S : \A y \in Nat \ S : ~(<<y, x>> \in OpToRel(<, Nat))
    BY <1>1, NatLessThanWellFounded, WFMin
  <1>3. \A y \in Nat \ S : ~(y < x)
    BY <1>2 DEF OpToRel
  <1>4. x \in Nat /\ x # 0
    OBVIOUS
  <1>5. x - 1 \in Nat /\ x - 1 < x /\ (x - 1) + 1 = x
    BY <1>4, SMT
  <1> QED
    BY <1>3, <1>4, <1>5

Half(c) == AtLeast(1, c \div 2)

\* g is the descent through n reductions.
Descent(g, n) == g = [m \in 0..n |-> IF m = 0 THEN PlannedConcurrency ELSE Half(g[m - 1])]

LEMMA DescentExists == \A n \in Nat : \E g : Descent(g, n)
  <1> DEFINE S == {n \in Nat : \E g : Descent(g, n)}
  <1>1. 0 \in S
    <2> DEFINE g == [m \in 0..0 |-> PlannedConcurrency]
    <2>1. \A m \in 0..0 : m = 0
      BY SMT
    <2>2. Descent(g, 0)
      BY <2>1 DEF Descent
    <2> QED
      BY <2>2
  <1>2. ASSUME NEW n \in S PROVE n + 1 \in S
    <2>1. PICK g : Descent(g, n)
      OBVIOUS
    <2> DEFINE h == [m \in 0..(n + 1) |-> IF m = n + 1 THEN Half(g[n]) ELSE g[m]]
    <2>2. n \in Nat /\ n + 1 \in Nat
      OBVIOUS
    <2>3. ASSUME NEW m \in 0..(n + 1)
          PROVE  h[m] = IF m = 0 THEN PlannedConcurrency ELSE Half(h[m - 1])
      <3>1. CASE m = n + 1
        <4>1. m # 0 /\ m - 1 = n /\ n \in 0..(n + 1) /\ n # n + 1
          BY <2>2, <3>1, SMT
        <4>2. h[n] = g[n]
          BY <4>1
        <4> QED
          BY <3>1, <4>1, <4>2
      <3>2. CASE m # n + 1 /\ m # 0
        <4>1. m \in 0..n /\ m - 1 \in 0..(n + 1) /\ m - 1 # n + 1
          BY <2>2, <3>2, SMT
        <4>2. h[m] = g[m] /\ h[m - 1] = g[m - 1]
          BY <3>2, <4>1
        <4>3. g[m] = Half(g[m - 1])
          BY <2>1, <3>2, <4>1 DEF Descent
        <4> QED
          BY <3>2, <4>2, <4>3
      <3>3. CASE m # n + 1 /\ m = 0
        <4>1. m \in 0..n
          BY <2>2, <3>3, SMT
        <4>2. g[m] = PlannedConcurrency
          BY <2>1, <3>3, <4>1 DEF Descent
        <4> QED
          BY <3>3, <4>2
      <3> QED BY <3>1, <3>2, <3>3
    <2>4. Descent(h, n + 1)
      <3> HIDE DEF h
      <3>1. h = [m \in 0..(n + 1) |-> h[m]]
        BY DEF h
      <3>2. h = [m \in 0..(n + 1) |-> IF m = 0 THEN PlannedConcurrency ELSE Half(h[m - 1])]
        BY <2>3, <3>1, Zenon
      <3> QED
        BY <3>2 DEF Descent
    <2> QED
      BY <2>2, <2>4
  <1>3. S = Nat
    <2> HIDE DEF S
    <2>1. S \in SUBSET Nat
      BY DEF S
    <2> QED
      BY <1>1, <1>2, <2>1, SetInduction
  <1> QED
    BY <1>3

LEMMA DescentUnique ==
    ASSUME NEW n \in Nat, NEW m \in Nat, NEW g, NEW h, Descent(g, n), Descent(h, m)
    PROVE  \A k \in Nat : k <= n /\ k <= m => g[k] = h[k]
  <1> DEFINE S == {k \in Nat : k <= n /\ k <= m => g[k] = h[k]}
  <1>1. 0 \in S
    <2>1. 0 \in 0..n /\ 0 \in 0..m
      BY SMT
    <2> QED
      BY <2>1 DEF Descent
  <1>2. ASSUME NEW k \in S PROVE k + 1 \in S
    <2> SUFFICES ASSUME k + 1 <= n, k + 1 <= m PROVE g[k + 1] = h[k + 1]
      OBVIOUS
    <2>1. k \in Nat
      OBVIOUS
    <2>2. k <= n /\ k <= m /\ k + 1 \in 0..n /\ k + 1 \in 0..m /\ k + 1 # 0 /\ (k + 1) - 1 = k
      BY <2>1, SMT
    <2>3. g[k] = h[k]
      BY <2>2
    <2>4. g[k + 1] = Half(g[k]) /\ h[k + 1] = Half(h[k])
      BY <2>2 DEF Descent
    <2> QED
      BY <2>3, <2>4
  <1>3. S = Nat
    <2> HIDE DEF S
    <2>1. S \in SUBSET Nat
      BY DEF S
    <2> QED
      BY <1>1, <1>2, <2>1, SetInduction
  <1> QED
    BY <1>3

LEMMA HalvedDef ==
    Halved = [n \in Nat |-> IF n = 0 THEN PlannedConcurrency ELSE Half(Halved[n - 1])]
  <1> DEFINE To(n) == CHOOSE g : Descent(g, n)
             f == [n \in Nat |-> To(n)[n]]
  <1>1. \A n \in Nat : Descent(To(n), n)
    BY DescentExists
  <1> HIDE DEF To
  <1>2. ASSUME NEW n \in Nat
        PROVE  f[n] = IF n = 0 THEN PlannedConcurrency ELSE Half(f[n - 1])
    <2>1. Descent(To(n), n) /\ n \in 0..n
      BY <1>1, SMT
    <2>2. CASE n = 0
      BY <2>1, <2>2 DEF Descent
    <2>3. CASE n # 0
      <3>1. n - 1 \in Nat /\ n - 1 <= n /\ n - 1 <= n - 1
        BY <2>3, SMT
      <3>2. Descent(To(n - 1), n - 1)
        BY <1>1, <3>1
      <3>3. To(n)[n] = Half(To(n)[n - 1])
        BY <2>1, <2>3 DEF Descent
      <3>4. To(n)[n - 1] = To(n - 1)[n - 1]
        BY <2>1, <3>1, <3>2, DescentUnique
      <3> QED
        BY <2>3, <3>1, <3>3, <3>4
    <2> QED BY <2>2, <2>3
  <1>3. f = [n \in Nat |-> IF n = 0 THEN PlannedConcurrency ELSE Half(f[n - 1])]
    <2>1. f = [n \in Nat |-> f[n]]
      OBVIOUS
    <2> HIDE DEF f
    <2> QED
      BY <1>2, <2>1, Zenon
  <1>4. \E g : g = [n \in Nat |-> IF n = 0 THEN PlannedConcurrency ELSE Half(g[n - 1])]
    BY <1>3
  <1> QED
    BY <1>4, Zenon DEF Halved, Half

LEMMA HalvedValues ==
    Halved[0] = PlannedConcurrency /\ \A n \in Nat : Halved[n + 1] = Half(Halved[n])
  <1>1. \A n \in Nat : n + 1 \in Nat /\ n + 1 # 0 /\ (n + 1) - 1 = n
    BY SMT
  <1>2. \A n \in Nat : Halved[n] = IF n = 0 THEN PlannedConcurrency ELSE Half(Halved[n - 1])
    BY HalvedDef, Zenon
  <1>3. ASSUME NEW n \in Nat PROVE Halved[n + 1] = Half(Halved[n])
    <2>1. n + 1 \in Nat /\ n + 1 # 0 /\ (n + 1) - 1 = n
      BY <1>1
    <2>2. Halved[n + 1] = IF n + 1 = 0 THEN PlannedConcurrency ELSE Half(Halved[(n + 1) - 1])
      BY <1>2, <2>1
    <2> QED
      BY <2>1, <2>2
  <1>4. Halved[0] = PlannedConcurrency
    BY <1>2, SMT
  <1> QED
    BY <1>3, <1>4

-------------------------------------------------------------------------------
(* The reductions *)

DescentInv == ThrottleInv /\ concurrency = Halved[attempts]

LEMMA DescentStep == ASSUME DescentInv, [Next]_vars PROVE DescentInv'
  <1>1. ThrottleInv'
    BY ThrottleStep DEF DescentInv
  <1>2. CASE UNCHANGED <<concurrency, attempts>>
    BY <1>1, <1>2 DEF DescentInv
  <1>3. CASE BatchEnds /\ Reducing
    <2>1. attempts \in Nat
      BY ThrottleAssumption, SMT DEF DescentInv, ThrottleInv, TypeOK
    <2>2. attempts' = attempts + 1 /\ concurrency' = Half(concurrency)
      BY <1>3 DEF BatchEnds, Recommended, Half
    <2> QED
      BY <1>1, <2>1, <2>2, HalvedValues DEF DescentInv
  <1> QED
    BY <1>2, <1>3 DEF Next, vars, BatchBegins, Acquire, Upserted, BatchEnds, Tick

\* A finding of backpressure halves the concurrency, at most once per FINDING_COOLDOWN_S
\* and MAX_AUTO_THROTTLE_ATTEMPTS times, however long the destination refuses.
THEOREM ReductionsAreApart == Spec => []DescentIsSlow
  <1>1. Init => DescentInv
    BY ThrottleInit, HalvedValues DEF DescentInv, Init
  <1>2. DescentInv /\ [Next]_vars => DescentInv'
    BY DescentStep
  <1>3. DescentInv => DescentIsSlow
    <2> SUFFICES ASSUME ThrottleInv, attempts > 0 PROVE (attempts - 1) * Cooldown <= clock
      BY DEF DescentInv, DescentIsSlow
    <2>1. found["backpressure"] \in Int /\ attempts \in Int /\ clock \in Int
      BY ThrottleAssumption, SMT DEF ThrottleInv, TypeOK, Kinds, Moments, Times, Never
    <2>2. (attempts - 1) * Cooldown \in Int
      BY <2>1, ThrottleAssumption, SMT
    <2>3. (attempts - 1) * Cooldown <= found["backpressure"] /\ found["backpressure"] <= clock
      BY DEF ThrottleInv, CooldownKept
    <2> QED
      BY <2>1, <2>2, <2>3, SMT
  <1> QED
    BY <1>1, <1>2, <1>3, PTL DEF Spec

\* Of batches that take at most a tick, as many ended since the latest reduction as ticks
\* have passed until the latest of them: while a further reduction is open to poll(), no
\* finding comes between.
Judged ==
    ~slow /\ attempts > 0 /\ attempts < MaxAttempts /\ Recommended < concurrency
        => lastEnd - found["backpressure"] <= newer \/ newer = WindowLength

FreshInv ==
    /\ ThrottleInv
    /\ lastEnd <= clock
    /\ ~slow => clock <= lastEnd + 1
    /\ Judged

LEMMA FreshStep == ASSUME FreshInv, [Next]_vars PROVE FreshInv'
  <1>1. ThrottleInv'
    BY ThrottleStep DEF FreshInv
  <1>2. /\ found["backpressure"] \in Int /\ clock \in Int /\ lastEnd \in Int
        /\ newer \in 0..WindowLength /\ lastEnd <= clock /\ (~slow => clock <= lastEnd + 1)
    BY ThrottleAssumption, SMT
       DEF FreshInv, ThrottleInv, TypeOK, Kinds, Moments, Times, Never
  <1>3. CASE UNCHANGED <<slow, clock, concurrency, attempts, monitor>>
    BY <1>1, <1>3 DEF FreshInv, Judged, Recommended, monitor
  <1>4. CASE Tick
    <2>1. UNCHANGED <<slow, concurrency, attempts, monitor>> /\ clock' = clock + 1
          /\ (slow \/ clock = lastEnd)
      BY <1>4 DEF Tick
    <2>2. Judged'
      BY <2>1 DEF FreshInv, Judged, Recommended, monitor
    <2>3. lastEnd' <= clock' /\ (~slow' => clock' <= lastEnd' + 1)
      BY <1>2, <2>1, SMT DEF monitor
    <2> QED
      BY <1>1, <2>2, <2>3 DEF FreshInv
  <1>5. CASE BatchEnds
    <2>1. UNCHANGED <<slow, clock>> /\ lastEnd' = clock
      BY <1>5 DEF BatchEnds, Observe
    <2>2. Judged'
      <3>1. CASE Reducing
        <4>1. newer' = 0 /\ found'["backpressure"] = clock
          BY <1>5, <3>1 DEF BatchEnds, Reducing, Kinds
        <4> QED
          BY <1>2, <2>1, <4>1, SMT DEF Judged
      <3>2. CASE ~Reducing
        <4>1. UNCHANGED <<attempts, concurrency>> /\ newer' = AtMost(newer + 1, WindowLength)
          BY <1>5, <3>2 DEF BatchEnds
        <4> SUFFICES ASSUME ~slow, attempts > 0, attempts < MaxAttempts, Recommended < concurrency
                     PROVE  lastEnd' - found'["backpressure"] <= newer' \/ newer' = WindowLength
          BY <2>1, <4>1 DEF Judged, Recommended
        <4>2. found'["backpressure"] = found["backpressure"]
          BY <1>5, <3>2 DEF BatchEnds, Reducing, Kinds
        <4>3. lastEnd - found["backpressure"] <= newer \/ newer = WindowLength
          BY DEF FreshInv, Judged
        <4> QED
          BY <1>2, <2>1, <4>1, <4>2, <4>3, ThrottleAssumption, SMT DEF AtMost
      <3> QED BY <3>1, <3>2
    <2>3. lastEnd' <= clock' /\ (~slow' => clock' <= lastEnd' + 1)
      BY <1>2, <2>1, SMT
    <2> QED
      BY <1>1, <2>2, <2>3 DEF FreshInv
  <1> QED
    BY <1>3, <1>4, <1>5 DEF Next, vars, BatchBegins, Acquire, Upserted

\* _recent_batches holds the batches since the latest reduction: with a cooldown that is
\* no shorter than the window (FINDING_COOLDOWN_S is 90 seconds, the window 10 batches) a
\* load of fast batches is never reduced twice for the failures of the same batch.
THEOREM ReductionsRestOnNewBatches ==
    ASSUME WindowLength <= Cooldown
    PROVE  Spec => RestsOnNewBatches
  <1>1. Init => FreshInv
    <2> SUFFICES ASSUME Init PROVE FreshInv
      OBVIOUS
    <2>1. lastEnd = 0 /\ clock = 0 /\ ~(attempts > 0)
      BY SMT DEF Init
    <2> QED
      BY <2>1, ThrottleInit, SMT DEF FreshInv, Judged
  <1>2. FreshInv /\ [Next]_vars => FreshInv'
    BY FreshStep
  <1>3. ASSUME FreshInv, FreshInv', [Next]_vars, concurrency' < concurrency, attempts > 0, ~slow
        PROVE  newer + 1 >= Len(recent')
    <2>0. FreshInv
      BY <1>3
    <2>1. concurrency \in Nat /\ ~(concurrency < concurrency)
      BY <2>0, SMT DEF FreshInv, ThrottleInv, TypeOK
    <2>2. BatchEnds /\ Reducing
      BY <1>3, <2>1 DEF Next, vars, BatchBegins, Acquire, Upserted, BatchEnds, Tick
    <2>3. found["backpressure"] = Never \/ clock - found["backpressure"] >= Cooldown
      BY <2>2 DEF Reducing, Due, Eligible
    <2>4. clock - found["backpressure"] >= Cooldown
      BY <1>3, <2>3 DEF FreshInv, ThrottleInv, CooldownKept
    <2>5. lastEnd - found["backpressure"] <= newer \/ newer = WindowLength
      BY <1>3, <2>2 DEF FreshInv, Judged, Reducing
    <2>6. /\ found["backpressure"] \in Int /\ clock \in Int /\ lastEnd \in Int
          /\ newer \in Int /\ (~slow => clock <= lastEnd + 1)
      BY <2>0, ThrottleAssumption, SMT
         DEF FreshInv, ThrottleInv, TypeOK, Kinds, Moments, Times, Never
    <2>7. Len(recent') \in Nat /\ Len(recent') <= WindowLength
      BY <1>3, SMT DEF FreshInv, ThrottleInv, TypeOK
    <2> QED
      BY <1>3, <2>4, <2>5, <2>6, <2>7, ThrottleAssumption, SMT
  <1>4. FreshInv /\ FreshInv' /\ [Next]_vars =>
            [concurrency' < concurrency /\ attempts > 0 /\ ~slow => newer + 1 >= Len(recent')]_vars
    BY <1>3
  <1> QED
    BY <1>1, <1>2, <1>4, PTL DEF Spec, RestsOnNewBatches
================================================================================
