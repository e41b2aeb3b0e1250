-------------------------- MODULE SchedulerProofs --------------------------
(***************************************************************************)
(* Facts about the operators of Scheduler, for every number of workers and *)
(* every concurrency: what the scan of nextWorker may return, and how each *)
(* method of the scheduler changes its state.                              *)
(***************************************************************************)
EXTENDS Scheduler, FiniteSetTheorems, WellFoundedInduction, TLAPS

\* The pairs of naturals in increasing order, a well-founded relation.
Below == {ss \in Nat \X Nat : ss[1] < ss[2]}

\* The order the library's well-foundedness theorem speaks of is the one of Min.
LEMMA BelowIsLess == OpToRel(<, Nat) = Below
BY DEF OpToRel, Below

\* Every non-empty set of naturals has a least member.
LEMMA BelowWellFounded == IsWellFoundedOn(Below, Nat)
BY NatLessThanWellFounded, BelowIsLess

\* Min picks a member: a non-empty set of naturals has a least one.
LEMMA MinIsMember ==
  ASSUME NEW T \in SUBSET Nat, T # {}
  PROVE  Min(T) \in T /\ \A t \in T : Min(T) <= t
<1>1. PICK m \in T : \A t \in T : ~(<<t, m>> \in Below)
  BY BelowWellFounded, WFMin
<1>2. ASSUME NEW t \in T PROVE m <= t
  <2>1. t \in Nat /\ m \in Nat
    OBVIOUS
  <2>2. t < m => <<t, m>> \in Below
    BY <2>1 DEF Below
  <2>. QED
    BY <1>1, <2>1, <2>2
<1>. QED
  BY <1>2 DEF Min

\* The array that is scanned is finite, so its length is a number.
LEMMA ScheduledFinite ==
  ASSUME SchedTypeOK
  PROVE  /\ IsFiniteSet(Scheduled)
         /\ Length \in Nat
         /\ Length = 0 <=> Scheduled = {}
<1>1. IsFiniteSet(1..connected)
  BY FS_Interval DEF SchedTypeOK
<1>2. Scheduled \subseteq 1..connected
  BY DEF SchedTypeOK, Scheduled
<1>3. IsFiniteSet(Scheduled)
  BY <1>1, <1>2, FS_Subset
<1>. QED
  BY <1>3, FS_CardinalityType, FS_EmptySet DEF Length

\* What the code relies on: the worker nextWorker returns is registered, is known to
\* this queue and has a free slot.
LEMMA NextWorkerIsAble ==
  ASSUME SchedTypeOK, NextWorker # NoWorker
  PROVE  NextWorker \in AvailableWorkers /\ Min(Hits) \in 0..Length - 1
<1>1. Hits # {}
  BY DEF NextWorker
<1>2. Hits \in SUBSET Nat
  BY ScheduledFinite DEF Hits
<1>3. Min(Hits) \in Hits
  BY <1>1, <1>2, MinIsMember
<1>4. PICK w \in Scheduled : Found(Min(Hits), w)
  BY <1>3 DEF Hits
<1>5. NextWorker \in Scheduled /\ Found(Min(Hits), NextWorker)
  BY <1>1, <1>4 DEF NextWorker
<1>. QED
  BY <1>3, <1>5 DEF Found, AvailableWorkers, Hits

\* The stored index stays a natural number, whatever the scan met.
LEMMA IndexAfterType ==
  ASSUME SchedTypeOK
  PROVE  IndexAfter \in Nat
<1>1. Length \in Nat /\ workerIndex \in Nat
  BY ScheduledFinite DEF SchedTypeOK
<1>2. Hits \in SUBSET Nat
  BY <1>1 DEF Hits
<1>3. Hits # {} => Min(Hits) \in Nat
  BY <1>2, MinIsMember
<1>. QED
  BY <1>1, <1>3 DEF IndexAfter

\* The position of a scheduled worker is an index of the array.
LEMMA PositionInArray ==
  ASSUME SchedTypeOK, NEW w \in Scheduled
  PROVE  Length \in Nat \ {0} /\ Position(w) \in 0..Length - 1
<1>1. IsFiniteSet(Scheduled) /\ Length \in Nat
  BY ScheduledFinite
<1>2. IsFiniteSet(Scheduled \ {w}) /\ Cardinality(Scheduled \ {w}) = Length - 1
  BY <1>1, FS_RemoveElement DEF Length
<1>3. {v \in Scheduled : v < w} \subseteq Scheduled \ {w}
  <2>1. \A v \in Scheduled : v \in Int
    BY DEF Scheduled, SchedTypeOK
  <2>. QED
    BY <2>1
<1>4. IsFiniteSet({v \in Scheduled : v < w}) /\ Position(w) <= Length - 1
  BY <1>2, <1>3, FS_Subset DEF Position
<1>5. Position(w) \in Nat
  BY <1>4, FS_CardinalityType DEF Position
<1>. QED
  BY <1>1, <1>4, <1>5

\* Where a remainder lies.
LEMMA ModFacts ==
  ASSUME NEW n \in Nat \ {0}, NEW x \in 0..n - 1
  PROVE  x % n = x /\ (x + n) % n = x
OBVIOUS

\* Every position other than the stored index is probed; the index itself is too when
\* it lies inside the array.
LEMMA EveryPositionProbed ==
  ASSUME NEW n \in Nat \ {0}, NEW i \in 0..n - 1, NEW x \in 0..n - 1
  PROVE  \E k \in 0..n - 1 : x = IF k = 0 THEN i ELSE (i + k) % n
<1>1. CASE x = i
  BY <1>1
<1>2. CASE x > i
  <2>1. x - i \in 0..n - 1 /\ x - i # 0 /\ i + (x - i) = x
    BY <1>2
  <2>2. x % n = x
    BY ModFacts
  <2>3. (i + (x - i)) % n = x
    BY <2>1, <2>2
  <2>. QED
    BY <2>1, <2>3
<1>3. CASE x < i
  <2>1. (x + n) - i \in 0..n - 1 /\ (x + n) - i # 0 /\ i + ((x + n) - i) = x + n
    BY <1>3
  <2>2. (x + n) % n = x
    BY ModFacts
  <2>3. (i + ((x + n) - i)) % n = x
    BY <2>1, <2>2
  <2>. QED
    BY <2>1, <2>3
<1>. QED
  BY <1>1, <1>2, <1>3

\* A number is a multiple of n and its remainder; adding to the remainder within n, or
\* once around, adds to the number.
LEMMA RemainderFacts ==
  ASSUME NEW n \in Nat \ {0}, NEW i \in Nat
  PROVE  i % n \in 0..n - 1 /\ \E q \in Nat : i = n * q + (i % n)
<1>1. i = n * (i \div n) + (i % n)
  OBVIOUS
<1>2. i \div n \in Nat /\ i % n \in 0..n - 1
  OBVIOUS
<1>. QED
  BY <1>1, <1>2

LEMMA MultipleFacts ==
  ASSUME NEW n \in Nat \ {0}, NEW q \in Nat, NEW x \in 0..n - 1
  PROVE  (n * q + x) % n = x
OBVIOUS

\* A stored index past the array: only the place of its remainder is never probed.
LEMMA OthersProbed ==
  ASSUME NEW n \in Nat \ {0}, NEW i \in Nat, NEW x \in 0..n - 1, x # i % n
  PROVE  \E k \in 0..n - 1 : k # 0 /\ (i + k) % n = x
<1>1. PICK r \in 0..n - 1 : r = i % n
  BY RemainderFacts
<1>2. PICK q \in Nat : i = n * q + r
  BY <1>1, RemainderFacts
<1>3. PICK m \in Nat : m = n * q
  OBVIOUS
<1>4. CASE x > r
  <2>1. x - r \in 0..n - 1 /\ x - r # 0 /\ i + (x - r) = m + x
    BY <1>2, <1>3, <1>4
  <2>2. (i + (x - r)) % n = x
    BY <1>3, <2>1, MultipleFacts
  <2>. QED
    BY <2>1, <2>2
<1>5. CASE x < r
  <2>1. x + n - r \in 0..n - 1 /\ x + n - r # 0 /\ i + (x + n - r) = (m + n) + x
    BY <1>2, <1>3, <1>5
  <2>2. PICK p \in Nat : p = q + 1
    OBVIOUS
  <2>3. m + n = n * p
    BY <1>3, <2>2
  <2>4. (n * p + x) % n = x
    BY MultipleFacts
  <2>. QED
    BY <2>1, <2>3, <2>4
<1>. QED
  BY <1>1, <1>4, <1>5

\* nextWorker returns a worker or nothing.
LEMMA NextWorkerType ==
  ASSUME SchedTypeOK
  PROVE  NextWorker = NoWorker \/ (NextWorker \in registry /\ NextWorker \in Worker)
<1>1. Scheduled \subseteq registry /\ Scheduled \subseteq Worker
  BY MaxWorkersAssumption DEF Scheduled, SchedTypeOK, Worker
<1>. QED
  BY <1>1, NextWorkerIsAble DEF AvailableWorkers
=============================================================================
