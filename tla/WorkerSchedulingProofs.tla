----------------------- MODULE WorkerSchedulingProofs -----------------------
(***************************************************************************)
(* What WorkerScheduling promises, for every number of workers, every      *)
(* concurrency and every number of jobs.                                   *)
(***************************************************************************)
EXTENDS WorkerScheduling, SchedulerProofs

\* One step of the scheduler keeps its part of the state well typed.
LEMMA SchedTypeInductive ==
  ASSUME SchedTypeOK, [Next]_vars
  PROVE  SchedTypeOK'
<1>1. ASSUME NEW w \in Worker, NEW known \in BOOLEAN, Connect(w, known) PROVE SchedTypeOK'
  BY <1>1, MaxWorkersAssumption DEF Connect, Register, SchedTypeOK, Worker
<1>2. ASSUME NEW w \in Worker, Remove(w) PROVE SchedTypeOK'
  BY <1>2 DEF Remove, Unregister, SchedTypeOK
<1>3. ASSUME NEW j \in Job, Send(j) PROVE SchedTypeOK'
  <2>1. workerIndex' \in Nat /\ workers' \subseteq 1..connected'
    BY <1>3, IndexAfterType DEF Send, Dispatch, Scheduled, SchedTypeOK
  <2>2. NextWorker = NoWorker \/ NextWorker \in Worker
    BY NextWorkerType
  <2>3. load' \in [Worker -> Nat] /\ executing' \in [Worker -> SUBSET Job]
    BY <1>3, <2>2 DEF Send, Dispatch, SchedTypeOK
  <2>. QED
    BY <1>3, <2>1, <2>3 DEF Send, Dispatch, SchedTypeOK
<1>4. ASSUME NEW w \in 1..connected, NEW j \in Job, Answer(w, j) PROVE SchedTypeOK'
  BY <1>4 DEF Answer, FreeSlot, SchedTypeOK
<1>5. CASE UNCHANGED vars
  BY <1>5 DEF vars, schedVars, SchedTypeOK
<1>. QED
  BY <1>1, <1>2, <1>3, <1>4, <1>5 DEF Next

\* A queue starts with no worker.
LEMMA SchedTypeInit == Init => SchedTypeOK
BY MaxWorkersAssumption, MaxJobsAssumption DEF Init, SchedInit, SchedTypeOK, Worker, Job

\* The type invariant of the scheduler, histories included.
THEOREM SchedulingTypeCorrect == Spec => []TypeOK
<1>1. Init => TypeOK
  BY SchedTypeInit DEF Init, TypeOK
<1>2. TypeOK /\ [Next]_vars => TypeOK'
  <2>. SUFFICES ASSUME TypeOK, [Next]_vars PROVE TypeOK'
    OBVIOUS
  <2>1. SchedTypeOK'
    BY SchedTypeInductive DEF TypeOK
  <2>2. NextWorker = NoWorker \/ NextWorker \in Worker
    BY NextWorkerType DEF TypeOK
  <2>3. overtaken' \in [Worker -> SUBSET Worker] /\ unfair' \in BOOLEAN
    BY <2>2 DEF TypeOK, Next, vars, Connect, Remove, Send, Answer
  <2>. QED
    BY <2>1, <2>3 DEF TypeOK
<1>. QED
  BY <1>1, <1>2, PTL DEF Spec

\* No worker is ever given more than its concurrency, whatever answers arrive.
THEOREM LoadNeverExceedsConcurrency == Spec => []LoadBounded
<1>1. Init => LoadBounded
  BY ConcurrencyAssumption DEF Init, SchedInit, LoadBounded
<1>2. TypeOK /\ LoadBounded /\ [Next]_vars => LoadBounded'
  <2>. SUFFICES ASSUME TypeOK, LoadBounded, [Next]_vars PROVE LoadBounded'
    OBVIOUS
  <2>. USE ConcurrencyAssumption DEF TypeOK, SchedTypeOK, LoadBounded
  <2>1. ASSUME NEW w \in Worker, NEW known \in BOOLEAN, Connect(w, known) PROVE LoadBounded'
    BY <2>1 DEF Connect, Register
  <2>2. ASSUME NEW w \in Worker, Remove(w) PROVE LoadBounded'
    BY <2>2 DEF Remove, Unregister
  <2>3. ASSUME NEW j \in Job, Send(j) PROVE LoadBounded'
    <3>1. NextWorker # NoWorker => load[NextWorker] < Concurrency[NextWorker]
      BY NextWorkerIsAble DEF AvailableWorkers, CanWork
    <3>. QED
      BY <2>3, <3>1 DEF Send, Dispatch
  <2>4. ASSUME NEW w \in 1..connected, NEW j \in Job, Answer(w, j) PROVE LoadBounded'
    BY <2>4 DEF Answer, FreeSlot
  <2>5. CASE UNCHANGED vars
    BY <2>5 DEF vars, schedVars
  <2>. QED
    BY <2>1, <2>2, <2>3, <2>4, <2>5 DEF Next
<1>. QED
  BY <1>1, <1>2, SchedulingTypeCorrect, PTL DEF Spec

\* A probe that meets an able worker makes the scan return one.
LEMMA ProbeFinds ==
  ASSUME TypeOK, NEW w \in AvailableWorkers, NEW k \in 0..Length - 1, Position(w) = Slot(k)
  PROVE  NextWorker # NoWorker
<1>. USE DEF TypeOK
<1>1. w \in Scheduled /\ CanWork(w)
  BY DEF AvailableWorkers
<1>2. k \in Hits
  BY <1>1 DEF Hits, Found
<1>3. Hits \in SUBSET Nat
  BY <1>1, PositionInArray DEF Hits
<1>4. Min(Hits) \in Hits
  BY <1>2, <1>3, MinIsMember
<1>5. PICK v \in Scheduled : Found(Min(Hits), v)
  BY <1>4 DEF Hits
<1>6. NextWorker \in Scheduled
  BY <1>2, <1>5 DEF NextWorker
<1>. QED
  BY <1>6 DEF Scheduled, SchedTypeOK, NoWorker

\* As long as the stored index is inside the array, an able worker is found.
THEOREM NextWorkerIsComplete == Spec => []NextWorkerComplete
<1>1. TypeOK => NextWorkerComplete
  <2>. SUFFICES ASSUME TypeOK, workerIndex < Length
                PROVE  NextWorker = NoWorker <=> AvailableWorkers = {}
    BY DEF NextWorkerComplete
  <2>. USE DEF TypeOK
  <2>1. NextWorker # NoWorker => AvailableWorkers # {}
    BY NextWorkerIsAble
  <2>2. ASSUME NEW w \in AvailableWorkers PROVE NextWorker # NoWorker
    <3>1. w \in Scheduled /\ CanWork(w)
      BY DEF AvailableWorkers
    <3>2. Length \in Nat \ {0} /\ Position(w) \in 0..Length - 1
      BY <3>1, PositionInArray
    <3>3. workerIndex \in 0..Length - 1
      BY <3>2 DEF SchedTypeOK
    <3>4. PICK k \in 0..Length - 1 : Position(w) = Slot(k)
      BY <3>2, <3>3, EveryPositionProbed DEF Slot
    <3>. QED
      BY <3>4, ProbeFinds
  <2>. QED
    BY <2>1, <2>2
<1>. QED
  BY <1>1, SchedulingTypeCorrect, PTL

\* When the scan comes back empty-handed although a worker is able, the stored index has
\* left the array, and that worker stands at the one place no probe reads.
THEOREM StaleIndexSkipsOnePlace == Spec => []StaleIndexSkipsOne
<1>1. TypeOK => StaleIndexSkipsOne
  <2>. SUFFICES ASSUME TypeOK, NextWorker = NoWorker, NEW w \in AvailableWorkers
                PROVE  workerIndex >= Length /\ Position(w) = workerIndex % Length
    BY DEF StaleIndexSkipsOne
  <2>1. w \in Scheduled /\ Length \in Nat \ {0} /\ Position(w) \in 0..Length - 1 /\ workerIndex \in Nat
    BY PositionInArray DEF AvailableWorkers, TypeOK, SchedTypeOK
  <2>2. workerIndex >= Length
    <3>. SUFFICES ASSUME workerIndex \in 0..Length - 1 PROVE FALSE
      BY <2>1
    <3>1. PICK k \in 0..Length - 1 : Position(w) = Slot(k)
      BY <2>1, EveryPositionProbed DEF Slot
    <3>. QED
      BY <3>1, ProbeFinds
  <2>3. Position(w) = workerIndex % Length
    <3>. SUFFICES ASSUME Position(w) # workerIndex % Length PROVE FALSE
      OBVIOUS
    <3>1. PICK k \in 0..Length - 1 : k # 0 /\ (workerIndex + k) % Length = Position(w)
      BY <2>1, OthersProbed
    <3>2. Position(w) = Slot(k)
      BY <3>1 DEF Slot
    <3>. QED
      BY <3>2, ProbeFinds
  <2>. QED
    BY <2>2, <2>3
<1>. QED
  BY <1>1, SchedulingTypeCorrect, PTL

-----------------------------------------------------------------------------
(***************************************************************************)
(* The turns.                                                              *)
(***************************************************************************)
\* The array is sorted: an earlier worker has the smaller index.
LEMMA PositionsIncrease ==
  ASSUME SchedTypeOK, NEW v \in Scheduled, NEW w \in Scheduled, v < w
  PROVE  Position(v) < Position(w)
<1>. DEFINE V == {x \in Scheduled : x < v}
            W == {x \in Scheduled : x < w}
<1>1. IsFiniteSet(Scheduled) /\ Scheduled \subseteq Int
  BY ScheduledFinite DEF Scheduled, SchedTypeOK
<1>2. IsFiniteSet(V) /\ IsFiniteSet(W)
  BY <1>1, FS_Subset
<1>3. V \subseteq W \ {v} /\ v \in W
  <2>1. \A x \in Scheduled : x \in Int /\ (x < v => x < w /\ x # v)
    BY <1>1
  <2>. QED
    BY <2>1
<1>4. IsFiniteSet(W \ {v}) /\ Cardinality(W \ {v}) = Cardinality(W) - 1
  BY <1>2, <1>3, FS_RemoveElement
<1>5. Cardinality(V) <= Cardinality(W) - 1
  BY <1>3, <1>4, FS_Subset
<1>6. Cardinality(V) \in Nat /\ Cardinality(W) \in Nat
  BY <1>2, FS_CardinalityType
<1>. QED
  BY <1>5, <1>6 DEF Position

\* Two workers are never at one index.
LEMMA PositionsDiffer ==
  ASSUME SchedTypeOK, NEW v \in Scheduled, NEW w \in Scheduled, v # w
  PROVE  Position(v) # Position(w)
<1>1. v \in Int /\ w \in Int
  BY DEF Scheduled, SchedTypeOK
<1>2. Position(v) \in Int /\ Position(w) \in Int
  BY PositionInArray
<1>. QED
  BY <1>1, <1>2, PositionsIncrease

\* Probing k places on from index i of an array of n, once around at most.
LEMMA ProbedPlace ==
  ASSUME NEW n \in Nat \ {0}, NEW i \in 0..n - 1, NEW k \in 0..n - 1
  PROVE  (i + k) % n = IF i + k < n THEN i + k ELSE i + k - n
<1>1. CASE i + k < n
  BY <1>1
<1>2. CASE i + k >= n
  <2>1. PICK x \in 0..n - 1 : i + k = x + n
    BY <1>2
  <2>. QED
    BY <1>2, <2>1, ModFacts
<1>. QED
  BY <1>1, <1>2

\* The index is left one past the worker that was found, or at the start.
LEMMA IndexPastFound ==
  ASSUME SchedTypeOK, NextWorker # NoWorker
  PROVE  /\ Length \in Nat \ {0} /\ Position(NextWorker) \in 0..Length - 1
         /\ Position(NextWorker) = Slot(Min(Hits))
         /\ IndexAfter = IF Position(NextWorker) = Length - 1 THEN 0 ELSE Position(NextWorker) + 1
<1>1. Hits # {} /\ Hits \in SUBSET Nat
  BY ScheduledFinite DEF NextWorker, Hits
<1>2. Min(Hits) \in Hits
  BY <1>1, MinIsMember
<1>3. PICK w \in Scheduled : Found(Min(Hits), w)
  BY <1>2 DEF Hits
<1>4. NextWorker \in Scheduled /\ Found(Min(Hits), NextWorker)
  BY <1>1, <1>3 DEF NextWorker
<1>5. Length \in Nat \ {0} /\ Position(NextWorker) \in 0..Length - 1
  BY <1>4, PositionInArray
<1>6. Position(NextWorker) = Slot(Min(Hits))
  BY <1>4 DEF Found
<1>. DEFINE n == Length
            k == Min(Hits)
            s == Position(NextWorker)
<1>7. k \in 0..n - 1 /\ workerIndex \in Nat
  BY <1>2 DEF Hits, SchedTypeOK
<1>8. IndexAfter = (workerIndex + k + 1) % n
  <2>1. workerIndex + (k + 1) = workerIndex + k + 1
    BY <1>7
  <2>2. IndexAfter = (workerIndex + (k + 1)) % n
    BY <1>1, <1>5 DEF IndexAfter
  <2>. QED
    BY <2>1, <2>2
<1>9. s = IF k = 0 THEN workerIndex ELSE (workerIndex + k) % n
  BY <1>6 DEF Slot
<1>. HIDE DEF n, k, s
<1>10. s = (workerIndex + k) % n
  <2>1. CASE k = 0
    BY <1>5, <1>7, <1>9, <2>1, ModFacts DEF n, s
  <2>. QED
    BY <1>9, <2>1
<1>11. PICK q \in Nat : workerIndex + k = n * q + s
  <2>1. workerIndex + k \in Nat /\ n \in Nat \ {0}
    BY <1>5, <1>7 DEF n
  <2>. QED
    BY <1>10, <2>1, RemainderFacts
<1>12. (workerIndex + k + 1) % n = IF s = n - 1 THEN 0 ELSE s + 1
  <2>1. n \in Nat \ {0} /\ s \in 0..n - 1
    BY <1>5 DEF n, s
  <2>2. PICK m \in Nat : m = n * q
    BY <2>1
  <2>3. CASE s = n - 1
    <3>1. n * (q + 1) = m + n
      BY <2>1, <2>2
    <3>2. workerIndex + k + 1 = n * (q + 1) + 0
      BY <1>7, <1>11, <2>1, <2>2, <2>3, <3>1
    <3>. QED
      BY <2>1, <2>3, <3>2, MultipleFacts
  <2>4. CASE s # n - 1
    <3>1. workerIndex + k + 1 = n * q + (s + 1)
      BY <1>7, <1>11, <2>1, <2>2
    <3>2. s + 1 \in 0..n - 1
      BY <2>1, <2>4
    <3>3. (n * q + (s + 1)) % n = s + 1
      BY <2>1, <3>2, MultipleFacts
    <3>. QED
      BY <2>4, <3>1, <3>3
  <2>. QED
    BY <2>3, <2>4
<1>. QED
  BY <1>5, <1>6, <1>8, <1>12 DEF n, k, s

\* With the index inside the array, the scan passes over nobody who is able.
LEMMA FoundComesFirst ==
  ASSUME SchedTypeOK, NextWorker # NoWorker, workerIndex < Length,
         NEW u \in AvailableWorkers \ {NextWorker}
  PROVE  InTurn(workerIndex, Position(NextWorker), Position(u))
<1>1. u \in Scheduled /\ CanWork(u) /\ NextWorker \in Scheduled
  BY NextWorkerIsAble DEF AvailableWorkers
<1>. DEFINE n == Length
            i == workerIndex
            k == Min(Hits)
            s == Position(NextWorker)
            a == Position(u)
            ka == IF a >= i THEN a - i ELSE a + n - i
<1>2. n \in Nat \ {0} /\ s \in 0..n - 1 /\ a \in 0..n - 1 /\ i \in 0..n - 1 /\ k \in 0..n - 1
  BY <1>1, PositionInArray, NextWorkerIsAble DEF SchedTypeOK
<1>3. s # a
  BY <1>1, PositionsDiffer
<1>4. s = Slot(k)
  BY IndexPastFound
<1>5. \A p \in 0..n - 1 : Slot(p) = IF i + p < n THEN i + p ELSE i + p - n
  <2>. SUFFICES ASSUME NEW p \in 0..n - 1 PROVE Slot(p) = IF i + p < n THEN i + p ELSE i + p - n
    OBVIOUS
  <2>. HIDE DEF n, i
  <2>1. (i + p) % n = IF i + p < n THEN i + p ELSE i + p - n
    BY <1>2, ProbedPlace
  <2>. QED
    BY <1>2, <2>1 DEF Slot, n, i
<1>6. ka \in 0..n - 1 /\ (IF i + ka < n THEN i + ka ELSE i + ka - n) = a
  <2>. HIDE DEF n, i, a
  <2>. QED
    BY <1>2
<1>7. a = Slot(ka)
  BY <1>5, <1>6
<1>8. ka \in Hits /\ Hits \in SUBSET Nat
  BY <1>1, <1>2, <1>6, <1>7 DEF Hits, Found
<1>9. k <= ka
  BY <1>8, MinIsMember
<1>10. s = IF i + k < n THEN i + k ELSE i + k - n
  BY <1>2, <1>4, <1>5
<1>. HIDE DEF n, i, k, s, a
<1>11. InTurn(i, s, a)
  BY <1>2, <1>3, <1>6, <1>9, <1>10 DEF InTurn
<1>. QED
  BY <1>11 DEF i, s, a

\* Once the worker at s is found, the others keep their turns, and s has the last.
LEMMA TurnsAfterFound ==
  ASSUME NEW n \in Nat \ {0}, NEW i \in 0..n - 1, NEW s \in 0..n - 1,
         NEW a \in 0..n - 1, NEW b \in 0..n - 1
  PROVE  LET next == IF s = n - 1 THEN 0 ELSE s + 1
         IN  /\ next \in 0..n - 1
             /\ a # s => InTurn(next, a, s)
             /\ InTurn(i, s, a) /\ InTurn(i, a, b) => InTurn(next, a, b)
BY DEF InTurn

\* A job that arrives: those passed over keep their turns before the chosen.
LEMMA SendKeepsTurns ==
  ASSUME TypeOK, TurnsKept, NEW j \in Job, Send(j)
  PROVE  TurnsKept'
<1>. DEFINE n == Length
            w == NextWorker
            s == Position(w)
<1>. USE DEF TypeOK
<1>0. Scheduled' = Scheduled /\ Length' = Length /\ \A v : Position(v)' = Position(v)
  <2>1. Scheduled' = Scheduled
    BY DEF Send, Dispatch, Scheduled
  <2>. QED
    BY <2>1 DEF Length, Position
<1>1. workerIndex' = IndexAfter
  BY DEF Send, Dispatch
<1>2. CASE w = NoWorker
  <2>1. overtaken' = overtaken
    BY <1>2 DEF Send
  <2>2. ~unfair'
    <3>1. ASSUME NEW v \in AvailableWorkers PROVE NoWorker \notin overtaken[v]
      <4>1. v \in Worker /\ NoWorker \notin Scheduled
        BY MaxWorkersAssumption DEF AvailableWorkers, Scheduled, SchedTypeOK, NoWorker, Worker
      <4>2. overtaken[v] \subseteq Scheduled
        BY <4>1 DEF TurnsKept, OvertakenComeFirst
      <4>. QED
        BY <4>1, <4>2
    <3>. QED
      BY <1>2, <3>1 DEF Send, TurnsKept, RoundRobin
  <2>3. ASSUME NEW u \in Worker, NEW x \in overtaken[u] PROVE workerIndex' = workerIndex
    <3>1. workerIndex \in Nat /\ n \in Nat /\ workerIndex < n
      BY ScheduledFinite DEF TurnsKept, OvertakenComeFirst, SchedTypeOK
    <3>2. Hits = {}
      <4>1. Hits # {} => w \in Scheduled
        <5>0. Hits \in SUBSET Nat
          BY <3>1 DEF Hits
        <5>1. Hits # {} => Min(Hits) \in Hits
          BY <5>0, MinIsMember
        <5>. QED
          BY <5>1 DEF Hits, NextWorker
      <4>. QED
        BY <1>2, <4>1 DEF Scheduled, SchedTypeOK, NoWorker
    <3>. QED
      BY <1>1, <3>1, <3>2, ModFacts DEF IndexAfter
  <2>. QED
    BY <1>0, <2>1, <2>2, <2>3 DEF TurnsKept, RoundRobin, OvertakenComeFirst
<1>3. CASE w # NoWorker
  <2>1. /\ w \in AvailableWorkers /\ w \in Scheduled
        /\ n \in Nat \ {0} /\ s \in 0..n - 1
        /\ workerIndex' = IF s = n - 1 THEN 0 ELSE s + 1
    BY <1>1, <1>3, NextWorkerIsAble, IndexPastFound DEF AvailableWorkers
  <2>2. ASSUME NEW u \in AvailableWorkers \ {w} PROVE w \notin overtaken[u]
    <3>1. u \in Worker /\ u \in Scheduled
      BY MaxWorkersAssumption DEF AvailableWorkers, Scheduled, SchedTypeOK, Worker
    <3>2. SUFFICES ASSUME w \in overtaken[u] PROVE FALSE
      OBVIOUS
    <3>3. workerIndex < n /\ InTurn(workerIndex, Position(u), s)
      BY <3>1, <3>2 DEF TurnsKept, OvertakenComeFirst
    <3>4. InTurn(workerIndex, s, Position(u))
      BY <1>3, <3>3, FoundComesFirst
    <3>5. Position(u) \in Int /\ workerIndex \in Int /\ s \in Int
      BY <2>1, <3>1, PositionInArray DEF SchedTypeOK
    <3>. QED
      BY <3>3, <3>4, <3>5 DEF InTurn
  <2>3. ~unfair'
    BY <2>2 DEF Send, TurnsKept, RoundRobin
  <2>4. ASSUME NEW u \in Worker, NEW x \in overtaken'[u]
        PROVE  /\ {u, x} \subseteq Scheduled /\ workerIndex' < n
               /\ InTurn(workerIndex', Position(u), Position(x))
    <3>1. u \in AvailableWorkers \ {w} /\ x \in overtaken[u] \cup {w}
      BY <1>3, <2>4 DEF Send
    <3>2. u \in Scheduled /\ Position(u) \in 0..n - 1 /\ Position(u) # s
      BY <2>1, <3>1, PositionInArray, PositionsDiffer DEF AvailableWorkers
    <3>3. CASE x = w
      <4>1. InTurn(workerIndex', Position(u), s) /\ workerIndex' < n
        <5>1. PICK i, a, b \in Int : i = workerIndex' /\ a = Position(u) /\ b = s
          BY <2>1, <3>2
        <5> QED BY <2>1, <3>2, <5>1 DEF InTurn
      <4>. QED
        BY <2>1, <3>2, <3>3, <4>1
    <3>4. CASE x \in overtaken[u]
      <4>1. /\ x \in Scheduled /\ workerIndex < n
            /\ InTurn(workerIndex, Position(u), Position(x))
        BY <3>4 DEF TurnsKept, OvertakenComeFirst
      <4>2. InTurn(workerIndex, s, Position(u))
        BY <1>3, <3>1, <4>1, FoundComesFirst
      <4>3. workerIndex \in 0..n - 1 /\ Position(x) \in 0..n - 1
        BY <2>1, <4>1, PositionInArray DEF SchedTypeOK
      <4>. QED
        BY <2>1, <3>2, <4>1, <4>2, <4>3, TurnsAfterFound
    <3>. QED
      BY <3>1, <3>3, <3>4
  <2>. QED
    BY <1>0, <2>3, <2>4 DEF TurnsKept, RoundRobin, OvertakenComeFirst
<1>. QED
  BY <1>2, <1>3

\* A worker that joins takes the last place of the array.
LEMMA ConnectKeepsTurns ==
  ASSUME TypeOK, TurnsKept, NEW w \in Worker, NEW known \in BOOLEAN, Connect(w, known)
  PROVE  TurnsKept'
<1>. USE DEF TypeOK
<1>1. /\ w = connected + 1 /\ overtaken' = overtaken /\ unfair' = unfair
      /\ workerIndex' = workerIndex
      /\ Scheduled' = IF known THEN Scheduled \cup {w} ELSE Scheduled
  BY DEF Connect, Register, Scheduled, SchedTypeOK
<1>2. \A v \in Scheduled : v \in Int /\ v < w
  BY <1>1 DEF Scheduled, SchedTypeOK
<1>3. \A v \in Scheduled : Position(v)' = Position(v)
  <2>. SUFFICES ASSUME NEW v \in Scheduled PROVE Position(v)' = Position(v)
    OBVIOUS
  <2>1. {x \in Scheduled' : x < v} = {x \in Scheduled : x < v}
    BY <1>1, <1>2
  <2>. QED
    BY <2>1 DEF Position
<1>4. Length' >= Length /\ Length \in Nat /\ Length' \in Nat
  <2>1. IsFiniteSet(Scheduled)
    BY ScheduledFinite
  <2>2. IsFiniteSet(Scheduled')
    BY <1>1, <2>1, FS_AddElement
  <2>3. Scheduled \subseteq Scheduled'
    BY <1>1
  <2>4. Cardinality(Scheduled) <= Cardinality(Scheduled')
    BY <2>2, <2>3, FS_Subset
  <2>5. Cardinality(Scheduled) \in Nat /\ Cardinality(Scheduled') \in Nat
    BY <2>1, <2>2, FS_CardinalityType
  <2>. QED
    BY <2>4, <2>5 DEF Length
<1>5. ASSUME NEW u \in Worker, NEW x \in overtaken[u]
      PROVE  /\ {u, x} \subseteq Scheduled' /\ workerIndex' < Length'
             /\ InTurn(workerIndex, Position(u)', Position(x)')
  <2>1. /\ u \in Scheduled /\ x \in Scheduled /\ workerIndex < Length
        /\ InTurn(workerIndex, Position(u), Position(x))
    BY DEF TurnsKept, OvertakenComeFirst
  <2>. QED
    BY <1>1, <1>3, <1>4, <2>1 DEF SchedTypeOK
<1>. QED
  BY <1>1, <1>5 DEF TurnsKept, RoundRobin, OvertakenComeFirst

\* A worker that stays able is not passed over twice for the same other worker
\* before its turn, unless a worker was removed in between.
THEOREM TurnsAreKept == Spec => []RoundRobin
<1>1. Init => TurnsKept
  BY DEF Init, TurnsKept, RoundRobin, OvertakenComeFirst
<1>2. TypeOK /\ TurnsKept /\ [Next]_vars => TurnsKept'
  <2>. SUFFICES ASSUME TypeOK, TurnsKept, [Next]_vars PROVE TurnsKept'
    OBVIOUS
  <2>1. ASSUME NEW w \in Worker, NEW known \in BOOLEAN, Connect(w, known) PROVE TurnsKept'
    BY <2>1, ConnectKeepsTurns
  <2>2. ASSUME NEW w \in Worker, Remove(w) PROVE TurnsKept'
    BY <2>2 DEF Remove, TurnsKept, RoundRobin, OvertakenComeFirst
  <2>3. ASSUME NEW j \in Job, Send(j) PROVE TurnsKept'
    BY <2>3, SendKeepsTurns
  <2>4. ASSUME UNCHANGED <<registry, workers, workerIndex, overtaken, unfair>> PROVE TurnsKept'
    <3>1. Scheduled' = Scheduled
      BY <2>4 DEF Scheduled
    <3>2. Length' = Length /\ \A v : Position(v)' = Position(v)
      BY <3>1 DEF Length, Position
    <3>. QED
      BY <2>4, <3>1, <3>2 DEF TurnsKept, RoundRobin, OvertakenComeFirst
  <2>5. ASSUME NEW w \in 1..connected, NEW j \in Job, Answer(w, j) PROVE TurnsKept'
    BY <2>4, <2>5 DEF Answer, FreeSlot
  <2>6. CASE UNCHANGED vars
    BY <2>4, <2>6 DEF vars, schedVars
  <2>. QED
    BY <2>1, <2>2, <2>3, <2>5, <2>6 DEF Next
<1>3. TurnsKept => RoundRobin
  BY DEF TurnsKept
<1>. QED
  BY <1>1, <1>2, <1>3, SchedulingTypeCorrect, PTL DEF Spec

-----------------------------------------------------------------------------
(***************************************************************************)
(* The loop.                                                               *)
(***************************************************************************)
\* The array has a worker at every index, and no other there.
LEMMA ArrayIsFull ==
  ASSUME SchedTypeOK, NEW p \in 0..Length - 1
  PROVE  /\ WorkerAt(p) \in Scheduled /\ Position(WorkerAt(p)) = p
         /\ \A w \in Scheduled : Position(w) = p => w = WorkerAt(p)
<1>. DEFINE f == [w \in Scheduled |-> Position(w)]
            Indices == 0..Length - 1
<1>1. IsFiniteSet(Scheduled) /\ Length \in Nat
  BY ScheduledFinite
<1>2. IsFiniteSet(Indices) /\ Cardinality(Indices) = Length
  BY <1>1, FS_Interval
<1>3. f \in Injection(Scheduled, Indices)
  BY PositionInArray, PositionsDiffer DEF Injection, IsInjective
<1>4. f \in Surjection(Scheduled, Indices)
  <2>. HIDE DEF f, Indices
  <2>. QED
    BY <1>2, <1>3, FS_Injection DEF Length
<1>5. \E w \in Scheduled : Position(w) = p
  BY <1>4 DEF Surjection
<1>6. WorkerAt(p) \in Scheduled /\ Position(WorkerAt(p)) = p
  BY <1>5 DEF WorkerAt
<1>. QED
  BY <1>6, PositionsDiffer

\* Stepping on from a remainder.
LEMMA NextRemainder ==
  ASSUME NEW n \in Nat \ {0}, NEW x \in Nat
  PROVE  ((x % n) + 1) % n = (x + 1) % n
<1>1. PICK r \in 0..n - 1 : r = x % n
  BY RemainderFacts
<1>2. PICK q \in Nat : x = n * q + r
  BY <1>1, RemainderFacts
<1>3. PICK m \in Nat : m = n * q
  OBVIOUS
<1>4. CASE r = n - 1
  <2>1. PICK t \in Nat : t = q + 1
    OBVIOUS
  <2>2. x + 1 = n * t + 0
    <3>1. n * (q + 1) = m + n
      BY <1>3
    <3>. QED
      BY <1>2, <1>3, <1>4, <2>1, <3>1
  <2>3. (x + 1) % n = 0
    <3>1. 0 \in 0..n - 1
      OBVIOUS
    <3>2. (n * t + 0) % n = 0
      BY <3>1, MultipleFacts
    <3>. QED
      BY <2>2, <3>2
  <2>4. r + 1 = n * 1 + 0
    BY <1>4
  <2>5. (r + 1) % n = 0
    BY <2>4, MultipleFacts
  <2>. QED
    BY <1>1, <2>3, <2>5
<1>5. CASE r # n - 1
  <2>1. x + 1 = n * q + (r + 1) /\ r + 1 \in 0..n - 1
    BY <1>2, <1>3, <1>5
  <2>2. (x + 1) % n = r + 1
    BY <2>1, MultipleFacts
  <2>. QED
    BY <1>1, <2>1, <2>2, ModFacts
<1>. QED
  BY <1>4, <1>5

\* The index before each probe is the slot the closed form gives it.
LEMMA IndexIsSlot ==
  ASSUME SchedTypeOK
  PROVE  \A i \in 0..Length : Index[i] = Slot(i) /\ Slot(i) \in Nat
<1>. DEFINE n == Length
            D == 0..n
            g == [i \in D |-> Slot(i)]
            IsIndex(f) == f = [i \in D |-> IF i = 0 THEN workerIndex ELSE (f[i - 1] + 1) % n]
<1>1. n \in Nat /\ workerIndex \in Nat
  BY ScheduledFinite DEF SchedTypeOK
<1>2. ASSUME NEW i \in D, i # 0
      PROVE  /\ Slot(i) \in Nat
             /\ i - 1 \in D /\ Slot(i) = (Slot(i - 1) + 1) % n
  <2>1. n \in Nat \ {0} /\ i - 1 \in Nat /\ i - 1 \in D /\ i \in Nat
    BY <1>1, <1>2
  <2>2. PICK x \in Nat : x = workerIndex + (i - 1) /\ x + 1 = workerIndex + i
    BY <1>1, <2>1
  <2>3. Slot(i) = (x + 1) % n /\ Slot(i) \in Nat
    <3>1. Slot(i) = (x + 1) % n
      BY <1>2, <2>2 DEF Slot
    <3>2. PICK y \in Nat : y = x + 1
      OBVIOUS
    <3>. HIDE DEF n
    <3>3. y % n \in 0..n - 1
      BY <2>1, RemainderFacts
    <3>. QED
      BY <2>1, <3>1, <3>2, <3>3
  <2>4. CASE i - 1 = 0
    <3>1. Slot(i - 1) = x
      BY <1>1, <2>2, <2>4 DEF Slot
    <3>. QED
      BY <2>1, <2>3, <3>1
  <2>5. CASE i - 1 # 0
    <3>1. Slot(i - 1) = x % n
      BY <2>2, <2>5 DEF Slot
    <3>. HIDE DEF n
    <3>2. ((x % n) + 1) % n = (x + 1) % n
      BY <2>1, NextRemainder
    <3>. QED
      BY <2>1, <2>3, <3>1, <3>2
  <2>. QED
    BY <2>4, <2>5
<1>3. Slot(0) = workerIndex
  BY DEF Slot
<1>4. IsIndex(g)
  <2>1. \A i \in D : g[i] = IF i = 0 THEN workerIndex ELSE (g[i - 1] + 1) % n
    BY <1>2, <1>3
  <2>. QED
    BY <2>1
<1>5. IsIndex(Index)
  <2>. HIDE DEF g
  <2>. QED
    BY <1>4 DEF Index
<1>6. \A i \in D : Index[i] = Slot(i)
  <2>. DEFINE Bad == {i \in D : Index[i] # Slot(i)}
  <2>1. SUFFICES ASSUME Bad # {} PROVE FALSE
    OBVIOUS
  <2>2. Bad \in SUBSET Nat
    BY <1>1
  <2>3. PICK m \in Bad : \A b \in Bad : m <= b
    <3>. HIDE DEF Bad
    <3>. QED
      BY <2>1, <2>2, MinIsMember
  <2>4. m # 0
    BY <1>3, <1>5
  <2>5. m - 1 \in D /\ Slot(m) = (Slot(m - 1) + 1) % n
    BY <1>2, <2>4
  <2>6. m - 1 \notin Bad
    BY <1>1, <2>3
  <2>7. Index[m] = (Index[m - 1] + 1) % n
    BY <1>5, <2>4
  <2>. QED
    BY <2>5, <2>6, <2>7
<1>. QED
  BY <1>1, <1>2, <1>3, <1>6

\* From any probe on, the loop returns what the first hit from there on gives.
LEMMA ScanFindsFirst ==
  ASSUME SchedTypeOK
  PROVE  Scan[0] = IF Hits = {}
                   THEN [worker |-> NoWorker, index |-> Slot(Length)]
                   ELSE [worker |-> WorkerAt(Slot(Min(Hits))), index |-> (Slot(Min(Hits)) + 1) % Length]
<1>. DEFINE n == Length
            D == 0..n
            Left(i) == {h \in Hits : h >= i}
            none == [worker |-> NoWorker, index |-> Slot(n)]
            at(i) == [worker |-> WorkerAt(Slot(i)), index |-> (Slot(i) + 1) % n]
            first(T) == IF T = {} THEN none ELSE at(Min(T))
            g == [i \in D |-> first(Left(i))]
            able(i) == Index[i] < n /\ CanWork(WorkerAt(Index[i]))
            IsScan(f) == f = [i \in D |-> IF i = n
                                          THEN [worker |-> NoWorker, index |-> Index[i]]
                                          ELSE IF able(i)
                                               THEN [worker |-> WorkerAt(Index[i]), index |-> (Index[i] + 1) % n]
                                               ELSE f[i + 1]]
<1>1. n \in Nat /\ \A i \in D : Index[i] = Slot(i) /\ Slot(i) \in Nat
  BY ScheduledFinite, IndexIsSlot
<1>2. Hits \subseteq 0..n - 1 /\ Hits \in SUBSET Nat
  BY <1>1 DEF Hits
<1>3. ASSUME NEW i \in D, i # n PROVE able(i) <=> i \in Hits
  <2>1. i \in 0..n - 1
    BY <1>1, <1>3
  <2>2. ASSUME able(i) PROVE i \in Hits
    <3>1. Slot(i) \in 0..n - 1 /\ CanWork(WorkerAt(Slot(i)))
      BY <1>1, <2>2
    <3>2. WorkerAt(Slot(i)) \in Scheduled /\ Found(i, WorkerAt(Slot(i)))
      BY <3>1, ArrayIsFull DEF Found
    <3>. QED
      BY <2>1, <3>2 DEF Hits
  <2>3. ASSUME i \in Hits PROVE able(i)
    <3>1. PICK w \in Scheduled : Position(w) = Slot(i) /\ CanWork(w)
      BY <2>3 DEF Hits, Found
    <3>2. Slot(i) \in 0..n - 1
      BY <3>1, PositionInArray
    <3>3. w = WorkerAt(Slot(i))
      BY <3>1, <3>2, ArrayIsFull
    <3>. QED
      BY <1>1, <3>1, <3>2, <3>3
  <2>. QED
    BY <2>2, <2>3
<1>. HIDE DEF able, at, none
<1>4. Left(n) = {} /\ Left(0) = Hits
  <2>1. \A h \in Hits : h >= 0 /\ ~(h >= n)
    BY <1>1, <1>2
  <2>. QED
    BY <2>1
<1>5. ASSUME NEW i \in D, i # n
      PROVE  i + 1 \in D /\ IF i \in Hits THEN first(Left(i)) = at(i) ELSE Left(i) = Left(i + 1)
  <2>1. i \in Nat /\ i + 1 \in D
    BY <1>1, <1>5
  <2>2. ASSUME i \in Hits PROVE first(Left(i)) = at(i)
    <3>0. i >= i
      BY <2>1
    <3>1. i \in Left(i) /\ Left(i) \in SUBSET Nat /\ \A h \in Left(i) : h >= i
      BY <1>2, <2>2, <3>0
    <3>. HIDE DEF Left
    <3>2. Min(Left(i)) \in Left(i) /\ Min(Left(i)) <= i
      BY <3>1, MinIsMember
    <3>3. Min(Left(i)) \in Nat /\ Min(Left(i)) >= i
      BY <3>1, <3>2
    <3>4. Min(Left(i)) = i
      BY <2>1, <3>2, <3>3
    <3>. QED
      BY <3>1, <3>4
  <2>3. ASSUME i \notin Hits PROVE Left(i) = Left(i + 1)
    <3>1. \A h \in Hits : h >= i <=> h >= i + 1
      BY <1>2, <2>1, <2>3
    <3>. QED
      BY <3>1
  <2>. QED
    BY <2>1, <2>2, <2>3
<1>. HIDE DEF Left, first
<1>6. /\ first({}) = none
      /\ [worker |-> NoWorker, index |-> Index[n]] = none
      /\ \A i \in D : [worker |-> WorkerAt(Index[i]), index |-> (Index[i] + 1) % n] = at(i)
  BY <1>1 DEF first, none, at
<1>7. IsScan(g)
  <2>1. \A i \in D : g[i] = IF i = n
                            THEN [worker |-> NoWorker, index |-> Index[i]]
                            ELSE IF able(i)
                                 THEN [worker |-> WorkerAt(Index[i]), index |-> (Index[i] + 1) % n]
                                 ELSE g[i + 1]
    BY <1>3, <1>4, <1>5, <1>6
  <2>. QED
    BY <2>1
<1>8. IsScan(Scan)
  <2>. HIDE DEF g
  <2>. QED
    BY <1>7 DEF Scan, able
<1>9. \A i \in D : Scan[i] = g[i]
  <2>. DEFINE Bad == {i \in D : Scan[i] # g[i]}
              Rest == {n - i : i \in Bad}
  <2>1. SUFFICES ASSUME Bad # {} PROVE FALSE
    OBVIOUS
  <2>2. Rest \in SUBSET Nat /\ Rest # {}
    <3>1. \A i \in Bad : n - i \in Nat
      BY <1>1
    <3>. HIDE DEF Bad
    <3>. QED
      BY <2>1, <3>1
  <2>3. PICK m \in Rest : \A b \in Rest : m <= b
    <3>. HIDE DEF Rest
    <3>. QED
      BY <2>2, MinIsMember
  <2>4. PICK i \in Bad : m = n - i
    BY <2>3
  <2>5. i # n /\ ~able(i) /\ Scan[i] = Scan[i + 1] /\ g[i] = g[i + 1]
    <3>. HIDE DEF g
    <3>. QED
      BY <1>7, <1>8
  <2>6. i + 1 \in Bad
    BY <1>5, <2>4, <2>5
  <2>7. n - (i + 1) \in Rest
    BY <2>6
  <2>8. n - i <= n - (i + 1)
    <3>. HIDE DEF Rest
    <3>. QED
      BY <2>3, <2>4, <2>7
  <2>. QED
    BY <1>1, <2>4, <2>8
<1>10. Scan[0] = first(Hits)
  BY <1>1, <1>4, <1>9
<1>. QED
  BY <1>10 DEF first, none, at

\* nextWorker, written as the loop it is, returns the worker the closed form of the model
\* returns and leaves the index the model leaves, for every array and every stored index.
THEOREM LoopMatchesScan == Spec => []ScanMatchesLoop
<1>1. TypeOK => ScanMatchesLoop
  <2>. SUFFICES ASSUME SchedTypeOK PROVE ScanMatchesLoop
    BY DEF TypeOK
  <2>1. Length \in Nat /\ workerIndex \in Nat
    BY ScheduledFinite DEF SchedTypeOK
  <2>2. CASE Hits = {}
    <3>1. Slot(Length) = IndexAfter
      BY <2>1, <2>2 DEF Slot, IndexAfter
    <3>. QED
      BY <2>2, <3>1, ScanFindsFirst DEF ScanMatchesLoop, NextWorker
  <2>3. CASE Hits # {}
    <3>. DEFINE k == Min(Hits)
                w == NextWorker
                s == Position(w)
    <3>1. k \in Hits
      BY <2>1, <2>3, MinIsMember DEF Hits
    <3>2. PICK v \in Scheduled : Found(k, v)
      BY <3>1 DEF Hits
    <3>3. w \in Scheduled
      BY <2>3, <3>2 DEF NextWorker
    <3>4. w # NoWorker
      BY <3>3 DEF Scheduled, SchedTypeOK, NoWorker
    <3>5. /\ Length \in Nat \ {0} /\ s \in 0..Length - 1 /\ s = Slot(k)
          /\ IndexAfter = IF s = Length - 1 THEN 0 ELSE s + 1
      BY <3>4, IndexPastFound
    <3>6. w = WorkerAt(Slot(k))
      BY <3>3, <3>5, ArrayIsFull
    <3>7. (Slot(k) + 1) % Length = IndexAfter
      <4>1. s # Length - 1 => s + 1 \in 0..Length - 1
        BY <3>5
      <4>2. s = Length - 1 => s + 1 = Length * 1 + 0
        BY <3>5
      <4>. HIDE DEF k, s
      <4>. QED
        BY <3>5, <4>1, <4>2, ModFacts, MultipleFacts
    <3>. QED
      BY <2>3, <3>6, <3>7, ScanFindsFirst DEF ScanMatchesLoop
  <2>. QED
    BY <2>2, <2>3
<1>. QED
  BY <1>1, SchedulingTypeCorrect, PTL
=============================================================================
