-------------------------- MODULE WorkerScheduling --------------------------
(***************************************************************************)
(* The scheduler of one queue on its own: workers connect and are cleaned, *)
(* jobs arrive and are answered at any time and in any order.  It shows    *)
(* what nextWorker promises to whoever calls it.                           *)
(*                                                                         *)
(*   overtaken  history: for every worker, the workers that were given a   *)
(*              job since this one was last given one, was last unable to  *)
(*              work or joined; a removal starts all afresh, because the   *)
(*              array shifts under the stored index and turns are lost     *)
(*   unfair     history: an able worker was passed over twice in favour of *)
(*              the same other worker                                      *)
(***************************************************************************)
EXTENDS Scheduler

VARIABLES overtaken, unfair

vars == <<schedVars, overtaken, unfair>>

TypeOK ==
  /\ SchedTypeOK
  /\ overtaken \in [Worker -> SUBSET Worker]
  /\ unfair \in BOOLEAN

Init ==
  /\ SchedInit
  /\ overtaken = [w \in Worker |-> {}]
  /\ unfair = FALSE
-----------------------------------------------------------------------------
\* listenQueue
Connect(w, known) == Register(w, known) /\ UNCHANGED <<overtaken, unfair>>

\* WorkerCleaner.clean
Remove(w) ==
  /\ Unregister(w)
  /\ overtaken' = [v \in Worker |-> {}]
  /\ UNCHANGED unfair

\* Queue.sendJob.  A worker other than the chosen one is overtaken by it if it was able
\* to work, and starts afresh if it was not.
Send(j) ==
  /\ Dispatch(j)
  /\ overtaken' = [v \in Worker |->
                     IF NextWorker = NoWorker THEN overtaken[v]
                     ELSE IF v \in AvailableWorkers \ {NextWorker}
                          THEN overtaken[v] \cup {NextWorker}
                          ELSE {}]
  /\ unfair' = (unfair \/ \E v \in AvailableWorkers \ {NextWorker} : NextWorker \in overtaken[v])

\* An Ack or an Error, which may name a job the worker does not have.
Answer(w, j) ==
  /\ FreeSlot(w, j)
  /\ UNCHANGED <<overtaken, unfair>>

Next ==
  \/ \E w \in Worker, known \in BOOLEAN : Connect(w, known)
  \/ \E w \in Worker : Remove(w)
  \/ \E j \in Job : Send(j)
  \/ \E w \in 1..connected, j \in Job : Answer(w, j)

Spec == Init /\ [][Next]_vars
-----------------------------------------------------------------------------
\* nextWorker never returns a worker that is full, so no worker's load passes its
\* concurrency, whatever answers arrive, repeated or stray ones included.
LoadBounded == \A w \in Worker : load[w] <= Concurrency[w]

\* As long as the stored index is inside the array, nextWorker finds a worker exactly
\* when one can work.  The code does not keep it inside: see StaleIndexSkipsOne.
NextWorkerComplete ==
  workerIndex < Length => (NextWorker = NoWorker <=> AvailableWorkers = {})

\* When the array has shrunk below the stored index the first probe is wasted, and the
\* scan comes back empty-handed only if the single able worker sits at the one place
\* that the remaining probes leave out.
StaleIndexSkipsOne ==
  NextWorker = NoWorker /\ AvailableWorkers # {} =>
    /\ workerIndex >= Length
    /\ \A w \in AvailableWorkers : Position(w) = workerIndex % Length

\* Round robin: a worker that stays able is never passed over twice for the same other
\* worker before its own turn comes, as long as no worker is removed in between.
RoundRobin == ~unfair

\* Behind RoundRobin.  Going round the array from index i, a comes before b.
InTurn(i, a, b) == \/ i <= a /\ a < b
                   \/ a < b /\ b < i
                   \/ b < i /\ i <= a

\* Whoever was overtaken comes before those who overtook it, and the index is in the array.
OvertakenComeFirst ==
  \A u \in Worker : \A x \in overtaken[u] :
    /\ {u, x} \subseteq Scheduled /\ workerIndex < Length
    /\ InTurn(workerIndex, Position(u), Position(x))

TurnsKept == RoundRobin /\ OvertakenComeFirst
-----------------------------------------------------------------------------
(***************************************************************************)
(* nextWorker as its loop is written: i counts the probes, Index[i] is     *)
(* this.workerIndex before the probe of i, and every probe reads the array *)
(* at the index before it moves it.  The reference for the closed form of  *)
(* Scheduler.                                                              *)
(***************************************************************************)
WorkerAt(p) == CHOOSE w \in Scheduled : Position(w) = p

Index[i \in 0..Length] == IF i = 0 THEN workerIndex ELSE (Index[i - 1] + 1) % Length

Scan[i \in 0..Length] ==
  IF i = Length
  THEN [worker |-> NoWorker, index |-> Index[i]]
  ELSE IF Index[i] < Length /\ CanWork(WorkerAt(Index[i]))
       THEN [worker |-> WorkerAt(Index[i]), index |-> (Index[i] + 1) % Length]
       ELSE Scan[i + 1]

\* The closed form of nextWorker returns the worker the loop returns, and leaves the
\* index where the loop leaves it.
ScanMatchesLoop == Scan[0] = [worker |-> NextWorker, index |-> IndexAfter]
=============================================================================
