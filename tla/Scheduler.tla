----------------------------- MODULE Scheduler -----------------------------
(***************************************************************************)
(* The in-memory side of one queue on the server: WorkerRegistry,          *)
(* WorkerInstance, WorkerScheduler, Dispatcher and Queue.isAvailable.      *)
(*                                                                         *)
(*   connected  how many streams were accepted so far: worker w exists     *)
(*              from the moment w <= connected                             *)
(*   registry   WorkerRegistry.worker, the ids it maps to an instance      *)
(*   load       currentConcurrentJobs of each instance                     *)
(*   executing  executingJobs of each instance                             *)
(*   workers    WorkerScheduler.workers; the array is in connection order, *)
(*              so the set of its elements determines it                   *)
(*   workerIndex  WorkerScheduler.workerIndex                              *)
(*                                                                         *)
(* JavaScript runs each of these methods to completion, so each is one     *)
(* action.                                                                 *)
(***************************************************************************)
EXTENDS JobTypes, FiniteSets, FiniteSetsExt, Functions

CONSTANTS
  Concurrency,  \* [Worker -> Nat], the concurrency a stream asked for
  RateLimit     \* Queue.rateLimit, 10 unless a caller passes another one

ASSUME ConcurrencyAssumption == Concurrency \in [Worker -> Nat]
ASSUME RateLimitAssumption == RateLimit \in Nat

VARIABLES connected, registry, load, executing, workers, workerIndex

schedVars == <<connected, registry, load, executing, workers, workerIndex>>

SchedTypeOK ==
  /\ connected \in 0..MaxWorkers
  /\ registry \subseteq 1..connected
  /\ load \in [Worker -> Nat]
  /\ executing \in [Worker -> SUBSET Job]
  /\ workers \subseteq 1..connected
  /\ workerIndex \in Nat

SchedInit ==
  /\ connected = 0
  /\ registry = {}
  /\ load = [w \in Worker |-> 0]
  /\ executing = [w \in Worker |-> {}]
  /\ workers = {}
  /\ workerIndex = 0
-----------------------------------------------------------------------------
(***************************************************************************)
(* What the code reads.                                                    *)
(***************************************************************************)
\* Mutant of CanWork: a full worker takes one more.
CanWorkOneMore(w) == load[w] <= Concurrency[w]

CanWork(w) == load[w] < Concurrency[w]

\* Mutant of Scheduled: the ids of removed workers stay.
ScheduledAll == workers

\* The getters look every id of the array up in the registry and skip the missing.
Scheduled          == workers \cap registry
AvailableWorkers   == {w \in Scheduled : CanWork(w)}
MaximumConcurrency == SumFunctionOnSet(Concurrency, Scheduled)
ConcurrencyRunning == SumFunctionOnSet(load, Scheduled)

IsAvailable ==
  IF MaximumConcurrency <= RateLimit
  THEN AvailableWorkers # {}
  ELSE ConcurrencyRunning <= RateLimit

\* nextWorker first drops the dead workers: the array it scans is Scheduled in
\* connection order, and Position(w) is the index of w in it.
Position(w) == Cardinality({v \in Scheduled : v < w})
Length      == Cardinality(Scheduled)

\* Mutant of Slot: every probe is reduced to the array, the first included.
SlotReduced(k) == (workerIndex + k) % Length

\* The loop makes at most Length probes.  Probe 0 reads the stored index as it is,
\* even when the array has shrunk below it; each later one reads it reduced.
Slot(k) == IF k = 0 THEN workerIndex ELSE (workerIndex + k) % Length

\* Mutant of Found: the scan takes the worker at the index, able or not.
FoundAny(k, w) == Position(w) = Slot(k)

\* The probes that find an able worker, and the worker the first of them returns.
Found(k, w) == Position(w) = Slot(k) /\ CanWork(w)

\* Mutant of Hits: the loop stops one probe early.
HitsShort == {k \in 0..Length - 2 : \E w \in Scheduled : Found(k, w)}

Hits == {k \in 0..Length - 1 : \E w \in Scheduled : Found(k, w)}

\* What nextWorker returns, NoWorker for undefined.
NextWorker == IF Hits = {}
              THEN NoWorker
              ELSE CHOOSE w \in Scheduled : Found(Min(Hits), w)

\* Mutant of IndexAfter: a worker that was found is not stepped over.
IndexAfterStays ==
  IF Length = 0
  THEN workerIndex
  ELSE (workerIndex + (IF Hits = {} THEN Length ELSE Min(Hits))) % Length

\* The stored index after those probes; an empty array is not probed.
IndexAfter ==
  IF Length = 0
  THEN workerIndex
  ELSE (workerIndex + (IF Hits = {} THEN Length ELSE Min(Hits) + 1)) % Length
-----------------------------------------------------------------------------
(***************************************************************************)
(* What the code does.                                                     *)
(***************************************************************************)
\* listenQueue: the worker is registered; the scheduler of its queue learns of it
\* only if the queue is known, otherwise the handler returns before pushWorker.
Register(w, known) ==
  /\ w = connected + 1
  /\ connected' = w
  /\ registry' = registry \cup {w}
  /\ workers' = IF known THEN workers \cup {w} ELSE workers
  /\ UNCHANGED <<load, executing, workerIndex>>

\* WorkerCleaner.removeFromRegistry.  The instance is garbage once its executing set
\* has been read, so its fields go back to their first values.
Unregister(w) ==
  /\ w \in registry
  /\ registry' = registry \ {w}
  /\ load' = [load EXCEPT ![w] = 0]
  /\ executing' = [executing EXCEPT ![w] = {}]
  /\ UNCHANGED <<connected, workers, workerIndex>>

\* Dispatcher.sendJob: without a worker the job is dropped, but the scan has moved
\* the index and cleared the dead workers.
Dispatch(j) ==
  /\ workers' = Scheduled
  /\ workerIndex' = IndexAfter
  /\ IF NextWorker = NoWorker
     THEN UNCHANGED <<load, executing>>
     ELSE /\ load' = [load EXCEPT ![NextWorker] = @ + 1]
          /\ executing' = [executing EXCEPT ![NextWorker] = @ \cup {j}]
  /\ UNCHANGED <<connected, registry>>

\* Mutant of FreeSlot: a slot is freed only for a job still listed.
FreeSlotIfListed(w, j) ==
  /\ IF w \in registry /\ j \in executing[w]
     THEN /\ load' = [load EXCEPT ![w] = @ - 1]
          /\ executing' = [executing EXCEPT ![w] = @ \ {j}]
     ELSE UNCHANGED <<load, executing>>
  /\ UNCHANGED <<connected, registry, workers, workerIndex>>

\* Mutant of FreeSlot: no test before the decrement.
FreeSlotUnchecked(w, j) ==
  /\ IF w \in registry
     THEN /\ load' = [load EXCEPT ![w] = @ - 1]
          /\ executing' = [executing EXCEPT ![w] = @ \ {j}]
     ELSE UNCHANGED <<load, executing>>
  /\ UNCHANGED <<connected, registry, workers, workerIndex>>

\* Mutant of FreeSlot: the job stays listed with its worker.
FreeSlotListed(w, j) ==
  /\ IF w \in registry
     THEN load' = [load EXCEPT ![w] = IF @ > 0 THEN @ - 1 ELSE 0]
     ELSE UNCHANGED load
  /\ UNCHANGED <<connected, registry, executing, workers, workerIndex>>

\* workerRegistry.get(w)?.ack(j), common to the handlers of Ack and Error.
FreeSlot(w, j) ==
  /\ IF w \in registry
     THEN /\ load' = [load EXCEPT ![w] = IF @ > 0 THEN @ - 1 ELSE 0]
          /\ executing' = [executing EXCEPT ![w] = @ \ {j}]
     ELSE UNCHANGED <<load, executing>>
  /\ UNCHANGED <<connected, registry, workers, workerIndex>>
=============================================================================
