# Verification of the TypeScript job queue service

TLA+ models of the job queue server in `src/`, the TLC runs that check them on small
instances, and theorems about them that TLAPS proves for every instance. Paths below are
relative to the repository (`src/domain/...` is `domain/...` of its inner `src/`).

## 1. The system

The server keeps jobs in a PostgreSQL table. Clients *push* jobs; worker clients open a
`listenQueue` stream with a concurrency and receive jobs on it; they answer each with
*ack* or *error* and send a heartbeat every 800 ms. Everything on the server runs on one
JavaScript thread, so a handler is atomic up to its next `await`; three further threads
(producer ticker, heartbeat, cleanup) only exchange messages with it. What interleaves is
therefore: handlers between their awaits, SQL statements of calls in flight, messages of
the threads, notifications of the database, and the clients.

| component | state | operations | interacts with |
|---|---|---|---|
| Job table, `JobQueueService` | rows: status, metadata, created_at | `push`, `pop`, `ack`, `error`, queue create/delete, `unleashLongRunningJob` | every caller, through awaited SQL |
| `Job` | metadata with a retry counter | `create`, `from`, `retry`, `backoffTime` | rebuilt from a row by `pop` and `error` |
| `WorkerRegistry`, `WorkerInstance` | id -> instance; load, executing jobs | `add`, `remove`, `canWork`, `sendJob`, `ack` | `ack` emits `queue:available` synchronously |
| `WorkerScheduler`, `Dispatcher`, `Queue` | array of ids, index | `pushWorker`, `nextWorker`, `sendJob`, `isAvailable` | read the registry; drop a job without a worker |
| `WorkerCleaner` | - | `clean` | registry, then one `updateMany` |
| `QueueProducer` + ticker thread | a record per queue | tick, `triggerQueue`, `popQueue` | `isAvailable` before the pop, dispatch after it |
| gRPC service | - | seven handlers | all of the above |
| `WorkerClient` | worker id, stream, timer | `execute`, `ack`, `error`, `connect`, heartbeat | the gRPC service |
| heartbeat thread | last beat per worker | `beat`, scan every second | reports silent workers to the cleaner |
| cleanup thread | connection, timer | `init`, `close`, `cleanDb` | deletes old final rows |
| event bus, database listener | listeners | `emit`, `LISTEN job_created` | trigger on insert -> `triggerQueue` |
| `JobSupervisor`, heap | leases by deadline, one timer | `registerLeasedJob`, `remove`, expiry | `popQueue`, `ack` |
| `QueueRegistry`, factory, loading | name -> Queue | `createQueue`, `deleteQueue`, load at start | gRPC handlers |
| bootstrap | - | start-up | wires everything |

What is hard here, and what correctness means for each part:

* **A pop is three asynchronous steps.** `isAvailable` is asked, `findFirst` and `update`
  run, and the worker is chosen when they are done. Other pops, answers, cleaners and the
  cleanup thread run in between. Correct: no worker beyond its concurrency, no row left
  Executing that nobody answers for.
* **Statements name rows by id alone.** The update of pop, ack, error and the cleaner
  ignores what the status has become. Two pops may take the same row.
* **The answer handler pops inside itself**, before its own update is sent.
* **The producer has four inputs** (ticks, notifications, answers, results of its polls)
  and one record. Correct: the record never gets stuck where jobs starve although nothing
  was found.
* **Turns.** `nextWorker` keeps an index into an array that shrinks when workers die.
* **Clients** crash, are suspected while alive, lose answers, answer after being removed.

The hazards, each at its line, are listed in `PROJECT.json`.

## 2. Modules

    JobTypes      rows, workers, statuses                       (vocabulary)
    JobClass      Job.retry, backoffTime, the Json column        (operators)
    Scheduler     registry, instances, scheduler, dispatcher     (state + operations)
      WorkerScheduling    the scheduler on its own, with histories of turns
        MCWorkerScheduling
        WorkerSchedulingProofs
      SchedulerProofs     lemmas about the scan
    JobTable      the table and the calls in flight on it        (state + operations)
    Producer      the producer's record                          (state + operations)
      JobDelivery         Scheduler + JobTable + Producer + clients
        implements DeliveryWindow   what a client is promised    (abstract)
        MCJobDelivery
        JobDeliveryProofs
      ClientSessions      Scheduler + JobTable + one client over several streams
        MCClientSessions
        ClientSessionsProofs
    Heartbeat             the two sides of the heartbeat, timed
    QueueAdmin            queues: table, registry, creation, deletion, load
      QueueAdminProofs
    CleanupThread         the thread that deletes old rows
      ThreadProofs        the heartbeat and the cleanup thread
    Heap          HeapBuilder                                    (operators)
      LeaseHeap           a lease, the heap with the supervisor's callbacks
        JobHeap             the heap under the supervisor's calls
          implements PriorityQueue    what a caller expects      (abstract)
          MCJobHeap
        Leases              JobSupervisor, timed
        SupervisorProofs    the heap's loops, JobHeap and Leases
    Wire          gRPC messages and their codec                  (operators)
      GrpcCalls           one message, or a job and its Job object, on its way
        MCGrpcCalls
        GrpcCallsProofs   the codec, the messages, the retries of a Job

JobDelivery is the core: the races of pops, answers and cleaners on one stream per worker.
The modules below it each take one of the things it holds still: what the client does when
its stream closes and the server when it restarts (ClientSessions), when a worker is
reported silent (Heartbeat), how the queue came to be (QueueAdmin), when a sweep may run
(CleanupThread), what a lease does (Leases), and what a message becomes on its way
(GrpcCalls). In JobDelivery these appear as their outcomes: `Silent` may report any worker
the faults allow, `Cleanup` may run at any time, streams stay open.

**JobTypes.** UUIDs become numbers: job *n* is the *n*-th row committed, worker *w* the
*w*-th stream accepted, so the scheduler's array is a set read in increasing order.

**Scheduler.** `registry`, `load` (`currentConcurrentJobs`), `executing`, `workers`,
`workerIndex` are the fields of the classes. `nextWorker` is given in closed form: `Slot(k)`
is the array index the *k*-th probe reads, `Hits` the probes that find an able worker,
`NextWorker` and `IndexAfter` its result and the index it leaves. `Register`, `Unregister`,
`Dispatch`, `FreeSlot` are `listenQueue`'s synchronous part, `clean`'s, `sendJob` and
`WorkerInstance.ack`.

**JobTable.** One action per SQL statement, because under read committed another call may
run between two statements of a transaction. `pop[p]` is a call of `pop` (`find`, `update`,
`return`), `acking[j]`, `errFind[j]`, `errUpdate[j]` count the calls of `ack` and `error`,
`freeing[w]` holds the ids of a cleaner's `updateMany` in flight. Every call may also fail
at its next statement. `createdAt[j]` is the column `created_at`: any value of `Time`,
because the default `now()` is drawn before the commit and has milliseconds, so rows may be
committed in another order than theirs and several may have the same. `findFirst` takes any of
the oldest rows that are there.

**JobClass, GrpcCalls** say what the two JSON conversions of `push` do: the metadata is stored
as a text (`Stringify`), which `pop` parses and `error` does not; data goes through the Json
column, where `undefined` is left out of an object and is null in a list (`Json`). Dates arrive
from the wire as empty objects, so none is left to convert. A database client that refuses
`undefined` in lists makes the insert fail instead, and there is no delivery then.
`currentAttempt` is part of the metadata a sender may give.

**Producer.** `record` with `present`, `available`, `remainingTicks`, `lastQueryHasJob`;
the decisions of `canPool` are `Polls` and `CountsTick`.

**JobDelivery.** One queue, all its workers. The actions are the handlers, continuations and
statements; `held[w]` are the deliveries whose answer the server has not processed, `notes`
the notifications under way. The constant `Faults` names what may go wrong: `error` (work
fails), `aged` (rows pass the cleanup's age), `crash`, `suspect` (a live worker's beats come
late), `lose` (an answer never arrives), `unknown` (a stream for a queue not in the
registry), `dbfail` (a statement fails). `orphaned` is a history variable: rows whose
delivery was dropped or whose closing update failed.

**WorkerScheduling** drives the scheduler with arbitrary answers, repeated and stray ones
included. It also has `nextWorker` as the loop the code writes (`Scan`), the reference for the
closed form.

**DeliveryWindow** is the promise of the server to its clients without rows, pops or a
scheduler: a client gets deliveries between its registration and its removal, one at a
time, and never more than its concurrency unanswered. `JobDelivery` implements it with
`open <- registry` and `outstanding <-` the length of `held[w]`.

**ClientSessions.** One `WorkerClient`, all its streams, on the same scheduler and table as
JobDelivery: a pop is its statements and then the dispatch or the drop (`PopStep`,
`ReturnNothing`, `ReturnJob`), an answer frees a slot, pops, and sends its own statements
(`Ack`, `Error`, `AnswerStep`), a cleaner removes its worker and updates later (`Clean`,
`FreeStep`), and any of these may fail (`CallFails`). The producer's record is left out: it may
poll whenever the queue takes work. Each stream accepted is a worker of its own on the server;
`stream` is the one the client reads, `workerID` the id it answers under, `inbox` what the
server wrote and the client has not read, `answers` its calls of `ack` and `error` under way,
which arrive in any order or, with `lose`, never. `Close` is the close handler, `Crash` and
`Start` the client process, `Restart` the server's. The histories: `past` the load of removed
workers, `surplus` answers beyond one per delivery, `orphaned` rows that were dropped, whose
closing update failed or that were Executing when the server died, `lost` jobs whose answer
never arrived, `contested` jobs that a pop, a cleaner, an error or another worker's list also
held while their ack was handled (`DealtWith`). That a client reads "close" and not an "error"
nobody listens to when its stream ends is up to the gRPC library; the model follows the handler
the code has.

**Heartbeat** passes time in equal units. A message under way is its age, and `Tick` is not
enabled when an interval is due or a message at its longest delay has not arrived, so delays
and intervals are exact bounds; with the fault `late` messages take any time. `age[w]` is
the time since the beat in the thread's map, `report` the array posted back. `silence` is
a history, and so is `late`, which says that some message has exceeded its delay: the
properties that need punctual messages hold until it is set, and the model goes on after it.
A client whose stream names an unknown queue is `"ignored"`: registered, but told nothing and
never entered in the thread's map.

**QueueAdmin.** `Queue` objects are numbers in the order of their creation. A call of
`createQueue` or of the factory makes its object, inserts the row (an error is swallowed)
and only then adds the object to the registry; the load reads all names and later adds
their objects, or its read fails (`LoadFails`) and nobody loads again. The history `unread`
has the rows that were there when the server started and that the load has not read. The
history `orderly` says that so far, since the last start, callers waited for the load and
created no name twice.

**CleanupThread.** The server posts one init at its start and never a close; the module takes
the thread's messages in any order, as its class offers them. `connecting` counts the inits
that await `$connect`; an interval is a number, and `poolIntervalID` keeps it after it was
cleared, as in the code.

**Heap, LeaseHeap, JobHeap, Leases.** The heap is the array, its two loops are recursive
functions of a loop state, the array and the index: `SiftUp` goes on with `Up` while the
element is `Misplaced`, `SiftDown` with `Down` until it is `Settled`. `LeaseHeap` has the
comparison of leases. `JobHeap` calls the heap as the supervisor does; its history `intact`
says that no element has left from the middle since the heap was empty, and up to then it
implements `PriorityQueue`. `Leases` has the supervisor's four fields and the timers as
`timeout` (the lease it will report) and `wakes` (timers without delay). One second is
`Second` instants, so that the heap's comparison, which adds seconds to milliseconds, differs
from the deadlines. What reaches the handler is in the histories `owed` and `stray`. `plain`
says that so far no job had two leases and no two leases started together, `inOrder` that all
had one length and no ack broke the order of the heap: with leases that start at different
times a removal below the top can break it, and then the first one to expire may wait in the
heap behind a later one.

**Wire, GrpcCalls.** Every message of the generated code follows one pattern. It is a row of
`Schema` here, with number, name, type and rule of each field, and `Encode`, `Decode`,
`ToJSON`, `FromJSON`, `FromPartial` are the functions of its `MessageFns` object as operators
on that row; in `map` a row stands for the whole object of its message, an operator for one
instance of the pattern. Bytes are abstracted to tagged fields. `encode` and `decode` call
each other message inside message; here they are functions of the levels left (`EncodeAt`,
`DecodeAt`): a decode has `RecursionLimit` of them, an encode always enough (`Levels`),
because a value is one of `AnyValue`, at most `Nesting` objects and arrays deep. `Text` and
`Keys` are the strings and the object keys there are. `GrpcCalls` sends one message of one
method, lets a sender generated from a newer `.proto` add fields, and follows a pushed job to
the stream of a worker, and its metadata to the `Job` object that `retry()` is called on.

Operators named `...` with a comment "Mutant of" are variants with a plausible bug, listed
under `mutants` in `PROJECT.json`: each property fails when its mutant replaces the code.

## 3. Runs

| cfg | module | checks | instance |
|---|---|---|---|
| `Scheduling` | MCWorkerScheduling | loads bounded, the one place a stale index hides, fair turns, closed form = loop | 4 workers, one of concurrency 2 |
| `DeliverySuspect` | MCJobDelivery | exact slots, accounting of Executing rows, back-pressure, implements DeliveryWindow, ticks stay off | 2 jobs, 2 workers, `suspect` |
| `DeliveryFaults` | MCJobDelivery | the inductive invariant, types included; dead workers' jobs are freed; what may starve | 1 job, 2 workers, all faults, fair |
| `DeliverySettle` | MCJobDelivery | rows taken in the order of `created_at`, every job settles | 2 jobs, 2 times, 2 workers, rate limit 1, fair |
| `DeliveryRetry` | MCJobDelivery | *violation*: an error honours the retries left | 1 job, 1 worker, `error` |
| `GrpcCalls` | MCGrpcCalls | messages arrive intact and only depth is refused, jobs reach `work`, JSON round trip, retries and back-off are those asked for | 7 methods both ways, limit 15, nesting 9, attempts and counters around the border |
| `JobHeap` | MCJobHeap | no element lost, where a removal may break the order, implements PriorityQueue | 7 leases, 6 held |
| `Leases` | Leases | types, no lease lost and the one slept for has the timer, no stray report and the first deadline slept for while the heap is in order, the immediate timers come to rest | 3 jobs, lengths 1 and 2, fair |
| `Heartbeat` | Heartbeat | live workers stay, no second report, silent workers leave, removed workers are forgotten | 1 worker, `crash`, `late`, `unknown`, fair |
| `ClientSessions` | MCClientSessions | types, who owes an Executing row, load per stream, which completed job runs again, no row is stuck | 1 job, 2 streams, 1 pop, all faults, fair |
| `QueueAdmin` | QueueAdmin | rows served, listeners stay scheduled | 2 queues, 2 workers, 2 calls, restarts, failures |
| `CleanupThread` | CleanupThread | one clearable interval, quiet when closed, the sweeps go on | 4 inits and closes, fair |

Where a module has proofs, its type invariant and its inductive invariant were tried with TLC on
these instances first and are now proved, so the runs leave them out; the run `DeliveryFaults`
keeps `IInv`, whose parts need every fault to be reached.

**Bounds.** `MaxJobs`, `MaxWorkers`: rows inserted and streams accepted in a behaviour.
`PopCall`: pops in flight; two are what every race of pops needs, and the code has no other
resource that pops share. `DeliveryFaults` and `ClientSessions` have one, which with all their
faults is what TLC can finish; a cleaner, an ack or an error still comes between the
statements of that pop, which is how a completed job can be made Executing. The races of two
pops are in the other `Delivery*` runs, and the theorems are about any number. `Time` is two
values where the order of rows is checked, so that rows come in both orders and at the same
time. `MaxCalls = 1`: answers of one kind in flight for one job. `MaxTicks = 1` instead of 5:
the count still passes through its start, a decrement, zero and its end. `RateLimit` is 10,
out of reach, or 1, which two workers of concurrency 1 and 2 exceed, so both branches of
`isAvailable` are taken. Worker *w* has concurrency *w*, so full, half-full and single-slot
workers occur. The bounds on calls in flight are guards; the server has none, and the theorems
hold for every value of them.

In the other modules: `GrpcCalls` has the recursion limit 15 instead of 100, so that both
sides of it and of the four levels a delivery adds are reached by small data, messages with
every kind of value, wide and deep, and retry entries of both types; `Nesting` is 9, as deep
as the deepest value it sends, deliveries included, so that only functions are refused.
`JobHeap` has seven leases, of which two priorities tie, and holds six, three levels of the
tree; removals take any of them. `Leases` has three leases, the current one, the top and one
below it, the least where an order in the heap exists, and a fourth registration for a job
that has one; the clock runs past the last deadline. `Heartbeat` scales the intervals down and
keeps their order (client's interval < scan < silence); with lateness, which makes every age
reachable, one worker is what TLC can finish, and workers meet only in the report, a set; the
theorems hold for any number. `ClientSessions` has two streams, one for the old id and one for
the new, and one job, which is popped, worked on and answered again and again; the theorems
hold for any number of both. `QueueAdmin` bounds objects, jobs and calls; two calls for one
name are what races. `CleanupThread` handles four messages of each kind: two inits with a
close between and after them are the shortest overtaking.

`CHECK_DEADLOCK FALSE` stands in the `Delivery*` runs: when all jobs are done, the streams
are used up and the ticks are off the model stops, as the server would idle; the same holds
of `GrpcCalls` (one message), and of `Leases`, `ClientSessions`, `QueueAdmin` and
`CleanupThread`, where clocks, streams or messages are used up.

**Fairness** (`FairSpec`). Weak fairness for ticks (`setInterval`), for the next step of
each call on the database (it returns), for the cleaner of a dead worker (the heartbeat
thread scans every second). Notifications and the answers of live clients get strong
fairness: nothing on the server delays them, but in the model they need a free element of
`PopCall`, which comes and goes. Pushing, connecting, failing and crashing are not fair, and
the database does not fail for ever (`OutagesEnd`): an update that fails each time it is tried
would keep the jobs of a dead worker Executing.

`Leases`: timers fire when due and the clock runs. `Heartbeat`: intervals run, and what is
under way arrives, at any time with `late`. `ClientSessions`: a client reads its stream and
finishes its work, calls take their next step (a failing statement is one), the scan finds
silent workers (shown by `Heartbeat`); answers get strong fairness for the same reason as
above. Polling, connecting, closing, crashing and restarting are not fair, and neither is the
start of a client that died. `CleanupThread`: a connection succeeds or fails and an armed
interval fires; nobody has to post a message.

## 4. What the runs show about the code

Holds:

* A worker never has more unanswered deliveries than its concurrency, although each pop
  decides on loads that are out of date when it dispatches (`Backpressure`).
* A row that is Executing is owed by a pop about to hand it over, by a registered worker,
  or by an update in flight; the exceptions are exactly the jobs the dispatcher dropped and
  those whose closing update failed (`ExecutingAccounted`).
* The index of `nextWorker` may point past the array after removals; then it misses at most
  the worker at one position (`StaleIndexSkipsOne`).
* Without failures all jobs end in a final status, however often two pops take the same
  row on the way (`JobsSettle`).
* The system implements `DeliveryWindow`, with live workers suspected and all races of pops.
* A client that reconnects gets at most its concurrency per stream, plus one delivery for
  each answer too many (`LoadPerSession`).
* Answers under another id, lost answers, closes and crashes leave no Executing row to nobody:
  a pop about to hand it over, a registered worker or an update in flight owes it, unless it was
  dropped, its closing update failed or the server died (`ExecutingOwed`). None stays Executing
  but those and the ones whose answer was lost, though a client's heartbeat is not started
  again after its first stream (`NeverStuck`).
* A completed job runs again only if something else dealt with it while its ack was handled: a
  pop that had read it, a cleaner's or an error's update, or the list of another worker than the
  one the ack named (`RerunOnlyContested`).
* With messages in time, `BeatEvery + 2 NetDelay + PostDelay <= MaxSilence` keeps every live
  worker registered: 800 ms and 2000 ms leave 1200 ms for the ways of the id and of the beat
  (`LiveStays`). A silent one leaves within `LongestSilence`, and nobody is reported twice.
* Every queue that takes jobs is registered or about to be, but for rows older than the server
  that its load has not read (`RowsServed`); a listener keeps its scheduler as long as nobody
  creates its queue again or comes before the load.
* No lease is lost (`LeaseKept`) and the chain of timers without delay ends. While leases
  have one length and the heap is in order the timer sleeps for the first deadline, and no
  job is reported after its ack without a second lease. The heap's removal keeps its
  elements, and loses the order only between the hole and its ancestors.
* A cleanup interval can always be cleared; a closed thread is quiet unless the close came
  while an init was connecting.
* The Job object of a push that asks for one attempt at least grants the attempts left and no
  more (`RetriesAsAsked`). The server calls `retry()` on text only, so this is what the class
  does and what the finding below misses. What reaches `work` is what JSON makes of the data.
* A message arrives as it was sent. No path of the program calls the generated `toJSON`,
  `fromJSON` and `fromPartial`; `JsonAndPartialKeep` is about that code for whoever does. Data
  between 4 levels of the limit and the limit itself is accepted by `push` and can be read by
  no worker (`DeliveredIfAccepted` says so exactly).

Does not hold (the finding):

* `DeliveryRetry`: `error()` runs `retry()` on the metadata as text and discards a job whose
  retries are not used up.

Limits of the code that the properties state around rather than refute:

* With `lose` the slot of a live worker is never freed (`SlotsExact` assumes no loss).
* A job a cleaner gave back while `lastQueryHasJob` is set waits for the next notification or
  answer (`StarvesOnlyUnpolled` says that is the only way to starve, and `JobsSettle` is
  checked without crashes for this reason).
* A completed row can be made Executing by a second pop of it, or Available by a late cleaner
  or by the cleaning of a worker still listed with it (`contested` in `RerunOnlyContested`).
* A drop, a closing update that fails or the death of the server leaves a row Executing for ever
  (`orphaned`), and so may an answer that is lost while its worker lives (`lost`).
* A load whose read fails is not repeated: the rows of that start stay unregistered until
  somebody creates their queue again (`unread` in `RowsServed`).
* Of two pushes that overlap, the one with the older `created_at` may be committed last and find
  the other taken; rows of one millisecond are taken in any order (`TakenInOrder` is about
  rows committed and stamped in the same order).
* `retry()` grants one retry to attempts of zero or less: nothing says what such metadata asks
  for, and `RetriesAsAsked` is about the others. A counter that is negative is counted up.
* Two pops may both have seen the one free slot; the job of the second is taken from the table
  and dropped by the dispatcher, and stays Executing (`orphaned` in `ExecutingAccounted` and
  `JobsSettle`).
* A removal shifts the array under the scheduler's index, so an able worker may be passed over
  twice for the same other one: `RoundRobin` speaks of turns between removals.
* The timer of a lease that runs out sleeps for no other: the leases left in the heap are
  reported only if another job is registered (`LeaseKept` says that they stay there).
* An overdue lease that takes the current one's place leaves the old timer armed, which then
  reports a lease that waits in the heap again, or was acked there (`NoStrayReport` holds while
  the heap is in order, where an overdue lease finds no current one).
* A stream for an unknown queue leaves a worker in the registry whose silence nobody measures
  (`SilentLeave` is about the others).
* A queue created again has a new object, and the listeners of the old one are scheduled by
  nobody (`ListenersScheduled` holds while `orderly`).

## 5. Proofs

Assumptions: those the modules declare on their constants (sizes are positive, concurrency
and rate limit naturals, `Faults` a set of the faults named; `Keys` finite and among the
strings, `Sent` messages of the types their methods declare); nothing else.

* `SchedulerProofs`: what `nextWorker` returns is able and registered
  (`NextWorkerIsAble`), every position but the stored index is probed
  (`EveryPositionProbed`), the index stays a natural (`IndexAfterType`). The minimum of
  `Hits` exists by well-foundedness of `<`, from the library.
* `WorkerSchedulingProofs`: `SchedulingTypeCorrect`, `LoadNeverExceedsConcurrency`
  (inductive by itself once the scan returns only able workers), `NextWorkerIsComplete`
  (a state predicate that follows from the types and `EveryPositionProbed`).
* `JobDeliveryProofs`: the inductive invariant is `IInv`, in four parts.
  `TypeOK`. *Slots*: `Backpressure` alone is not inductive, because a delivery is admitted
  on `load`, not on `held`; `SlotsCoverDeliveries` relates the two for registered workers
  and `FreshWorkers` starts it when a stream is accepted. *Ledger*: `ExecutingAccounted`
  needs `FreedOnce`, without which a second snapshot could replace one whose update is
  still to come, and `UpdateNamesRow`. *Ticks*: `OffMeansAvailable` and `PolledHasRecord`
  give `PollingStaysOff`, an action property. Theorems `TypeCorrect`, `BackpressureHolds`,
  `NoJobLost`, `PollingOffUntilEmptyPoll`, and `InvariantHolds` for the conjunction.

  Theorem `DeliveryIsWindowed`: each step of the system is a step of `DeliveryWindow` or a
  stutter. `Dispatch` maps to `Deliver` and needs `SlotsCoverDeliveries`; answers map to
  `Settle`; everything else leaves registry and `held` alone.

  Theorem `SlotsAreExact`: without loss of answers, exact loads are inductive together with
  `FreshWorkers`, which gives a new stream a load of 0 and no delivery.

  Theorem `RowsTakenInOrder`, by the invariant `InOrder`. `TakenInOrder` alone is
  not inductive, because a pop sets its row Executing long after it read it:
  `TakenArePassed` says that whatever is in hand, from the row a pop read to the answer under
  way, has no older Available row. `findFirst` takes the oldest, and no row comes back
  (`NothingGivenBack`): `retry()` refuses the text, and no worker is cleaned while none
  crashes or is suspected. A row that is committed later with an older `created_at` is not one
  the rows in hand have passed (`Passed`).
* `WorkerSchedulingProofs` also has `StaleIndexSkipsOnePlace` for every number of workers:
  the probes visit all positions but one, by an argument on remainders (`RemainderFacts`,
  `MultipleFacts`, `OthersProbed`). `TurnsAreKept` proves `RoundRobin` by `TurnsKept`: going
  round the array from the index, whoever was overtaken comes before those who overtook it
  (`InTurn`). The scan stops at the first able worker it meets, so it can neither reach an
  overtaker before the overtaken nor overtake anyone without bringing the index past both; a
  removal forgets the overtakings.
  `LoopMatchesScan` proves `ScanMatchesLoop`: the index before probe *i* is `Slot(i)`
  (`IndexIsSlot`), the array has one worker at each index (`ArrayIsFull`, an injection between
  sets of one size), and from any probe on the loop gives what the first hit from there on
  gives (`ScanFindsFirst`).
* `ThreadProofs`, the heartbeat: the invariant is `IInv`. For live workers it states *why* the
  thread will not find one silent (`Evidence`): its entry is young enough to wait for the next
  beat, or a beat under way arrives before it is too old. For silent ones `Bounded` adds up
  the delays through entry, post and report. Both hold for all intervals and delays that
  satisfy the assumption, `LiveWorkersStay` and `NoSecondReport` for those that are
  `Punctual`. That messages were punctual is not an assumption but the history `late`, which
  only grows (`LateStays`).
* `QueueAdminProofs`: `RowsServed` is inductive with `CallsHaveObjects`, because only a read takes
  a row out of `unread`, and the names it read are added; what holds while
  `orderly` needs that calls under way are about different queues and that nothing happens
  before the load (`CallsApart`, `LoadedFirst`).
* `ThreadProofs`, the cleanup thread: `Clearable` and `QuietWhenClosed` are inductive once it
  is known that an init connects only while `isInited` or after an overtaking.
* `ClientSessionsProofs`: the inductive invariant is `IInv`. `ExecutingOwed` needs `FreedOnce`,
  without which a second snapshot could replace one whose update is still to come,
  `UpdateNamesRow` and `FreshWorkers`; `RerunOnlyContested`, an action property, needs `LetGo`:
  nothing deals with a job that was acked unless the job was contested, from the handler of the
  ack to its update and ever after. `FreshRows` starts both when a row is inserted.
  `LoadIsPerSession` counts: the slots taken on the server are the pairs of a worker, removed
  ones included, and a number up to its load (`TakenSlots`). A delivery takes a slot more; an
  answer frees one, or it is one too many (`SlotPerDelivery`, `NextSlots`); and there are no more
  slots than the streams have (`SlotsBounded`).
* `SupervisorProofs`, the heap: a recursive function is defined for every argument the moment
  each call hands it another of its domain (`LoopDefined`), and what holds of each loop state
  holds of the result when the rank of the state falls at each turn (`LoopKeeps`, by the least
  rank of a counterexample). With the index as the rank going up and the distance to the end
  going down, both loops permute the array (`SiftUpRearranges`, `SiftDownRearranges`), the
  first repairs an array in order but for the path above the index (`InsertKeepsOrder`), the
  second one in order but below it (`RemoveAtKeepsOrder`); if the element is due before the
  parent of the hole no turn of the second repairs it (`RemoveAtBreaksOrder`). So `HeapHolds`,
  `HeapIsPriorityQueue` (a step or a stutter of `PriorityQueue`; the top is first because an
  ordered heap descends from it, `TopIsFirst`) and `HeapRemovals`, for every set of leases.
* `SupervisorProofs`, the supervisor: `LeasesAreKept` is inductive with the types, by the
  outcomes of one call of `sleepForCurrentJob` (`SleepIs`, `SleepLosesNothing`). `NoStrayReport`
  and `SleepsForEarliest` need to know *why* they hold (`SupervisorKnows`): while the heap is in
  order no lease in it started before the current one (`InOrder`), and then in plain use the
  current one never gives way, its timer is the only one, and the supervisor has exactly the
  leases that are owed, each once (`Knows`). Hence `EarliestIsSleptFor`, `NoStrayReports`,
  `LeasesTypeCorrect`.

* `GrpcCallsProofs`, how recursion is reasoned about: the functions over the natural numbers
  (`Values`, `Wires`, `EncodeAt`, `DecodeAt`, `CrossedAt`, `TwoTo`) exist because they can be
  built level by level (`TowerExists`), and a set with 0 and each successor has every natural
  (`NaturalsAreReached`), which is induction in a form the provers can use. The loop of
  `decode` is the fold of its turns (`ReadAllIs`, `ReadOneMore`).
* `GrpcCallsProofs`, the codec: `ValuesCross` says, by induction on the nesting, that decoding
  the wire of a value gives `Crossed` of it, and fails exactly if its depth exceeds the levels
  left, whatever keys, items and limit. A turn of the loop stores one field
  (`SingularRead`), one entry (`StructRead`) or one item (`ListRead`); the induction hypothesis
  is about what is inside (`EntryCrosses`, `ObjectCrosses`, `ArrayCrosses`). `MessageCrosses`
  puts the fields of a message together, and `NewerIsRead` says that an inserted field that
  no case of the switch takes changes nothing at any place.
* `GrpcCallsProofs`, the calls: the inductive invariant `IInv` says that the message is one its
  type declares (`MessageUnderWay`), that what is on the wire, after any insertions, decodes as
  what `Encode` wrote (`WireUnderWay`), and that a delivery is the one of the push it follows
  (`DeliveryUnderWay`). `CallsArrive` follows by `MessageCrosses` (`ResultIs`).
  `DeliveriesArrive` also needs that a value that crossed once crosses again unchanged and at
  the same depth (`ValuesSettle`), because push and delivery are two crossings. `RetriesHold`
  follows from `MetadataCrosses` and `RetriesAreGranted`, an induction on the calls of
  `retry()` (`AfterCallsIs`) and on the powers of two. `JsonAndPartialHold` goes field by field
  (`FlatKeeps`, `ValueKept`, and `StreamKept` for the one message with messages inside).

Only model-checked: liveness, which the prover does not treat (`JobsSettle`,
`DeadWorkersJobsFreed`, `StarvesOnlyUnpolled`, `NeverStuck`, `OutcastsForgotten`,
`ComesToRest`, `SweepsForEver`). All other properties of the passing runs are theorems.

## 6. Not modelled

* Generated Prisma code: type declarations. What its statements do to the rows is in the
  actions that call them. Connection set-up, logging, the error emitter, the examples.
* `Attempt`, `popMany`, `QueueRegistry.remove` and `queuesIDs`: nothing calls them.
* `unleashLongRunningJob` is passed without its object, so `this.db` is undefined and the
  promise rejects before any statement; the same holds of `clean` called with a worker the
  registry does not have. What the runtime does about a rejection nobody handles is not
  modelled.
* More than one queue in JobDelivery: queues share only the registry of workers and the
  ticker, whose handler treats each by itself.
* Loss of the database listener's connection: nothing in the code reacts to it.
* Conversions of bytes and numbers inside the protobuf library, and wire types 3 and 4,
  which no encoder of these messages writes.
