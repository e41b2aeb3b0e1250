---------------------------- MODULE JobDelivery ----------------------------
(***************************************************************************)
(* The life of the jobs of one queue: clients push rows, the producer pops *)
(* them and hands them to the scheduler, workers answer, silent workers    *)
(* are cleaned, old rows are deleted.  Composes JobTable, Scheduler and    *)
(* Producer with the clients of the workers.  The server does not restart, *)
(* the stream of a live client does not close, and the leases of jobs,     *)
(* whose expiry changes nothing (unleashLongRunningJob fails before its    *)
(* update), are left out.                                                  *)
(*                                                                         *)
(*   alive   the workers whose client process is up                        *)
(*   held    for every worker, the deliveries whose answer the server has  *)
(*           not processed: at the client or under way; each is answered   *)
(*           at most once, in any order                                    *)
(*   notes   notifications of job_created on their way to the server       *)
(*   orphaned  history: the Executing rows whose delivery was dropped or   *)
(*           whose closing update failed                                   *)
(***************************************************************************)
EXTENDS Scheduler, JobTable, Producer, Sequences, SequencesExt

CONSTANT Faults  \* what may go wrong in a behaviour

ASSUME FaultsAssumption ==
  Faults \subseteq {"error",    \* the work of a job fails
                    "aged",     \* a row gets older than the age limit of the cleanup
                    "crash",    \* a client process dies
                    "suspect",  \* the beats of a live client come late
                    "lose",     \* an answer of a worker never arrives
                    "unknown",  \* a worker asks for a queue the server does not know
                    "dbfail"}   \* a call on the database fails

VARIABLES alive, held, notes, orphaned

clientVars == <<alive, held>>
vars == <<schedVars, tableVars, record, alive, held, notes, orphaned>>

TypeOK ==
  /\ SchedTypeOK
  /\ TableTypeOK
  /\ ProducerTypeOK
  /\ alive \subseteq 1..connected
  /\ held \in [Worker -> Seq(Job)]
  /\ notes \in Nat
  /\ orphaned \subseteq Job

Init ==
  /\ SchedInit
  /\ TableInit
  /\ ProducerInit
  /\ alive = {}
  /\ held = [w \in Worker |-> <<>>]
  /\ notes = 0
  /\ orphaned = {}
-----------------------------------------------------------------------------
\* push: the insert fires the trigger that notifies job_created.
Push(j) ==
  /\ \E t \in Time : Insert(j, t)
  /\ notes' = notes + 1
  /\ UNCHANGED <<schedVars, record, clientVars, orphaned>>

\* listenQueue: a client process connects.
Connect(w, known) ==
  /\ known \/ "unknown" \in Faults
  /\ Register(w, known)
  /\ alive' = alive \cup {w}
  /\ UNCHANGED <<tableVars, record, held, notes, orphaned>>

\* Mutant of Notify: every notification resets the record, polling or not.
NotifyResets ==
  /\ notes > 0
  /\ notes' = notes - 1
  /\ RecordToNoJob
  /\ IF record.present /\ IsAvailable THEN StartPop(FALSE) ELSE UNCHANGED pop
  /\ UNCHANGED <<schedVars, status, metadata, created, createdAt, acking, errFind, errUpdate,
                 freeing, clientVars, orphaned>>

\* triggerQueue on a notification.
Notify ==
  /\ notes > 0
  /\ notes' = notes - 1
  /\ IF record.present /\ ~record.available THEN RecordToNoJob ELSE UNCHANGED record
  /\ IF record.present /\ IsAvailable THEN StartPop(FALSE) ELSE UNCHANGED pop
  /\ UNCHANGED <<schedVars, status, metadata, created, createdAt, acking, errFind, errUpdate,
                 freeing, clientVars, orphaned>>

\* The handler of a tick: canPool, and a polled pop if it says so.
PoolTick ==
  /\ IsAvailable
  /\ \/ Polls /\ RecordPoll /\ StartPop(TRUE)
     \/ CountsTick /\ UpdateTick /\ UNCHANGED pop
  /\ UNCHANGED <<schedVars, status, metadata, created, createdAt, acking, errFind, errUpdate,
                 freeing, clientVars, notes, orphaned>>

\* The continuation of a pop that found nothing.
ReturnNothing(p) ==
  /\ pop[p].step = "return" /\ pop[p].job = NoJob
  /\ IF pop[p].polled THEN RecordToNoJob ELSE UNCHANGED record
  /\ pop' = [pop EXCEPT ![p] = Idle]
  /\ UNCHANGED <<schedVars, status, metadata, created, createdAt, acking, errFind, errUpdate,
                 freeing, clientVars, notes, orphaned>>

\* The continuation of a pop that took a job: the dispatcher writes it to the stream of
\* the next worker, or drops it; the producer counts it as found either way.
ReturnJob(p) ==
  LET j == pop[p].job
  IN  /\ pop[p].step = "return" /\ j # NoJob
      /\ IF pop[p].polled THEN RecordToJob ELSE UNCHANGED record
      /\ Dispatch(j)
      /\ held' = IF NextWorker \in alive
                 THEN [held EXCEPT ![NextWorker] = Append(@, j)]
                 ELSE held
      /\ orphaned' = IF NextWorker = NoWorker THEN orphaned \cup {j} ELSE orphaned
      /\ pop' = [pop EXCEPT ![p] = Idle]
      /\ UNCHANGED <<status, metadata, created, createdAt, acking, errFind, errUpdate, freeing,
                     alive, notes>>

\* Mutant of PopOnAnswer: no event, no pop.
NoPopOnAnswer(w) == UNCHANGED pop

\* WorkerInstance.ack, called by both handlers, emits queue:available, whose listener
\* pops at once, before the update of the answered job is even sent.
PopOnAnswer(w) == IF w \in registry THEN StartPop(FALSE) ELSE UNCHANGED pop

\* The Ack, and the Error, of the i-th delivery a worker holds.
Ack(w, i) ==
  /\ i \in DOMAIN held[w]
  /\ held' = [held EXCEPT ![w] = RemoveAt(@, i)]
  /\ FreeSlot(w, held[w][i])
  /\ PopOnAnswer(w)
  /\ StartAck(held[w][i])
  /\ UNCHANGED <<status, metadata, created, createdAt, errUpdate, freeing, record, alive, notes,
                 orphaned>>

Error(w, i) ==
  /\ "error" \in Faults
  /\ i \in DOMAIN held[w]
  /\ held' = [held EXCEPT ![w] = RemoveAt(@, i)]
  /\ FreeSlot(w, held[w][i])
  /\ PopOnAnswer(w)
  /\ StartError(held[w][i])
  /\ UNCHANGED <<status, metadata, created, createdAt, errUpdate, freeing, record, alive, notes,
                 orphaned>>

\* The client ignores the outcome of its call, so an answer that fails is never repeated.
LoseAnswer(w, i) ==
  /\ "lose" \in Faults
  /\ i \in DOMAIN held[w]
  /\ held' = [held EXCEPT ![w] = RemoveAt(@, i)]
  /\ UNCHANGED <<schedVars, tableVars, record, alive, notes, orphaned>>

ClientCrash(w) ==
  /\ "crash" \in Faults
  /\ w \in alive
  /\ alive' = alive \ {w}
  /\ UNCHANGED <<schedVars, tableVars, record, held, notes, orphaned>>

\* The workers the heartbeat thread may report: their beats have stopped, or come late.
\* A worker of an unknown queue never beat once, so it is never reported.
Silent(w) == w \in Scheduled /\ (w \notin alive \/ "suspect" \in Faults)

\* Mutant of Clean: the worker is forgotten together with its jobs.
CleanForgets(w) ==
  /\ Silent(w)
  /\ Unregister(w)
  /\ UNCHANGED <<tableVars, record, clientVars, notes, orphaned>>

\* The heartbeat thread reports a silent worker: clean removes it and sends the update
\* for the jobs its instance has at that moment.
Clean(w) ==
  /\ Silent(w)
  /\ Unregister(w)
  /\ freeing' = [freeing EXCEPT ![w] = executing[w]]
  /\ UNCHANGED <<status, metadata, created, createdAt, pop, acking, errFind, errUpdate, record,
                 clientVars, notes, orphaned>>

\* The steps of the calls in flight.  A pop that sets Executing takes the row over,
\* so it is no longer orphaned.
PopStep(p) ==
  /\ \/ PopFind(p) /\ UNCHANGED orphaned
     \/ PopUpdate(p) /\ orphaned' = orphaned \ {pop[p].job}
  /\ UNCHANGED <<schedVars, record, clientVars, notes>>

AnswerStep(j) ==
  /\ AckUpdate(j) \/ ErrorFind(j) \/ ErrorUpdate(j)
  /\ UNCHANGED <<schedVars, record, clientVars, notes, orphaned>>

FreeStep(w) ==
  /\ FreeUpdate(w)
  /\ UNCHANGED <<schedVars, record, clientVars, notes, orphaned>>

Cleanup ==
  /\ "aged" \in Faults
  /\ \E t \in Time : CleanDb(t)
  /\ UNCHANGED <<schedVars, record, clientVars, notes, orphaned>>

CallFails ==
  /\ "dbfail" \in Faults
  /\ \/ \E p \in PopCall : PopFails(p) /\ UNCHANGED orphaned
     \/ \E j \in Job : (AckFails(j) \/ ErrorFails(j)) /\ orphaned' = orphaned \cup {j}
     \/ \E w \in Worker : FreeFails(w) /\ orphaned' = orphaned \cup freeing[w]
  /\ UNCHANGED <<schedVars, record, clientVars, notes>>

Next ==
  \/ \E j \in Job : Push(j)
  \/ \E w \in Worker, known \in BOOLEAN : Connect(w, known)
  \/ Notify
  \/ PoolTick
  \/ \E p \in PopCall : PopStep(p) \/ ReturnNothing(p) \/ ReturnJob(p)
  \/ \E w \in Worker : \E i \in DOMAIN held[w] : Ack(w, i) \/ Error(w, i) \/ LoseAnswer(w, i)
  \/ \E w \in Worker : ClientCrash(w) \/ Clean(w) \/ FreeStep(w)
  \/ \E j \in Job : AnswerStep(j)
  \/ Cleanup
  \/ CallFails

Spec == Init /\ [][Next]_vars

(***************************************************************************)
(* Fairness.  The timers of the producer and of the heartbeat never stop,  *)
(* notifications arrive, a call on the database returns, and a live client *)
(* answers what it holds.  Nobody has to push, connect, fail or crash.     *)
(* The server never makes a notification or an answer wait; the bound on   *)
(* the pops in flight does, for a while at a time, hence the strong form.  *)
(* The database may fail any number of calls, but not for ever: the ticks  *)
(* would repeat a pop that always fails.                                   *)
(***************************************************************************)
Answer(w, j) == \E i \in DOMAIN held[w] : held[w][i] = j /\ (Ack(w, i) \/ Error(w, i))

Fairness ==
  /\ SF_vars(Notify)
  /\ WF_vars(PoolTick)
  /\ \A p \in PopCall : WF_vars(PopStep(p) \/ ReturnNothing(p) \/ ReturnJob(p))
  /\ \A j \in Job : WF_vars(AnswerStep(j))
  /\ \A w \in Worker : WF_vars(FreeStep(w)) /\ WF_vars(w \notin alive /\ Clean(w))
  /\ \A w \in Worker, j \in Job : SF_vars(w \in alive /\ Answer(w, j))

OutagesEnd == <>[][~CallFails]_vars

FairSpec == Spec /\ Fairness /\ OutagesEnd
-----------------------------------------------------------------------------
(***************************************************************************)
(* Safety.                                                                 *)
(***************************************************************************)
\* Someone still answers for the job: a pop about to hand it over, a worker that is
\* registered, or an update under way that will close it or make it available.
Owed(j) ==
  \/ \E p \in PopCall : pop[p].step = "return" /\ pop[p].job = j
  \/ \E w \in registry : j \in executing[w]
  \/ \E w \in Worker : j \in freeing[w]
  \/ acking[j] + errFind[j] + errUpdate[j] > 0

\* No job is lost without a trace.  An Executing row that nobody will ever touch again
\* was dropped by the dispatcher for want of a worker, or its closing update failed;
\* no order of the steps of pop, Ack, Error and clean loses one otherwise.
ExecutingAccounted ==
  \A j \in Job : status[j] = "Executing" => Owed(j) \/ j \in orphaned

\* A worker never has more unanswered deliveries than the concurrency it asked for,
\* even though every pop decides on a load that has changed by the time it dispatches.
Backpressure == \A w \in Worker : Len(held[w]) <= Concurrency[w]

\* While no answer is lost, the load of a live worker is exactly its unanswered
\* deliveries: no slot leaks and none is freed twice.
SlotsExact ==
  "lose" \notin Faults => \A w \in registry \cap alive : load[w] = Len(held[w])

\* Rows leave Available in the order of created_at, as long as none is given back: a row
\* is never taken while an older one that was there before it waits.  (Of two pushes that
\* overlap the one with the older created_at may commit last, and find the other gone.)
TakenInOrder ==
  {"crash", "suspect"} \cap Faults = {} =>
    \A i, j \in Job :
      i < j /\ createdAt[i] < createdAt[j] /\ status[i] = "Available"
        => status[j] \in {"Available", Absent}

\* An error does not discard a job that has retries left: what retry() answers for the
\* metadata the job was pushed with (job.ts, "Check and apply retry logic").
RetryHonoured ==
  [][\A j \in Job :
       /\ errUpdate'[j] < errUpdate[j]
       /\ status[j] \notin Terminal
       /\ RetryAllowed(Metadata(Retry[j]))
       => status'[j] # "Discarded"]_vars

\* Once a poll has found a job, the ticks of the producer stay off until a poll that
\* was already in flight finds nothing: no notification and no answer turns them on.
PollingStaysOff ==
  [][record.lastQueryHasJob /\ ~record'.lastQueryHasJob =>
       \E p \in PopCall : pop[p].polled /\ pop[p].step = "return" /\ pop[p].job = NoJob]_vars
\* Seen from the clients, the delivery of jobs is a window of Concurrency[w] unanswered
\* deliveries per worker.  The server enforces it on loads of its own, which answers,
\* losses and removals move at other times than the clients' windows.
Window == INSTANCE DeliveryWindow
            WITH open <- registry, outstanding <- [w \in Worker |-> Len(held[w])]

IsDeliveryWindow == Window!Spec
-----------------------------------------------------------------------------
(***************************************************************************)
(* The inductive invariant behind Backpressure, ExecutingAccounted and     *)
(* PollingStaysOff.                                                        *)
(***************************************************************************)
\* A stream that is not accepted yet has left no trace.
FreshWorkers ==
  \A w \in Worker : w > connected => load[w] = 0 /\ held[w] = <<>> /\ freeing[w] = {}

\* A registered worker has a slot taken for every delivery it has not answered, and no
\* more slots than it offered.
SlotsCoverDeliveries ==
  \A w \in registry : Len(held[w]) <= load[w] /\ load[w] <= Concurrency[w]

\* The update of a cleaner is in flight only for a worker that is gone, so a second
\* snapshot never replaces one whose update is still to come.
FreedOnce == \A w \in Worker : freeing[w] # {} => w \notin registry

\* A pop before its update has found a row.
UpdateNamesRow == \A p \in PopCall : pop[p].step = "update" => pop[p].job \in Job

\* Ticks that are switched off by a job found are not being counted down as well.
OffMeansAvailable == record.lastQueryHasJob => record.present /\ record.available

\* A poll in flight has a record to update when it returns.
PolledHasRecord == \A p \in PopCall : pop[p].polled => record.present

IInv ==
  /\ TypeOK
  /\ FreshWorkers
  /\ SlotsCoverDeliveries
  /\ Backpressure
  /\ FreedOnce
  /\ UpdateNamesRow
  /\ ExecutingAccounted
  /\ OffMeansAvailable
  /\ PolledHasRecord

\* Behind TakenInOrder.  All older rows that were there before it have been taken.
Passed(j) ==
  /\ j <= created
  /\ \A i \in Job : i < j /\ createdAt[i] < createdAt[j] => status[i] \notin Poppable

\* Some call or client deals with the job, or its row has left Available.
InHand(j) ==
  \/ \E p \in PopCall : pop[p].job = j
  \/ \E w \in Worker : \E i \in DOMAIN held[w] : held[w][i] = j
  \/ acking[j] + errFind[j] + errUpdate[j] > 0
  \/ status[j] \notin Poppable \cup {Absent}

TakenArePassed == \A j \in Job : InHand(j) => Passed(j)

\* While no client dies or is suspected no cleaner runs, and retry() refuses a text, so
\* no row becomes Available but a new one.
NothingGivenBack ==
  /\ registry \subseteq alive
  /\ \A w \in Worker : freeing[w] = {}
  /\ \A j \in Job : metadata[j].form = "text" /\ status[j] # "Retryable"
  /\ \A j \in Job : j > created => status[j] = Absent

InOrder == {"crash", "suspect"} \cap Faults = {} => NothingGivenBack /\ TakenArePassed
-----------------------------------------------------------------------------
(***************************************************************************)
(* Liveness.                                                               *)
(***************************************************************************)
\* With a worker connected and none failing, every job ends in a final status for good,
\* whatever the race of the pops of ticks, notifications and answers made of it on the
\* way; only the jobs the dispatcher dropped stay behind.
JobsSettle ==
  <>[](\/ connected = 0
       \/ \A j \in Job : status[j] \in Terminal \cup {Absent} \/ j \in orphaned)

\* What a dead worker was executing does not stay Executing on its account, unless the
\* update that gives it back fails.
DeadWorkersJobsFreed ==
  \A w \in Worker, j \in Job :
    w \in Scheduled \ alive /\ j \in executing[w] ~> status[j] # "Executing" \/ j \in orphaned

\* A job that waits although the queue can take work is taken, unless a poll that found
\* a job has switched the ticks off: then only an answer or a notification pops it.
StarvesOnlyUnpolled ==
  \A j \in Job :
    status[j] = "Available" /\ IsAvailable
      ~> status[j] # "Available" \/ record.lastQueryHasJob \/ ~IsAvailable
=============================================================================
