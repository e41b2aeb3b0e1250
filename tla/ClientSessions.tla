--------------------------- MODULE ClientSessions ---------------------------
(***************************************************************************)
(* One WorkerClient (src/application/worker/client.ts) over several        *)
(* streams, and what the server keeps of it: it answers under the id it    *)
(* knows at that moment, connects again when its stream closes, and loses  *)
(* its heartbeat by that; the server does not hear of a closed stream.     *)
(* The server may restart, which empties its memory and not the table.     *)
(*                                                                         *)
(* Composes the scheduler and the table, so every stream accepted is a     *)
(* worker, and the calls of pop, Ack, Error and clean overlap as in        *)
(* JobDelivery.  What makes the producer poll is left out: it may pop      *)
(* whenever the queue takes work.                                          *)
(*                                                                         *)
(*   up        the client process runs                                     *)
(*   stream    the worker of its open stream, NoWorker without one         *)
(*   inbox     what the server wrote on that stream and the client has not *)
(*             read: jobs, and Welcome                                     *)
(*   workerID  the id the client answers under                             *)
(*   beating   the heartbeat interval runs                                 *)
(*   working   the deliveries the client works on                          *)
(*   answers   its calls of Ack and Error on their way                     *)
(***************************************************************************)
EXTENDS Scheduler, JobTable, Sequences, SequencesExt

CONSTANT Faults  \* what may go wrong in a behaviour

ASSUME FaultsAssumption ==
  Faults \subseteq {"close",    \* the stream closes under a client that is up
                    "crash",    \* the client process dies
                    "restart",  \* the server process dies and starts again
                    "repeat",   \* work answers its job itself, as an example does
                    "error",    \* work fails
                    "lose",     \* an answer never arrives
                    "unknown",  \* the server does not know the queue yet
                    "dbfail"}   \* a call on the database fails

\* The concurrency is a field of the client, the same on all its streams.
ASSUME OneClient == \A v, w \in Worker : Concurrency[v] = Concurrency[w]

\* queueConnectResponse carries no job; the id "" is no worker's.
Welcome == NoJob
Message == Job \cup {Welcome}
Answer  == [job : Job, worker : Worker \cup {NoWorker}, call : {"ack", "error"}]

VARIABLES
  up, stream, inbox, workerID, beating, working, answers,
  past,       \* history: the load a worker had when it was removed
  surplus,    \* history: answers sent for a delivery that was answered before
  orphaned,   \* history: rows whose delivery was dropped, whose closing update failed,
              \* or that were Executing when the server died
  lost,       \* history: jobs with an answer that never arrived
  contested   \* history: jobs something else dealt with while an ack of theirs was handled

streamVars == <<stream, inbox>>
clientVars == <<up, workerID, beating, working>>
historyVars == <<past, surplus, orphaned, lost, contested>>
vars == <<schedVars, tableVars, streamVars, clientVars, answers, historyVars>>

TypeOK ==
  /\ SchedTypeOK
  /\ TableTypeOK
  /\ up \in BOOLEAN /\ beating \in BOOLEAN
  /\ {stream, workerID} \subseteq Worker \cup {NoWorker}
  /\ inbox \in Seq(Message)
  /\ working \in Seq(Job) /\ answers \in Seq(Answer)
  /\ past \in [Worker -> Nat] /\ surplus \in Nat
  /\ {orphaned, lost, contested} \subseteq SUBSET Job

Init ==
  /\ SchedInit
  /\ TableInit
  /\ up = TRUE /\ beating = TRUE
  /\ stream = NoWorker /\ workerID = NoWorker
  /\ inbox = <<>> /\ working = <<>> /\ answers = <<>>
  /\ past = [w \in Worker |-> 0] /\ surplus = 0
  /\ orphaned = {} /\ lost = {} /\ contested = {}
-----------------------------------------------------------------------------
(***************************************************************************)
(* The client.                                                             *)
(***************************************************************************)
\* connect: listenQueue registers a new worker, and writes its id first if the queue is
\* known.
Connect(w, known) ==
  /\ up /\ stream = NoWorker
  /\ known \/ "unknown" \in Faults
  /\ Register(w, known)
  /\ stream' = w
  /\ inbox' = IF known THEN <<Welcome>> ELSE <<>>
  /\ UNCHANGED <<tableVars, clientVars, answers, historyVars>>

\* handleStream.
HandleStream ==
  /\ inbox # <<>>
  /\ inbox' = Tail(inbox)
  /\ IF Head(inbox) = Welcome
     THEN workerID' = stream /\ UNCHANGED working
     ELSE working' = Append(working, Head(inbox)) /\ UNCHANGED workerID
  /\ UNCHANGED <<schedVars, tableVars, stream, up, beating, answers, historyVars>>

\* execute: the work is done, or has failed, and the client answers under its present
\* id.  Work that acked its job by itself makes it two answers for one delivery.
Execute(i) ==
  LET Call(c) == [job |-> working[i], worker |-> workerID, call |-> c]
  IN  /\ i \in DOMAIN working
      /\ working' = RemoveAt(working, i)
      /\ \E c \in {"ack"} \cup ({"error"} \cap Faults) :
           \/ answers' = Append(answers, Call(c)) /\ UNCHANGED surplus
           \/ /\ "repeat" \in Faults
              /\ answers' = answers \o <<Call("ack"), Call(c)>>
              /\ surplus' = surplus + 1
      /\ UNCHANGED <<schedVars, tableVars, streamVars, up, workerID, beating,
                     past, orphaned, lost, contested>>

\* The close event: the interval is cleared and never started again.
Close ==
  /\ "close" \in Faults /\ up /\ stream # NoWorker
  /\ stream' = NoWorker /\ inbox' = <<>> /\ beating' = FALSE
  /\ UNCHANGED <<schedVars, tableVars, up, workerID, working, answers, historyVars>>

\* The client process dies, and may be started again: its fields are those of the next.
Crash ==
  /\ "crash" \in Faults /\ up
  /\ up' = FALSE /\ stream' = NoWorker /\ inbox' = <<>> /\ working' = <<>>
  /\ beating' = TRUE /\ workerID' = NoWorker
  /\ UNCHANGED <<schedVars, tableVars, answers, historyVars>>

Start ==
  /\ ~up /\ up' = TRUE
  /\ UNCHANGED <<schedVars, tableVars, streamVars, workerID, beating, working, answers,
                 historyVars>>

\* The client ignores the outcome of its calls, so an answer that fails is not repeated.
LoseAnswer(i) ==
  /\ "lose" \in Faults
  /\ i \in DOMAIN answers
  /\ answers' = RemoveAt(answers, i)
  /\ lost' = lost \cup {answers[i].job}
  /\ UNCHANGED <<schedVars, tableVars, streamVars, clientVars, past, surplus, orphaned, contested>>
-----------------------------------------------------------------------------
(***************************************************************************)
(* The server.                                                             *)
(***************************************************************************)
Push(j) ==
  /\ \E t \in Time : Insert(j, t)
  /\ UNCHANGED <<schedVars, streamVars, clientVars, answers, historyVars>>

\* A tick or a notification makes the producer pop.
Poll ==
  /\ IsAvailable
  /\ StartPop(FALSE)
  /\ UNCHANGED <<schedVars, status, metadata, created, createdAt, acking, errFind, errUpdate,
                 freeing, streamVars, clientVars, answers, historyVars>>

\* The statements of pop.  One that finds a job whose ack is being handled contests it;
\* one that sets Executing takes the row over, whatever happened to it before.
PopStep(p) ==
  /\ \/ /\ PopFind(p)
        /\ contested' = contested \cup {j \in Job : acking[j] > 0 /\ pop'[p].job = j}
        /\ UNCHANGED <<orphaned, lost>>
     \/ /\ PopUpdate(p)
        /\ orphaned' = orphaned \ {pop[p].job}
        /\ lost' = lost \ {pop[p].job}
        /\ UNCHANGED contested
  /\ UNCHANGED <<schedVars, streamVars, clientVars, answers, past, surplus>>

ReturnNothing(p) ==
  /\ pop[p].step = "return" /\ pop[p].job = NoJob
  /\ pop' = [pop EXCEPT ![p] = Idle]
  /\ UNCHANGED <<schedVars, status, metadata, created, createdAt, acking, errFind, errUpdate,
                 freeing, streamVars, clientVars, answers, historyVars>>

\* The dispatcher writes the job to the stream of the next worker, or drops it; the write
\* is lost unless that is the stream the client reads.
ReturnJob(p) ==
  LET j == pop[p].job
  IN  /\ pop[p].step = "return" /\ j # NoJob
      /\ Dispatch(j)
      /\ inbox' = IF NextWorker \in {stream} \ {NoWorker} THEN Append(inbox, j) ELSE inbox
      /\ orphaned' = IF NextWorker = NoWorker THEN orphaned \cup {j} ELSE orphaned
      /\ pop' = [pop EXCEPT ![p] = Idle]
      /\ UNCHANGED <<status, metadata, created, createdAt, acking, errFind, errUpdate, freeing,
                     stream, clientVars, answers, past, surplus, lost, contested>>

\* The handlers of Ack and Error free the slot of the worker named, whether or not it has
\* the job; a worker that is registered also pops at once, by queue:available.
TakeAnswer(i, call) ==
  /\ i \in DOMAIN answers /\ answers[i].call = call
  /\ answers' = RemoveAt(answers, i)
  /\ FreeSlot(answers[i].worker, answers[i].job)
  /\ IF answers[i].worker \in registry THEN StartPop(FALSE) ELSE UNCHANGED pop

\* Something besides worker w deals with the job: a pop that took it, another worker that
\* is listed with it, the update of a cleaner or of an error.
DealtWith(j, w) ==
  \/ \E p \in PopCall : pop[p].job = j
  \/ \E v \in registry \ {w} : j \in executing[v]
  \/ \E v \in Worker : j \in freeing[v]
  \/ errUpdate[j] > 0

Ack(i) ==
  LET j == answers[i].job
  IN  /\ TakeAnswer(i, "ack")
      /\ StartAck(j)
      /\ contested' = IF DealtWith(j, answers[i].worker) THEN contested \cup {j} ELSE contested
      /\ UNCHANGED <<status, metadata, created, createdAt, errUpdate, freeing, streamVars,
                     clientVars, past, surplus, orphaned, lost>>

Error(i) ==
  /\ TakeAnswer(i, "error")
  /\ StartError(answers[i].job)
  /\ UNCHANGED <<status, metadata, created, createdAt, errUpdate, freeing, streamVars,
                 clientVars, historyVars>>

\* The statements of ack and error; an error that finds the row of a job whose ack is
\* being handled contests it.
AnswerStep(j) ==
  /\ AckUpdate(j) \/ ErrorFind(j) \/ ErrorUpdate(j)
  /\ contested' = IF acking'[j] > 0 /\ errUpdate'[j] > 0 THEN contested \cup {j} ELSE contested
  /\ UNCHANGED <<schedVars, streamVars, clientVars, answers, past, surplus, orphaned, lost>>

\* A worker is silent unless the client beats under its id, or will when it
\* reads it (Heartbeat shows that those are not reported while beats are in time).
Beats(w) == up /\ beating /\ (workerID = w \/ stream = w)

\* Mutant of Clean: the worker is forgotten together with its jobs.
CleanForgets(w) ==
  /\ w \in Scheduled /\ ~Beats(w)
  /\ Unregister(w)
  /\ past' = [past EXCEPT ![w] = load[w]]
  /\ UNCHANGED <<tableVars, streamVars, clientVars, answers, surplus, orphaned, lost, contested>>

\* Mutant of Clean: the worker loses its jobs and stays in the registry.
CleanKeeps(w) ==
  /\ w \in Scheduled /\ ~Beats(w)
  /\ load' = [load EXCEPT ![w] = 0]
  /\ executing' = [executing EXCEPT ![w] = {}]
  /\ freeing' = [freeing EXCEPT ![w] = executing[w]]
  /\ past' = [past EXCEPT ![w] = load[w]]
  /\ UNCHANGED <<registry, workers, workerIndex, connected, status, metadata, created,
                 createdAt, pop, acking, errFind, errUpdate, streamVars, clientVars, answers,
                 surplus, orphaned, lost, contested>>

\* clean: a silent worker is removed, and the update for its jobs is sent.  A worker whose
\* queue was unknown never beat, so it is never reported.
Clean(w) ==
  /\ w \in Scheduled /\ ~Beats(w)
  /\ Unregister(w)
  /\ freeing' = [freeing EXCEPT ![w] = executing[w]]
  /\ past' = [past EXCEPT ![w] = load[w]]
  /\ UNCHANGED <<status, metadata, created, createdAt, pop, acking, errFind, errUpdate,
                 streamVars, clientVars, answers, surplus, orphaned, lost, contested>>

FreeStep(w) ==
  /\ FreeUpdate(w)
  /\ UNCHANGED <<schedVars, streamVars, clientVars, answers, historyVars>>

CallFails ==
  /\ "dbfail" \in Faults
  /\ \/ \E p \in PopCall : PopFails(p) /\ UNCHANGED orphaned
     \/ \E j \in Job : (AckFails(j) \/ ErrorFails(j)) /\ orphaned' = orphaned \cup {j}
     \/ \E w \in Worker : FreeFails(w) /\ orphaned' = orphaned \cup freeing[w]
  /\ UNCHANGED <<schedVars, streamVars, clientVars, answers, past, surplus, lost, contested>>

\* The server process: its registries are gone, its calls are under way no more, streams
\* close, and the rows stay as they are.  A client that has no stream may have a
\* listenQueue call under way, which closes as well, or one not sent yet.
Restart ==
  /\ "restart" \in Faults /\ connected > 0
  /\ registry' = {} /\ workers' = {} /\ workerIndex' = 0
  /\ load' = [w \in Worker |-> 0] /\ executing' = [w \in Worker |-> {}]
  /\ past' = [w \in Worker |-> load[w] + past[w]]
  /\ pop' = [p \in PopCall |-> Idle]
  /\ acking' = [j \in Job |-> 0] /\ errFind' = [j \in Job |-> 0]
  /\ errUpdate' = [j \in Job |-> 0] /\ freeing' = [w \in Worker |-> {}]
  /\ stream' = NoWorker /\ inbox' = <<>> /\ answers' = <<>>
  /\ \/ up /\ beating' = FALSE
     \/ stream = NoWorker /\ UNCHANGED beating
  /\ orphaned' = orphaned \cup {j \in Job : status[j] = "Executing"}
  /\ UNCHANGED <<connected, status, metadata, created, createdAt, up, workerID, working,
                 surplus, lost, contested>>
-----------------------------------------------------------------------------
Next ==
  \/ \E w \in Worker, known \in BOOLEAN : Connect(w, known)
  \/ HandleStream \/ Close \/ Crash \/ Start \/ Restart \/ Poll \/ CallFails
  \/ \E i \in DOMAIN working : Execute(i)
  \/ \E i \in DOMAIN answers : Ack(i) \/ Error(i) \/ LoseAnswer(i)
  \/ \E j \in Job : Push(j) \/ AnswerStep(j)
  \/ \E p \in PopCall : PopStep(p) \/ ReturnNothing(p) \/ ReturnJob(p)
  \/ \E w \in Worker : Clean(w) \/ FreeStep(w)

Spec == Init /\ [][Next]_vars

\* Streams, work and calls go on, and silent workers are found.  The server never makes an
\* answer wait, but the bounds on the calls in flight do, hence the strong form.
Handle(j) == \E i \in DOMAIN answers : answers[i].job = j /\ (Ack(i) \/ Error(i))

FairSpec ==
  /\ Spec
  /\ WF_vars(HandleStream)
  /\ WF_vars(\E i \in DOMAIN working : Execute(i))
  /\ \A j \in Job : SF_vars(Handle(j)) /\ WF_vars(AnswerStep(j))
  /\ \A p \in PopCall : WF_vars(PopStep(p) \/ ReturnNothing(p) \/ ReturnJob(p))
  /\ \A w \in Worker : WF_vars(Clean(w)) /\ WF_vars(FreeStep(w))
-----------------------------------------------------------------------------
\* The deliveries the server has had no answer for: written, worked on, or
\* with an answer under way.
Unread(messages) == Cardinality({i \in DOMAIN messages : messages[i] # Welcome})
Unanswered == Unread(inbox) + Len(working) + Len(answers)

\* A stream that closes lets a client be sent its concurrency once more, and an
\* answer too many one job more; nothing else overloads it, whichever ids answers
\* carry and whichever workers the server still counts.
LoadPerSession == Unanswered <= Concurrency[1] * connected + surplus

\* Behind LoadPerSession.  The slots taken, of workers long gone included, for every
\* delivery that has no answer and that is not an answer too many takes one.
TakenSlots == {slot \in Worker \X (1..Concurrency[1]) : slot[2] <= load[slot[1]] + past[slot[1]]}

SlotPerDelivery ==
  /\ \A i \in 2..Len(inbox) : inbox[i] # Welcome
  /\ \A w \in Worker : /\ load[w] + past[w] <= Concurrency[1]
                       /\ w \in registry => past[w] = 0
                       /\ w > connected => load[w] = 0 /\ past[w] = 0
  /\ Unanswered <= Cardinality(TakenSlots) + surplus

\* Someone still answers for the job: a pop about to hand it over, a worker that is
\* registered, or an update under way that will close it or make it available.
Owed(j) ==
  \/ \E p \in PopCall : pop[p].step = "return" /\ pop[p].job = j
  \/ \E w \in registry : j \in executing[w]
  \/ \E w \in Worker : j \in freeing[w]
  \/ acking[j] + errFind[j] + errUpdate[j] > 0

\* Closes, crashes, lost answers and answers under another id leave no Executing row to
\* nobody: only a drop, an update that failed or the death of the server does.
ExecutingOwed == \A j \in Job : status[j] = "Executing" => Owed(j) \/ j \in orphaned

\* The updates of pop, error and clean ignore the status they find, yet a completed job
\* runs again only if, when its ack was handled, a pop or an update under way had it, or
\* another worker than the one the ack names was listed with it.
RerunOnlyContested ==
  [][\A j \in Job : status[j] = "Completed" /\ status'[j] # "Completed" => j \in contested]_vars

\* Behind them.  A row or a stream to come has left no trace, the update of a cleaner is in
\* flight only for a worker that is gone, and a pop before its update has found a row.
FreshRows == \A j \in Job : j > created => ~Exists(j)
FreshWorkers == \A w \in Worker : w > connected => executing[w] = {} /\ freeing[w] = {}
FreedOnce == \A w \in Worker : freeing[w] # {} => w \notin registry
UpdateNamesRow == \A p \in PopCall : pop[p].step = "update" => pop[p].job \in Job

\* Nothing deals with a job that was acked unless the job was contested.
LetGo ==
  \A j \in Job :
    DealtWith(j, NoWorker) /\ (acking[j] > 0 \/ status[j] = "Completed") => j \in contested

IInv ==
  /\ TypeOK
  /\ FreshRows
  /\ FreshWorkers
  /\ FreedOnce
  /\ UpdateNamesRow
  /\ ExecutingOwed
  /\ LetGo

\* No row stays Executing, though the heartbeat of a client is lost with its first stream:
\* it is answered, or its worker is cleaned, unless it is orphaned or its answer was lost.
NeverStuck ==
  \A j \in Job : status[j] = "Executing" ~> status[j] # "Executing" \/ j \in orphaned \cup lost
=============================================================================
