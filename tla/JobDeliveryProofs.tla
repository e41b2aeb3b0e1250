------------------------- MODULE JobDeliveryProofs -------------------------
(***************************************************************************)
(* What JobDelivery promises, for every number of jobs, workers and calls  *)
(* in flight, every concurrency, and every choice of what goes wrong.      *)
(***************************************************************************)
EXTENDS JobDelivery, SchedulerProofs, SequenceTheorems

\* Taking one delivery out leaves one fewer.
LEMMA RemoveAtFacts ==
  ASSUME NEW S, NEW s \in Seq(S), NEW i \in DOMAIN s
  PROVE  RemoveAt(s, i) \in Seq(S) /\ Len(RemoveAt(s, i)) = Len(s) - 1 /\ s[i] \in S
<1>1. i \in 1..Len(s) /\ Len(s) \in Nat /\ s[i] \in S
  OBVIOUS
<1>2. SubSeq(s, 1, i - 1) \in Seq(S) /\ Len(SubSeq(s, 1, i - 1)) = i - 1
  BY <1>1, SubSeqProperties
<1>3. SubSeq(s, i + 1, Len(s)) \in Seq(S) /\ Len(SubSeq(s, i + 1, Len(s))) = Len(s) - i
  BY <1>1, SubSeqProperties
<1>4. Len(SubSeq(s, 1, i - 1) \o SubSeq(s, i + 1, Len(s))) = (i - 1) + (Len(s) - i)
  BY <1>2, <1>3, ConcatProperties
<1>5. SubSeq(s, 1, i - 1) \o SubSeq(s, i + 1, Len(s)) \in Seq(S)
  BY <1>2, <1>3, ConcatProperties
<1>6. (i - 1) + (Len(s) - i) = Len(s) - 1
  BY <1>1
<1>. QED
  BY <1>1, <1>4, <1>5, <1>6 DEF RemoveAt

\* What starting a pop, or not, does to the calls in flight.
LEMMA StartPopFacts ==
  ASSUME TableTypeOK, StartPop(FALSE) \/ StartPop(TRUE) \/ UNCHANGED pop
  PROVE  /\ pop' \in [PopCall -> PopState]
         /\ \A p \in PopCall :
              \/ pop'[p] = pop[p]
              \/ pop[p].step = "idle" /\ pop'[p].step = "find"
<1>1. ASSUME NEW b \in BOOLEAN, StartPop(b)
      PROVE  /\ pop' \in [PopCall -> PopState]
             /\ \A p \in PopCall :
                  \/ pop'[p] = pop[p]
                  \/ pop[p].step = "idle" /\ pop'[p].step = "find"
  <2>. DEFINE started == [step |-> "find", job |-> NoJob, polled |-> b]
  <2>1. PICK p \in PopCall : pop[p] = Idle /\ pop' = [pop EXCEPT ![p] = started]
    BY <1>1 DEF StartPop
  <2>2. started \in PopState /\ started.step = "find" /\ pop[p].step = "idle"
    BY <2>1 DEF PopState, Idle
  <2>. HIDE DEF started
  <2>. QED
    BY <2>1, <2>2 DEF TableTypeOK
<1>2. CASE UNCHANGED pop
  BY <1>2 DEF TableTypeOK
<1>. QED
  BY <1>1, <1>2

\* What push stores and what error writes back is metadata.
LEMMA MetadataTypes ==
  /\ \A r \in RetryEntry : Stringify(Metadata(r)) \in JobMetadata
  /\ \A m \in JobMetadata : AfterRetry(m) \in JobMetadata
<1>1. \A r \in RetryEntry : Stringify(Metadata(r)) \in JobMetadata
  BY DEF Stringify, Metadata, JobMetadata
<1>2. ASSUME NEW m \in JobMetadata PROVE AfterRetry(m) \in JobMetadata
  <2>1. m.retry \in RetryEntry
    BY DEF JobMetadata
  <2>2. [m.retry EXCEPT !.currentAttempt = NextAttempt(@)] \in RetryEntry
    BY <2>1 DEF RetryEntry, NextAttempt
  <2>3. [m EXCEPT !.retry.currentAttempt = NextAttempt(@)]
          = [m EXCEPT !.retry = [m.retry EXCEPT !.currentAttempt = NextAttempt(@)]]
    OBVIOUS
  <2>4. [m EXCEPT !.retry = [m.retry EXCEPT !.currentAttempt = NextAttempt(@)]] \in JobMetadata
    BY <2>2 DEF JobMetadata
  <2>. QED
    BY <2>3, <2>4 DEF AfterRetry
<1>. QED
  BY <1>1, <1>2

\* An update of a status leaves every row with a status.
LEMMA SetStatusType ==
  ASSUME TableTypeOK, NEW j, NEW s \in JobStatus \cup {Absent}, SetStatus(j, s)
  PROVE  status' \in [Job -> JobStatus \cup {Absent}]
BY DEF SetStatus, TableTypeOK
-----------------------------------------------------------------------------
(***************************************************************************)
(* Type correctness, one lemma per part of the state.                      *)
(***************************************************************************)
\* The scheduler's part.
LEMMA SchedTypeInductive ==
  ASSUME TypeOK, Next
  PROVE  SchedTypeOK'
<1>. SchedTypeOK /\ TableTypeOK
  BY DEF TypeOK
<1>1. ASSUME UNCHANGED schedVars PROVE SchedTypeOK'
  BY <1>1 DEF schedVars, SchedTypeOK
<1>2. ASSUME NEW w \in Worker, NEW known \in BOOLEAN, Connect(w, known) PROVE SchedTypeOK'
  BY <1>2, MaxWorkersAssumption DEF Connect, Register, SchedTypeOK, Worker
<1>3. ASSUME NEW p \in PopCall, ReturnJob(p) PROVE SchedTypeOK'
  <2>1. pop[p].job \in Job
    BY <1>3 DEF TableTypeOK, PopState, ReturnJob
  <2>2. workerIndex' \in Nat /\ workers' \subseteq 1..connected'
    BY <1>3, IndexAfterType DEF ReturnJob, Dispatch, Scheduled, SchedTypeOK
  <2>3. load' \in [Worker -> Nat] /\ executing' \in [Worker -> SUBSET Job]
    BY <1>3, <2>1, NextWorkerType DEF ReturnJob, Dispatch, SchedTypeOK
  <2>. QED
    BY <1>3, <2>2, <2>3 DEF ReturnJob, Dispatch, SchedTypeOK
<1>4. ASSUME NEW w \in Worker, NEW j, FreeSlot(w, j) PROVE SchedTypeOK'
  BY <1>4 DEF FreeSlot, SchedTypeOK
<1>5. ASSUME NEW w \in Worker, Clean(w) PROVE SchedTypeOK'
  BY <1>5 DEF Clean, Unregister, SchedTypeOK
<1>. QED
  BY <1>1, <1>2, <1>3, <1>4, <1>5
     DEF Next, Push, Notify, PoolTick, PopStep, ReturnNothing, Ack, Error, LoseAnswer,
         ClientCrash, FreeStep, AnswerStep, Cleanup, CallFails

\* The table's part.
LEMMA TableTypeInductive ==
  ASSUME TypeOK, Next
  PROVE  TableTypeOK'
<1>. SchedTypeOK /\ TableTypeOK
  BY DEF TypeOK
<1>1. ASSUME UNCHANGED tableVars PROVE TableTypeOK'
  BY <1>1 DEF tableVars, TableTypeOK
<1>2. ASSUME NEW j \in Job, NEW t \in Time, Insert(j, t) PROVE TableTypeOK'
  BY <1>2, MetadataTypes, RetryAssumption, TimeAssumption DEF Insert, TableTypeOK, Job, JobStatus
<1>3. ASSUME StartPop(FALSE) \/ StartPop(TRUE) \/ UNCHANGED pop,
             UNCHANGED <<status, metadata, created, createdAt, acking, errFind, errUpdate, freeing>>
      PROVE  TableTypeOK'
  BY <1>3, StartPopFacts DEF TableTypeOK
<1>4. ASSUME NEW p \in PopCall, pop' = [pop EXCEPT ![p] = Idle],
             UNCHANGED <<status, metadata, created, createdAt, acking, errFind, errUpdate, freeing>>
      PROVE  TableTypeOK'
  BY <1>4 DEF TableTypeOK, Idle, PopState
<1>5. ASSUME NEW w \in Worker, NEW i \in DOMAIN held[w], Ack(w, i) \/ Error(w, i)
      PROVE  TableTypeOK'
  <2>1. held[w][i] \in Job
    BY <1>5, RemoveAtFacts DEF TypeOK
  <2>2. acking' \in [Job -> Nat] /\ errFind' \in [Job -> Nat]
    BY <1>5, <2>1 DEF Ack, Error, StartAck, StartError, TableTypeOK
  <2>3. pop' \in [PopCall -> PopState]
    BY <1>5, StartPopFacts DEF Ack, Error, PopOnAnswer
  <2>. QED
    BY <1>5, <2>2, <2>3 DEF Ack, Error, TableTypeOK
<1>6. ASSUME NEW w \in Worker, Clean(w) PROVE TableTypeOK'
  BY <1>6 DEF Clean, TableTypeOK, SchedTypeOK
<1>7. ASSUME NEW p \in PopCall, PopFind(p) PROVE TableTypeOK'
  <2>1. Ready \subseteq Job
    BY DEF Ready
  <2>2. pop' \in [PopCall -> PopState]
    <3>0. pop \in [PopCall -> PopState] /\ pop[p] \in PopState
      BY DEF TableTypeOK
    <3>1. CASE pop' = [pop EXCEPT ![p].step = "return"]
      <4>1. [pop[p] EXCEPT !.step = "return"] \in PopState
        BY <3>0 DEF PopState
      <4>. QED
        BY <3>0, <3>1, <4>1
    <3>2. ASSUME NEW j \in Job, pop' = [pop EXCEPT ![p].step = "update", ![p].job = j]
          PROVE  pop' \in [PopCall -> PopState]
      <4>1. [[pop[p] EXCEPT !.step = "update"] EXCEPT !.job = j] \in PopState
        BY <3>0 DEF PopState
      <4>. QED
        BY <3>0, <3>2, <4>1
    <3>. QED
      BY <1>7, <2>1, <3>1, <3>2 DEF PopFind
  <2>. QED
    BY <1>7, <2>2 DEF PopFind, TableTypeOK
<1>8. ASSUME NEW p \in PopCall, PopUpdate(p) PROVE TableTypeOK'
  <2>1. status' \in [Job -> JobStatus \cup {Absent}]
    BY <1>8, SetStatusType DEF PopUpdate, JobStatus
  <2>2. pop' \in [PopCall -> PopState]
    BY <1>8 DEF PopUpdate, TableTypeOK, PopState, Idle
  <2>. QED
    BY <1>8, <2>1, <2>2 DEF PopUpdate, TableTypeOK
<1>9. ASSUME NEW j \in Job, AckUpdate(j) PROVE TableTypeOK'
  <2>1. status' \in [Job -> JobStatus \cup {Absent}]
    BY <1>9, SetStatusType DEF AckUpdate, JobStatus
  <2>2. acking' \in [Job -> Nat]
    BY <1>9 DEF AckUpdate, TableTypeOK
  <2>. QED
    BY <1>9, <2>1, <2>2 DEF AckUpdate, TableTypeOK
<1>10. ASSUME NEW j \in Job, ErrorFind(j) PROVE TableTypeOK'
  BY <1>10 DEF ErrorFind, TableTypeOK
<1>11. ASSUME NEW j \in Job, ErrorUpdate(j) PROVE TableTypeOK'
  <2>1. status' \in [Job -> JobStatus \cup {Absent}]
    BY <1>11, SetStatusType DEF ErrorUpdate, JobStatus
  <2>2. metadata' \in [Job -> JobMetadata]
    BY <1>11, MetadataTypes DEF ErrorUpdate, TableTypeOK
  <2>. QED
    BY <1>11, <2>1, <2>2 DEF ErrorUpdate, TableTypeOK
<1>12. ASSUME NEW w \in Worker, FreeUpdate(w) \/ FreeFails(w) PROVE TableTypeOK'
  BY <1>12 DEF FreeUpdate, FreeFails, TableTypeOK, JobStatus
<1>13. ASSUME NEW k \in Time, CleanDb(k) PROVE TableTypeOK'
  BY <1>13 DEF CleanDb, TableTypeOK
<1>14. ASSUME NEW j \in Job, AckFails(j) \/ ErrorFails(j) PROVE TableTypeOK'
  BY <1>14 DEF AckFails, ErrorFails, TableTypeOK
<1>15. ASSUME NEW p \in PopCall, PopFails(p) PROVE TableTypeOK'
  BY <1>15, <1>4 DEF PopFails
<1>. QED
  BY <1>1, <1>2, <1>3, <1>4, <1>5, <1>6, <1>7, <1>8, <1>9, <1>10, <1>11, <1>12, <1>13,
     <1>14, <1>15
     DEF Next, Push, Connect, Notify, PoolTick, PopStep, ReturnNothing, ReturnJob, LoseAnswer,
         ClientCrash, FreeStep, AnswerStep, Cleanup, CallFails

\* The producer's part and the rest.
LEMMA TypeInductive ==
  ASSUME TypeOK, [Next]_vars
  PROVE  TypeOK'
<1>1. CASE UNCHANGED vars
  BY <1>1 DEF vars, schedVars, tableVars, TypeOK, SchedTypeOK, TableTypeOK, ProducerTypeOK
<1>2. CASE Next
  <2>1. SchedTypeOK' /\ TableTypeOK'
    BY <1>2, SchedTypeInductive, TableTypeInductive
  <2>2. record' \in ProducerRecord
    <3>1. UNCHANGED record \/ RecordPoll \/ UpdateTick \/ RecordToNoJob \/ RecordToJob
      BY <1>2
         DEF Next, Push, Connect, Notify, PoolTick, PopStep, ReturnNothing, ReturnJob, Ack, Error,
             LoseAnswer, ClientCrash, Clean, FreeStep, AnswerStep, Cleanup, CallFails
    <3>2. record \in ProducerRecord /\ MaxTicks \in Nat
      BY MaxTicksAssumption DEF TypeOK, ProducerTypeOK
    <3>3. CASE RecordPoll
      <4>1. NoRecord \in ProducerRecord
        BY <3>2 DEF NoRecord, ProducerRecord
      <4>2. FreshRecord \in ProducerRecord
        BY <4>1 DEF FreshRecord, ProducerRecord
      <4>. QED
        BY <3>2, <3>3, <4>2 DEF RecordPoll
    <3>4. CASE UpdateTick
      <4>1. record.remainingTicks # 0 => record.remainingTicks - 1 \in 0..MaxTicks
        BY <3>2 DEF ProducerRecord
      <4>2. CASE record.remainingTicks = 0
        BY <3>2, <3>4, <4>2 DEF UpdateTick, ProducerRecord
      <4>3. CASE record.remainingTicks # 0
        <5>. DEFINE t == record.remainingTicks - 1
        <5>1. t \in 0..MaxTicks /\ record' = [record EXCEPT !.remainingTicks = t]
          BY <3>4, <4>1, <4>3 DEF UpdateTick
        <5>. HIDE DEF t
        <5>. QED
          BY <3>2, <5>1 DEF ProducerRecord
      <4>. QED
        BY <4>2, <4>3
    <3>5. CASE RecordToNoJob
      <4>1. MaxTicks \in 0..MaxTicks
        BY <3>2
      <4>. QED
        BY <3>2, <3>5, <4>1 DEF RecordToNoJob, ProducerRecord
    <3>6. CASE RecordToJob
      BY <3>2, <3>6 DEF RecordToJob, ProducerRecord
    <3>. QED
      BY <3>1, <3>2, <3>3, <3>4, <3>5, <3>6
  <2>3. alive' \subseteq 1..connected'
    <3>1. \/ UNCHANGED <<alive, connected>>
          \/ \E w \in Worker : alive' = alive \ {w} /\ UNCHANGED connected
          \/ \E w \in Worker : alive' = alive \cup {w} /\ w = connected + 1 /\ connected' = w
      BY <1>2
         DEF Next, Push, Connect, Register, Notify, PoolTick, PopStep, ReturnNothing, ReturnJob,
             Dispatch, Ack, Error, FreeSlot, LoseAnswer, ClientCrash, Clean, Unregister, FreeStep,
             AnswerStep, Cleanup, CallFails, schedVars, clientVars
    <3>2. alive \subseteq 1..connected /\ connected \in Nat
      BY DEF TypeOK, SchedTypeOK
    <3>3. 1..connected \subseteq 1..(connected + 1) /\ connected + 1 \in 1..(connected + 1)
      BY <3>2
    <3>. QED
      BY <3>1, <3>2, <3>3
  <2>4. held' \in [Worker -> Seq(Job)]
    <3>1. ASSUME NEW p \in PopCall, ReturnJob(p) PROVE held' \in [Worker -> Seq(Job)]
      <4>1. pop[p].job \in Job
        BY <3>1 DEF TypeOK, TableTypeOK, PopState, ReturnJob
      <4>2. NextWorker \in alive => NextWorker \in Worker
        BY MaxWorkersAssumption DEF TypeOK, SchedTypeOK, Worker
      <4>3. ASSUME NEW w \in Worker PROVE Append(held[w], pop[p].job) \in Seq(Job)
        BY <4>1, AppendProperties DEF TypeOK
      <4>. QED
        BY <3>1, <4>2, <4>3 DEF ReturnJob, TypeOK
    <3>2. ASSUME NEW w \in Worker, NEW i \in DOMAIN held[w],
                 held' = [held EXCEPT ![w] = RemoveAt(@, i)]
          PROVE  held' \in [Worker -> Seq(Job)]
      BY <3>2, RemoveAtFacts DEF TypeOK
    <3>3. CASE UNCHANGED held
      BY <3>3 DEF TypeOK
    <3>. QED
      BY <1>2, <3>1, <3>2, <3>3
         DEF Next, Push, Connect, Notify, PoolTick, PopStep, ReturnNothing, Ack, Error,
             LoseAnswer, ClientCrash, Clean, FreeStep, AnswerStep, Cleanup, CallFails, clientVars
  <2>5. notes' \in Nat
    <3>1. notes' = notes + 1 \/ (notes > 0 /\ notes' = notes - 1) \/ UNCHANGED notes
      BY <1>2
         DEF Next, Push, Connect, Notify, PoolTick, PopStep, ReturnNothing, ReturnJob, Ack, Error,
             LoseAnswer, ClientCrash, Clean, FreeStep, AnswerStep, Cleanup, CallFails
    <3>. QED
      BY <3>1 DEF TypeOK
  <2>6. orphaned' \subseteq Job
    <3>1. ASSUME NEW p \in PopCall, ReturnJob(p) PROVE orphaned' \subseteq Job
      BY <3>1 DEF ReturnJob, TypeOK, TableTypeOK, PopState
    <3>2. ASSUME NEW p \in PopCall, PopStep(p) PROVE orphaned' \subseteq Job
      BY <3>2 DEF PopStep, TypeOK
    <3>3. CASE CallFails
      BY <3>3 DEF CallFails, TypeOK, TableTypeOK
    <3>. QED
      BY <1>2, <3>1, <3>2, <3>3
         DEF TypeOK, Next, Push, Connect, Notify, PoolTick, ReturnNothing, Ack, Error,
             LoseAnswer, ClientCrash, Clean, FreeStep, AnswerStep, Cleanup
  <2>. QED
    BY <2>1, <2>2, <2>3, <2>4, <2>5, <2>6 DEF TypeOK, ProducerTypeOK
<1>. QED
  BY <1>1, <1>2

\* The server starts well typed.
LEMMA TypeInit == Init => TypeOK
<1>. SUFFICES ASSUME Init PROVE TypeOK
  OBVIOUS
<1>1. SchedTypeOK
  BY MaxWorkersAssumption DEF Init, SchedInit, SchedTypeOK
<1>2. TableTypeOK
  <2>1. NoRetry \in RetryEntry
    BY DEF NoRetry, RetryEntry
  <2>2. metadata \in [Job -> JobMetadata]
    BY <2>1, MetadataTypes DEF Init, TableInit
  <2>. QED
    BY <2>2, MaxJobsAssumption DEF Init, TableInit, TableTypeOK, Idle, PopState
<1>3. ProducerTypeOK
  BY MaxTicksAssumption DEF Init, ProducerInit, ProducerTypeOK, ProducerRecord, NoRecord
<1>. QED
  BY <1>1, <1>2, <1>3 DEF Init, SchedInit, TypeOK

\* The state of the server, the table and the clients is what its types say.
THEOREM TypeCorrect == Spec => []TypeOK
BY TypeInit, TypeInductive, PTL DEF Spec
-----------------------------------------------------------------------------
(***************************************************************************)
(* Back-pressure: the deliveries a worker has not answered are covered by  *)
(* the slots its instance counts, which the scan keeps within bounds.      *)
(***************************************************************************)
Slots == FreshWorkers /\ SlotsCoverDeliveries /\ Backpressure

\* Nobody is connected at first.
LEMMA SlotsInit == Init => Slots
<1>. SUFFICES ASSUME Init PROVE Slots
  OBVIOUS
<1>1. \A w \in Worker : load[w] = 0 /\ held[w] = <<>> /\ freeing[w] = {} /\ Concurrency[w] \in Nat
  BY ConcurrencyAssumption DEF Init, SchedInit, TableInit
<1>2. registry = {}
  BY DEF Init, SchedInit
<1>3. Len(<<>>) = 0
  OBVIOUS
<1>. QED
  BY <1>1, <1>2, <1>3 DEF Slots, FreshWorkers, SlotsCoverDeliveries, Backpressure

\* One step keeps every delivery covered by a slot.
LEMMA SlotsInductive ==
  ASSUME TypeOK, Slots, [Next]_vars
  PROVE  Slots'
<1>. USE DEF Slots, FreshWorkers, SlotsCoverDeliveries, Backpressure
<1>1. /\ connected \in Nat /\ connected \in 0..MaxWorkers /\ registry \subseteq 1..connected
      /\ registry \subseteq Worker /\ \A w \in registry : w <= connected
      /\ load \in [Worker -> Nat]
      /\ held \in [Worker -> Seq(Job)] /\ freeing \in [Worker -> SUBSET Job]
      /\ Concurrency \in [Worker -> Nat]
  <2>1. SchedTypeOK /\ TableTypeOK /\ held \in [Worker -> Seq(Job)]
    BY DEF TypeOK
  <2>2. connected \in Nat /\ connected <= MaxWorkers
    BY <2>1, MaxWorkersAssumption DEF SchedTypeOK
  <2>3. registry \subseteq Worker /\ \A w \in registry : w <= connected
    BY <2>1, <2>2, MaxWorkersAssumption DEF SchedTypeOK, Worker
  <2>. QED
    BY <2>1, <2>2, <2>3, ConcurrencyAssumption DEF SchedTypeOK, TableTypeOK
<1>2. \A w \in Worker : Len(held[w]) \in Nat
  BY <1>1, LenProperties
<1>3. ASSUME UNCHANGED <<connected, registry, load, held>>,
             freeing' = freeing \/ \E w \in Worker : freeing' = [freeing EXCEPT ![w] = {}]
      PROVE  Slots'
  BY <1>1, <1>3
<1>4. ASSUME NEW w \in Worker, NEW known \in BOOLEAN, Connect(w, known) PROVE Slots'
  <2>1. /\ w = connected + 1 /\ connected' = w /\ registry' = registry \cup {w}
        /\ UNCHANGED <<load, held, freeing>>
    BY <1>4 DEF Connect, Register, tableVars
  <2>2. load[w] = 0 /\ Len(held[w]) = 0 /\ Concurrency[w] \in Nat
    BY <1>1, <2>1
  <2>. QED
    BY <1>1, <2>1, <2>2
<1>5. ASSUME NEW p \in PopCall, ReturnJob(p) PROVE Slots'
  <2>. DEFINE w == NextWorker
  <2>1. UNCHANGED <<connected, registry, freeing>>
    BY <1>5 DEF ReturnJob, Dispatch
  <2>2. pop[p].job \in Job
    BY <1>5 DEF TypeOK, TableTypeOK, PopState, ReturnJob
  <2>3. CASE w = NoWorker
    <3>1. w \notin alive
      BY <2>3 DEF TypeOK, NoWorker, SchedTypeOK
    <3>. QED
      BY <1>5, <2>1, <2>3, <3>1 DEF ReturnJob, Dispatch
  <2>4. CASE w # NoWorker
    <3>1. w \in registry /\ w \in Worker /\ load[w] < Concurrency[w]
      BY <2>4, NextWorkerIsAble, NextWorkerType DEF AvailableWorkers, CanWork, TypeOK
    <3>2. load' = [load EXCEPT ![w] = @ + 1]
      BY <1>5, <2>4 DEF ReturnJob, Dispatch
    <3>3. held' = held \/ held' = [held EXCEPT ![w] = Append(@, pop[p].job)]
      BY <1>5 DEF ReturnJob
    <3>4. Len(Append(held[w], pop[p].job)) = Len(held[w]) + 1
      BY <1>1, <2>2, <3>1, AppendProperties
    <3>5. Len(held'[w]) <= Len(held[w]) + 1 /\ \A v \in Worker \ {w} : held'[v] = held[v]
      BY <1>1, <1>2, <3>1, <3>3, <3>4
    <3>6. Len(held[w]) <= load[w] /\ load'[w] = load[w] + 1
      BY <1>1, <3>1, <3>2
    <3>7. Len(held'[w]) <= load'[w] /\ load'[w] <= Concurrency[w] /\ Len(held'[w]) \in Nat
      BY <1>1, <1>2, <3>1, <3>3, <3>4, <3>5, <3>6
    <3>8. \A v \in Worker \ {w} : load'[v] = load[v]
      BY <1>1, <3>2
    <3>. HIDE DEF w
    <3>9. FreshWorkers'
      BY <1>1, <2>1, <3>1, <3>5, <3>8
    <3>10. SlotsCoverDeliveries'
      BY <1>1, <1>2, <2>1, <3>1, <3>5, <3>7, <3>8
    <3>11. Backpressure'
      <4>1. Len(held'[w]) <= Concurrency[w]
        BY <1>1, <3>1, <3>5, <3>6, <3>7
      <4>. QED
        BY <3>5, <4>1
    <3>. QED
      BY <3>9, <3>10, <3>11
  <2>. QED
    BY <2>3, <2>4
<1>6. ASSUME NEW w \in Worker, NEW i \in DOMAIN held[w],
             held' = [held EXCEPT ![w] = RemoveAt(@, i)],
             UNCHANGED <<connected, registry, freeing>>,
             load' = load \/ (w \in registry => load'[w] >= load[w] - 1 /\ load'[w] <= load[w]),
             load' \in [Worker -> Nat],
             \A v \in Worker \ {w} : load'[v] = load[v]
      PROVE  Slots'
  <2>1. Len(held'[w]) = Len(held[w]) - 1
    BY <1>1, <1>6, RemoveAtFacts
  <2>2. \A v \in Worker \ {w} : held'[v] = held[v]
    BY <1>1, <1>6
  <2>3. w <= connected
    BY <1>1, <1>6 DEF Worker
  <2>. QED
    BY <1>1, <1>2, <1>6, <2>1, <2>2, <2>3 DEF Worker
<1>7. ASSUME NEW w \in Worker, NEW i \in DOMAIN held[w], Ack(w, i) \/ Error(w, i)
      PROVE  Slots'
  <2>1. /\ held' = [held EXCEPT ![w] = RemoveAt(@, i)]
        /\ UNCHANGED <<connected, registry, freeing>>
        /\ FreeSlot(w, held[w][i])
    BY <1>7 DEF Ack, Error, FreeSlot
  <2>2. \/ load' = load
        \/ load' = [load EXCEPT ![w] = IF @ > 0 THEN @ - 1 ELSE 0]
    BY <2>1 DEF FreeSlot
  <2>3. /\ load' \in [Worker -> Nat]
        /\ load'[w] >= load[w] - 1 /\ load'[w] <= load[w]
        /\ \A v \in Worker \ {w} : load'[v] = load[v]
    BY <1>1, <2>2
  <2>. QED
    BY <1>6, <2>1, <2>3
<1>8. ASSUME NEW w \in Worker, NEW i \in DOMAIN held[w], LoseAnswer(w, i) PROVE Slots'
  BY <1>1, <1>6, <1>8 DEF LoseAnswer, schedVars, tableVars
<1>9. ASSUME NEW w \in Worker, Clean(w) PROVE Slots'
  <2>1. /\ w \in registry
        /\ registry' = registry \ {w}
        /\ load' = [load EXCEPT ![w] = 0]
        /\ freeing' = [freeing EXCEPT ![w] = executing[w]]
        /\ UNCHANGED <<connected, held>>
    BY <1>9 DEF Clean, Unregister, clientVars
  <2>2. w <= connected
    BY <1>1, <2>1
  <2>3. \A v \in Worker \ {w} : load'[v] = load[v] /\ freeing'[v] = freeing[v]
    BY <1>1, <2>1
  <2>4. FreshWorkers'
    BY <1>1, <2>1, <2>2, <2>3
  <2>5. SlotsCoverDeliveries' /\ Backpressure'
    BY <1>1, <2>1, <2>3
  <2>. QED
    BY <2>4, <2>5
<1>10. CASE UNCHANGED vars
  BY <1>3, <1>10 DEF vars, schedVars, tableVars
<1>. QED
  BY <1>3, <1>4, <1>5, <1>7, <1>8, <1>9, <1>10
     DEF Next, Push, Insert, Notify, PoolTick, PopStep, PopFind, PopUpdate, ReturnNothing,
         ClientCrash, FreeStep, FreeUpdate, AnswerStep, AckUpdate, ErrorFind, ErrorUpdate,
         Cleanup, CleanDb, CallFails, PopFails, AckFails, ErrorFails, FreeFails,
         schedVars, tableVars, clientVars

\* No worker ever has more unanswered deliveries than the concurrency it asked for.
THEOREM BackpressureHolds == Spec => []Backpressure
<1>1. Init => Slots
  BY SlotsInit
<1>2. TypeOK /\ Slots /\ [Next]_vars => Slots'
  BY SlotsInductive
<1>3. Slots => Backpressure
  BY DEF Slots
<1>. QED
  BY <1>1, <1>2, <1>3, TypeCorrect, PTL DEF Spec
\* While no answer is lost, one step keeps the load of a live worker exact: what takes a
\* slot delivers, and what frees one answers.
LEMMA SlotsExactInductive ==
  ASSUME TypeOK, FreshWorkers, SlotsExact, "lose" \notin Faults, [Next]_vars
  PROVE  SlotsExact'
<1>. USE DEF SlotsExact
<1>1. /\ connected \in Nat /\ registry \subseteq Worker
      /\ load \in [Worker -> Nat] /\ held \in [Worker -> Seq(Job)]
  BY MaxWorkersAssumption DEF TypeOK, SchedTypeOK, Worker
<1>2. ASSUME UNCHANGED <<load, held>>, registry' \cap alive' \subseteq registry \cap alive
      PROVE  SlotsExact'
  BY <1>2
<1>3. ASSUME NEW w \in Worker, NEW known \in BOOLEAN, Connect(w, known) PROVE SlotsExact'
  <2>1. /\ w = connected + 1 /\ registry' = registry \cup {w} /\ alive' = alive \cup {w}
        /\ UNCHANGED <<load, held>>
    BY <1>3 DEF Connect, Register
  <2>2. load[w] = 0 /\ held[w] = <<>> /\ Len(<<>>) = 0
    BY <1>1, <2>1 DEF FreshWorkers
  <2>3. \A v \in registry \cup alive : v <= connected
    BY <1>1 DEF TypeOK, SchedTypeOK
  <2>4. registry' \cap alive' = (registry \cap alive) \cup {w}
    BY <1>1, <2>1, <2>3
  <2>. QED
    BY <2>1, <2>2, <2>4
<1>4. ASSUME NEW p \in PopCall, ReturnJob(p) PROVE SlotsExact'
  <2>. DEFINE w == NextWorker
  <2>1. UNCHANGED <<registry, alive>>
    BY <1>4 DEF ReturnJob, Dispatch
  <2>2. pop[p].job \in Job
    BY <1>4 DEF TypeOK, TableTypeOK, PopState, ReturnJob
  <2>3. CASE w = NoWorker
    <3>1. w \notin alive
      BY <2>3 DEF TypeOK, NoWorker, SchedTypeOK
    <3>. QED
      BY <1>2, <1>4, <2>1, <2>3, <3>1 DEF ReturnJob, Dispatch
  <2>4. CASE w # NoWorker
    <3>1. w \in Worker
      BY <2>4, NextWorkerType DEF TypeOK
    <3>2. load' = [load EXCEPT ![w] = @ + 1]
      BY <1>4, <2>4 DEF ReturnJob, Dispatch
    <3>3. held' = IF w \in alive THEN [held EXCEPT ![w] = Append(@, pop[p].job)] ELSE held
      BY <1>4 DEF ReturnJob
    <3>4. Len(Append(held[w], pop[p].job)) = Len(held[w]) + 1
      BY <1>1, <2>2, <3>1, AppendProperties
    <3>. HIDE DEF w
    <3>. QED
      BY <1>1, <2>1, <3>1, <3>2, <3>3, <3>4
  <2>. QED
    BY <2>3, <2>4
<1>5. ASSUME NEW w \in Worker, NEW i \in DOMAIN held[w], Ack(w, i) \/ Error(w, i)
      PROVE  SlotsExact'
  <2>1. /\ held' = [held EXCEPT ![w] = RemoveAt(@, i)]
        /\ UNCHANGED <<registry, alive>>
        /\ FreeSlot(w, held[w][i])
    BY <1>5 DEF Ack, Error, FreeSlot
  <2>2. load' = IF w \in registry THEN [load EXCEPT ![w] = IF @ > 0 THEN @ - 1 ELSE 0] ELSE load
    BY <2>1 DEF FreeSlot
  <2>3. Len(RemoveAt(held[w], i)) = Len(held[w]) - 1 /\ Len(held[w]) > 0
    BY <1>1, RemoveAtFacts, LenProperties
  <2>. QED
    BY <1>1, <2>1, <2>2, <2>3
<1>6. ASSUME NEW w \in Worker, Clean(w) PROVE SlotsExact'
  <2>1. /\ registry' = registry \ {w} /\ load' = [load EXCEPT ![w] = 0]
        /\ UNCHANGED <<held, alive>>
    BY <1>6 DEF Clean, Unregister, clientVars
  <2>. QED
    BY <1>1, <2>1
<1>7. CASE UNCHANGED vars
  BY <1>2, <1>7 DEF vars, schedVars, clientVars
<1>. QED
  BY <1>2, <1>3, <1>4, <1>5, <1>6, <1>7
     DEF Next, Push, Notify, PoolTick, PopStep, ReturnNothing, ClientCrash, FreeStep,
         AnswerStep, Cleanup, CallFails, LoseAnswer, schedVars, clientVars

\* While no answer is lost, no slot of a live worker leaks and none is freed twice.
THEOREM SlotsAreExact == Spec => []SlotsExact
<1>1. Init => SlotsExact
  BY DEF Init, SchedInit, SlotsExact
<1>2. TypeOK /\ Slots /\ SlotsExact /\ [Next]_vars => SlotsExact'
  <2>1. CASE "lose" \in Faults
    BY <2>1 DEF SlotsExact
  <2>2. CASE "lose" \notin Faults
    BY <2>2, SlotsExactInductive DEF Slots
  <2>. QED
    BY <2>1, <2>2
<1>3. TypeOK /\ Slots /\ [Next]_vars => Slots'
  BY SlotsInductive
<1>. QED
  BY <1>1, <1>2, <1>3, SlotsInit, TypeCorrect, PTL DEF Spec
-----------------------------------------------------------------------------
(***************************************************************************)
(* Refinement: what the clients see is a window of deliveries.             *)
(***************************************************************************)
Outstanding == [w \in Worker |-> Len(held[w])]

\* A step that changes neither the registry nor a delivery is a stutter of the window.
LEMMA WindowStutter ==
  ASSUME UNCHANGED <<registry, held>>
  PROVE  UNCHANGED Window!vars
BY DEF Window!vars

\* A delivery that leaves held was outstanding, and settles.
LEMMA WindowSettles ==
  ASSUME TypeOK, NEW w \in Worker, NEW i \in DOMAIN held[w],
         held' = [held EXCEPT ![w] = RemoveAt(@, i)], UNCHANGED registry
  PROVE  Window!Settle(w)
<1>1. held \in [Worker -> Seq(Job)]
  BY DEF TypeOK
<1>2. held[w] \in Seq(Job) /\ Len(held[w]) \in Nat /\ i \in 1..Len(held[w])
  BY <1>1, LenProperties
<1>3. Len(held'[w]) = Len(held[w]) - 1 /\ \A v \in Worker \ {w} : held'[v] = held[v]
  BY <1>1, <1>2, RemoveAtFacts
<1>4. Outstanding' = [Outstanding EXCEPT ![w] = @ - 1]
  BY <1>1, <1>2, <1>3, Zenon DEF Outstanding
<1>. QED
  BY <1>2, <1>4 DEF Window!Settle, Outstanding

\* A job that is returned reaches a worker with room, or changes no window.
LEMMA WindowDelivers ==
  ASSUME TypeOK, Slots, NEW p \in PopCall, ReturnJob(p)
  PROVE  (\E w \in Worker : Window!Deliver(w)) \/ UNCHANGED Window!vars
<1>d. PICK w : w = NextWorker
  OBVIOUS
<1>1. registry' = registry
  BY DEF ReturnJob, Dispatch
<1>2. CASE w \notin alive
  <2>1. held' = held
    BY <1>d, <1>2 DEF ReturnJob
  <2>. QED
    BY <1>1, <2>1, WindowStutter
<1>3. CASE w \in alive
  <2>1. w # NoWorker
    BY <1>3 DEF TypeOK, NoWorker, SchedTypeOK
  <2>2. w \in registry /\ w \in Worker /\ load[w] < Concurrency[w]
    BY <1>d, <2>1, NextWorkerIsAble, NextWorkerType DEF AvailableWorkers, CanWork, TypeOK
  <2>3. held' = [held EXCEPT ![w] = Append(@, pop[p].job)] /\ pop[p].job \in Job
    BY <1>d, <1>3 DEF ReturnJob, TypeOK, TableTypeOK, PopState
  <2>4. held \in [Worker -> Seq(Job)] /\ held[w] \in Seq(Job) /\ load[w] \in Nat
        /\ Len(held[w]) \in Nat /\ Concurrency[w] \in Nat
    BY <2>2, LenProperties, ConcurrencyAssumption DEF TypeOK, SchedTypeOK
  <2>5. Len(held'[w]) = Len(held[w]) + 1 /\ \A v \in Worker \ {w} : held'[v] = held[v]
    BY <2>2, <2>3, <2>4, AppendProperties
  <2>6. Len(held[w]) < Concurrency[w]
    BY <2>2, <2>4 DEF Slots, SlotsCoverDeliveries
  <2>7. Outstanding' = [Outstanding EXCEPT ![w] = @ + 1]
    BY <2>2, <2>5 DEF Outstanding
  <2>8. Window!Deliver(w)
    BY <1>1, <2>2, <2>6, <2>7 DEF Window!Deliver, Outstanding
  <2>. QED
    BY <2>2, <2>8
<1>. QED
  BY <1>2, <1>3

\* Every step of the server and its clients is a step of the window or none.
LEMMA WindowStep ==
  ASSUME TypeOK, Slots, [Next]_vars
  PROVE  [Window!Next]_(Window!vars)
<1>1. CASE \E w \in Worker, known \in BOOLEAN : Connect(w, known)
  <2>1. PICK w \in Worker : \E known \in BOOLEAN : Connect(w, known)
    BY <1>1
  <2>2. /\ w = connected + 1 /\ registry' = registry \cup {w} /\ held' = held
    BY <2>1 DEF Connect, Register
  <2>3. connected \in Nat /\ registry \subseteq 1..connected
    BY MaxWorkersAssumption DEF TypeOK, SchedTypeOK
  <2>4. w \notin registry /\ w > connected
    BY <2>2, <2>3
  <2>5. Len(held[w]) = 0
    BY <2>4 DEF Slots, FreshWorkers
  <2>6. Window!Join(w)
    BY <2>2, <2>4, <2>5 DEF Window!Join
  <2>. QED
    BY <2>6 DEF Window!Next
<1>2. CASE \E p \in PopCall : ReturnJob(p)
  BY <1>2, WindowDelivers DEF Window!Next
<1>3. CASE \E w \in Worker : \E i \in DOMAIN held[w] : Ack(w, i) \/ Error(w, i) \/ LoseAnswer(w, i)
  <2>0. PICK w \in Worker : \E i \in DOMAIN held[w] : Ack(w, i) \/ Error(w, i) \/ LoseAnswer(w, i)
    BY <1>3
  <2>1. PICK i \in DOMAIN held[w] : Ack(w, i) \/ Error(w, i) \/ LoseAnswer(w, i)
    BY <2>0
  <2>2. held' = [held EXCEPT ![w] = RemoveAt(@, i)] /\ UNCHANGED registry
    BY <2>1 DEF Ack, Error, LoseAnswer, FreeSlot, schedVars
  <2>. QED
    BY <2>2, WindowSettles DEF Window!Next
<1>4. CASE \E w \in Worker : Clean(w)
  <2>1. PICK w \in Worker : Clean(w)
    BY <1>4
  <2>2. Window!Leave(w)
    BY <2>1 DEF Clean, Unregister, clientVars, Window!Leave
  <2>. QED
    BY <2>2 DEF Window!Next
<1>5. ASSUME UNCHANGED <<registry, held>> PROVE [Window!Next]_(Window!vars)
  BY <1>5, WindowStutter
<1>. QED
  BY <1>1, <1>2, <1>3, <1>4, <1>5
     DEF Next, vars, Push, Insert, Notify, PoolTick, PopStep, ReturnNothing, ClientCrash, FreeStep,
         AnswerStep, Cleanup, CallFails, schedVars, clientVars

\* The delivery of jobs implements the window of deliveries, whatever fails.
THEOREM DeliveryIsWindowed == Spec => IsDeliveryWindow
<1>1. Init => Window!Init
  BY DEF Init, SchedInit, Window!Init
<1>2. TypeOK /\ Slots /\ [Next]_vars => [Window!Next]_(Window!vars)
  BY WindowStep
<1>3. TypeOK /\ Slots /\ [Next]_vars => Slots'
  BY SlotsInductive
<1>. QED
  BY <1>1, <1>2, <1>3, SlotsInit, TypeCorrect, PTL DEF Spec, Window!Spec, IsDeliveryWindow
-----------------------------------------------------------------------------
(***************************************************************************)
(* Accounting: every row that is Executing is owed by someone.             *)
(***************************************************************************)
Ledger == FreedOnce /\ UpdateNamesRow /\ ExecutingAccounted

\* There are no rows at first.
LEMMA LedgerInit == Init => Ledger
BY DEF Init, SchedInit, TableInit, Idle, Ledger, FreedOnce, UpdateNamesRow, ExecutingAccounted,
       Absent

\* The snapshot of a cleaner is taken once.
LEMMA FreedOnceInductive ==
  ASSUME TypeOK, FreshWorkers, FreedOnce, Next
  PROVE  FreedOnce'
<1>1. /\ connected \in Nat /\ registry \subseteq Worker
      /\ executing \in [Worker -> SUBSET Job] /\ freeing \in [Worker -> SUBSET Job]
  BY MaxWorkersAssumption DEF TypeOK, SchedTypeOK, TableTypeOK, Worker
<1>2. ASSUME UNCHANGED registry,
             freeing' = freeing \/ \E w \in Worker : freeing' = [freeing EXCEPT ![w] = {}]
      PROVE  FreedOnce'
  BY <1>1, <1>2 DEF FreedOnce
<1>3. ASSUME NEW w \in Worker, NEW known \in BOOLEAN, Connect(w, known) PROVE FreedOnce'
  <2>1. w > connected /\ registry' = registry \cup {w} /\ freeing' = freeing
    BY <1>1, <1>3 DEF Connect, Register, tableVars
  <2>. QED
    BY <2>1 DEF FreedOnce, FreshWorkers
<1>4. ASSUME NEW w \in Worker, Clean(w) PROVE FreedOnce'
  <2>1. /\ registry' = registry \ {w}
        /\ freeing' = [freeing EXCEPT ![w] = executing[w]]
    BY <1>4 DEF Clean, Unregister
  <2>. QED
    BY <1>1, <2>1 DEF FreedOnce
<1>. QED
  BY <1>2, <1>3, <1>4
     DEF Next, Push, Insert, Notify, PoolTick, PopStep, PopFind, PopUpdate, ReturnNothing,
         ReturnJob, Dispatch, Ack, Error, FreeSlot, LoseAnswer, ClientCrash, FreeStep, FreeUpdate,
         AnswerStep, AckUpdate, ErrorFind, ErrorUpdate, Cleanup, CleanDb, CallFails, PopFails,
         AckFails, ErrorFails, FreeFails, schedVars, tableVars, clientVars

\* What each step may do to the calls of pop.
LEMMA PopSteps ==
  ASSUME TypeOK, Next, NEW p \in PopCall
  PROVE  \/ pop'[p] = pop[p]
         \/ pop[p].step = "idle" /\ pop'[p].step = "find"
         \/ PopFind(p)
         \/ PopUpdate(p)
         \/ pop'[p] = Idle
<1>1. pop \in [PopCall -> PopState] /\ TableTypeOK
  BY DEF TypeOK, TableTypeOK
<1>2. CASE StartPop(FALSE) \/ StartPop(TRUE) \/ UNCHANGED pop
  BY <1>1, <1>2, StartPopFacts
<1>3. ASSUME NEW q \in PopCall, pop' = [pop EXCEPT ![q] = Idle]
      PROVE  pop'[p] = pop[p] \/ pop'[p] = Idle
  BY <1>1, <1>3
<1>4. ASSUME NEW q \in PopCall, PopFind(q) PROVE q = p \/ pop'[p] = pop[p]
  BY <1>1, <1>4 DEF PopFind
<1>5. ASSUME NEW q \in PopCall, PopUpdate(q) PROVE q = p \/ pop'[p] = pop[p]
  BY <1>1, <1>5 DEF PopUpdate
<1>. QED
  BY <1>2, <1>3, <1>4, <1>5
     DEF Next, Push, Insert, Connect, Notify, PoolTick, PopStep, ReturnNothing, ReturnJob, Ack,
         Error, PopOnAnswer, LoseAnswer, ClientCrash, Clean, FreeStep, FreeUpdate, AnswerStep,
         AckUpdate, ErrorFind, ErrorUpdate, Cleanup, CleanDb, CallFails, PopFails, AckFails,
         ErrorFails, FreeFails, tableVars

\* Only a findFirst that found a row leads to an update.
LEMMA UpdateNamesRowInductive ==
  ASSUME TypeOK, UpdateNamesRow, Next
  PROVE  UpdateNamesRow'
<1>. SUFFICES ASSUME NEW p \in PopCall, pop'[p].step = "update"
              PROVE  pop'[p].job \in Job
  BY DEF UpdateNamesRow
<1>1. pop \in [PopCall -> PopState]
  BY DEF TypeOK, TableTypeOK
<1>2. CASE pop'[p] = pop[p]
  BY <1>2 DEF UpdateNamesRow
<1>3. CASE PopFind(p)
  <2>1. Ready \subseteq Job
    BY DEF Ready
  <2>2. CASE pop' = [pop EXCEPT ![p].step = "return"]
    BY <1>1, <2>2
  <2>3. CASE \E j \in Ready : pop' = [pop EXCEPT ![p].step = "update", ![p].job = j]
    BY <1>1, <2>1, <2>3 DEF PopState
  <2>. QED
    BY <1>3, <2>2, <2>3 DEF PopFind
<1>4. CASE PopUpdate(p)
  <2>1. pop'[p].step = "return" \/ pop'[p] = Idle
    BY <1>1, <1>4 DEF PopUpdate, PopState
  <2>. QED
    BY <2>1 DEF Idle
<1>5. CASE pop'[p] = Idle
  BY <1>5 DEF Idle
<1>. QED
  BY <1>2, <1>3, <1>4, <1>5, PopSteps

\* What a step may do to the row of a job and to those who answer for it.  Cases are
\* named for the job j that is Executing after the step.
LEMMA ExecutingAccountedInductive ==
  ASSUME TypeOK, FreedOnce, UpdateNamesRow, ExecutingAccounted, Next
  PROVE  ExecutingAccounted'
<1>. SUFFICES ASSUME NEW j \in Job, status'[j] = "Executing"
              PROVE  Owed(j)' \/ j \in orphaned'
  BY DEF ExecutingAccounted
<1>. DEFINE calls == acking[j] + errFind[j] + errUpdate[j]
<1>t. /\ TableTypeOK /\ pop \in [PopCall -> PopState] /\ status \in [Job -> JobStatus \cup {Absent}]
      /\ acking \in [Job -> Nat] /\ errFind \in [Job -> Nat] /\ errUpdate \in [Job -> Nat]
      /\ freeing \in [Worker -> SUBSET Job] /\ executing \in [Worker -> SUBSET Job]
      /\ registry \subseteq Worker /\ load \in [Worker -> Nat]
  <2>1. SchedTypeOK /\ TableTypeOK
    BY DEF TypeOK
  <2>2. /\ executing \in [Worker -> SUBSET Job] /\ load \in [Worker -> Nat]
        /\ registry \subseteq Worker
    BY <2>1, MaxWorkersAssumption DEF SchedTypeOK, Worker
  <2>. QED
    BY <2>1, <2>2 DEF TableTypeOK
<1>k. ASSUME status[j] = "Executing",
             \A p \in PopCall : pop[p].step = "return" /\ pop[p].job = j => pop'[p] = pop[p],
             \A w \in registry : j \in executing[w] => w \in registry' /\ j \in executing'[w],
             \A w \in Worker : j \in freeing[w] => j \in freeing'[w],
             calls' >= calls, calls \in Int, calls' \in Int,
             j \in orphaned => j \in orphaned'
      PROVE  Owed(j)' \/ j \in orphaned'
  <2>1. Owed(j) \/ j \in orphaned
    BY <1>k DEF ExecutingAccounted
  <2>2. CASE \E p \in PopCall : pop[p].step = "return" /\ pop[p].job = j
    BY <1>k, <2>2 DEF Owed
  <2>3. CASE \E w \in registry : j \in executing[w]
    BY <1>k, <2>3 DEF Owed
  <2>4. CASE \E w \in Worker : j \in freeing[w]
    BY <1>k, <2>4 DEF Owed
  <2>5. CASE calls > 0
    <3>1. calls' > 0
      BY <1>k, <2>5
    <3>. QED
      BY <3>1 DEF Owed
  <2>. QED
    BY <1>k, <2>1, <2>2, <2>3, <2>4, <2>5 DEF Owed
<1>n. calls \in Nat
  BY <1>t
<1>. HIDE DEF calls
\* The steps that leave the table, the instances and the calls of ack and error alone.
<1>1. ASSUME status'[j] = status[j],
             \A p \in PopCall : pop[p].step = "return" /\ pop[p].job = j => pop'[p] = pop[p],
             UNCHANGED <<executing, acking, errFind, errUpdate, freeing>>,
             registry \subseteq registry',
             j \in orphaned => j \in orphaned'
      PROVE  Owed(j)' \/ j \in orphaned'
  <2>1. calls' = calls
    BY <1>1 DEF calls
  <2>. QED
    BY <1>k, <1>n, <1>1, <2>1
<1>2. ASSUME NEW k \in Job, Push(k) PROVE Owed(j)' \/ j \in orphaned'
  <2>1. k # j /\ status'[j] = status[j]
    BY <1>t, <1>2 DEF Push, Insert
  <2>. QED
    BY <1>1, <1>2, <2>1 DEF Push, Insert, schedVars
<1>3. ASSUME NEW w \in Worker, NEW known \in BOOLEAN, Connect(w, known)
      PROVE  Owed(j)' \/ j \in orphaned'
  BY <1>1, <1>3 DEF Connect, Register, tableVars
<1>4. CASE Notify \/ PoolTick
  <2>1. StartPop(FALSE) \/ StartPop(TRUE) \/ UNCHANGED pop
    BY <1>4 DEF Notify, PoolTick
  <2>2. \A p \in PopCall : pop[p].step = "return" => pop'[p] = pop[p]
    BY <1>t, <2>1, StartPopFacts
  <2>. QED
    BY <1>1, <1>4, <2>2 DEF Notify, PoolTick, schedVars
<1>5. ASSUME NEW p \in PopCall, ReturnNothing(p) PROVE Owed(j)' \/ j \in orphaned'
  <2>1. pop[p].job # j
    BY <1>5 DEF ReturnNothing, NoJob, Job
  <2>2. \A q \in PopCall : pop[q].job = j => pop'[q] = pop[q]
    BY <1>t, <1>5, <2>1 DEF ReturnNothing
  <2>. QED
    BY <1>1, <1>5, <2>2 DEF ReturnNothing, schedVars
<1>6. ASSUME NEW p \in PopCall, ReturnJob(p) PROVE Owed(j)' \/ j \in orphaned'
  <2>1. /\ UNCHANGED <<registry, status, acking, errFind, errUpdate, freeing>>
        /\ \A w \in Worker : executing[w] \subseteq executing'[w]
    <3>1. \/ executing' = executing
          \/ executing' = [executing EXCEPT ![NextWorker] = @ \cup {pop[p].job}]
      BY <1>6 DEF ReturnJob, Dispatch
    <3>. QED
      BY <1>t, <1>6, <3>1 DEF ReturnJob, Dispatch
  <2>2. CASE pop[p].job # j
    <3>1. \A q \in PopCall : pop[q].job = j => pop'[q] = pop[q]
      BY <1>t, <1>6, <2>2 DEF ReturnJob
    <3>2. calls' = calls
      BY <2>1 DEF calls
    <3>3. j \in orphaned => j \in orphaned'
      BY <1>6 DEF ReturnJob
    <3>. QED
      BY <1>k, <1>n, <1>t, <2>1, <3>1, <3>2, <3>3
  <2>3. CASE pop[p].job = j /\ NextWorker = NoWorker
    BY <1>6, <2>3 DEF ReturnJob
  <2>4. CASE pop[p].job = j /\ NextWorker # NoWorker
    <3>1. NextWorker \in registry /\ NextWorker \in Worker
      BY <2>4, NextWorkerIsAble, NextWorkerType DEF TypeOK
    <3>2. j \in executing'[NextWorker]
      BY <1>t, <1>6, <2>4, <3>1 DEF ReturnJob, Dispatch
    <3>. QED
      BY <2>1, <3>1, <3>2 DEF Owed
  <2>. QED
    BY <2>2, <2>3, <2>4
<1>7. ASSUME NEW w \in Worker, NEW i \in DOMAIN held[w], Ack(w, i) \/ Error(w, i)
      PROVE  Owed(j)' \/ j \in orphaned'
  <2>. DEFINE answered == held[w][i]
  <2>1. answered \in Job
    BY <1>7, RemoveAtFacts DEF TypeOK
  <2>2. UNCHANGED <<registry, status, errUpdate, freeing, orphaned>>
    BY <1>7 DEF Ack, Error, FreeSlot
  <2>3. \/ acking' = [acking EXCEPT ![answered] = @ + 1] /\ errFind' = errFind
        \/ errFind' = [errFind EXCEPT ![answered] = @ + 1] /\ acking' = acking
    BY <1>7 DEF Ack, Error, StartAck, StartError
  <2>4. executing' = executing \/ executing' = [executing EXCEPT ![w] = @ \ {answered}]
    BY <1>7 DEF Ack, Error, FreeSlot
  <2>5. \A p \in PopCall : pop[p].step = "return" => pop'[p] = pop[p]
    BY <1>t, <1>7, StartPopFacts DEF Ack, Error, PopOnAnswer
  <2>. HIDE DEF answered
  <2>6. CASE answered = j
    <3>1. acking'[j] + errFind'[j] + errUpdate'[j] > 0
      BY <1>t, <2>2, <2>3, <2>6
    <3>. QED
      BY <3>1 DEF Owed
  <2>7. CASE answered # j
    <3>1. acking'[j] = acking[j] /\ errFind'[j] = errFind[j] /\ errUpdate' = errUpdate
      BY <1>t, <2>1, <2>2, <2>3, <2>7
    <3>2. calls' = calls
      BY <3>1 DEF calls
    <3>3. \A v \in registry : j \in executing[v] => j \in executing'[v]
      BY <1>t, <2>4, <2>7
    <3>. QED
      BY <1>k, <1>n, <2>2, <2>5, <3>2, <3>3
  <2>. QED
    BY <2>6, <2>7
<1>8. ASSUME NEW w \in Worker, ClientCrash(w) \/ \E i \in DOMAIN held[w] : LoseAnswer(w, i)
      PROVE  Owed(j)' \/ j \in orphaned'
  BY <1>1, <1>8 DEF ClientCrash, LoseAnswer, schedVars, tableVars
<1>9. ASSUME NEW w \in Worker, Clean(w) PROVE Owed(j)' \/ j \in orphaned'
  <2>1. /\ w \in registry /\ registry' = registry \ {w}
        /\ executing' = [executing EXCEPT ![w] = {}]
        /\ freeing' = [freeing EXCEPT ![w] = executing[w]]
        /\ UNCHANGED <<status, pop, acking, errFind, errUpdate, orphaned>>
    BY <1>9 DEF Clean, Unregister
  <2>2. freeing[w] = {}
    BY <1>t, <2>1 DEF FreedOnce
  <2>3. CASE j \in executing[w]
    <3>1. j \in freeing'[w]
      BY <1>t, <2>1, <2>3
    <3>. QED
      BY <3>1 DEF Owed
  <2>4. CASE j \notin executing[w]
    <3>1. calls' = calls
      BY <2>1 DEF calls
    <3>2. \A v \in Worker : j \in freeing[v] => j \in freeing'[v]
      BY <1>t, <2>1, <2>2
    <3>3. \A v \in registry : j \in executing[v] => v \in registry' /\ j \in executing'[v]
      BY <1>t, <2>1, <2>4
    <3>. QED
      BY <1>k, <1>n, <2>1, <3>1, <3>2, <3>3
  <2>. QED
    BY <2>3, <2>4
<1>10. ASSUME NEW p \in PopCall, PopFind(p) /\ UNCHANGED orphaned, PopStep(p)
       PROVE  Owed(j)' \/ j \in orphaned'
  <2>1. \A q \in PopCall : pop[q].step = "return" => pop'[q] = pop[q]
    BY <1>t, <1>10 DEF PopFind
  <2>. QED
    BY <1>1, <1>10, <2>1 DEF PopFind, PopStep, schedVars
<1>11. ASSUME NEW p \in PopCall, PopUpdate(p) /\ orphaned' = orphaned \ {pop[p].job}, PopStep(p)
       PROVE  Owed(j)' \/ j \in orphaned'
  <2>1. pop[p].job \in Job
    BY <1>11 DEF PopUpdate, UpdateNamesRow
  <2>2. CASE pop[p].job = j
    <3>1. Exists(j)
      BY <1>11, <2>2 DEF PopUpdate, SetStatus, Exists, Absent
    <3>2. pop'[p].step = "return" /\ pop'[p].job = j
      BY <1>t, <1>11, <2>2, <3>1 DEF PopUpdate, PopState
    <3>. QED
      BY <3>2 DEF Owed
  <2>3. CASE pop[p].job # j
    <3>1. status'[j] = status[j]
      BY <1>t, <1>11, <2>1, <2>3 DEF PopUpdate, SetStatus
    <3>2. \A q \in PopCall : pop[q].job = j => pop'[q] = pop[q]
      BY <1>t, <1>11, <2>3 DEF PopUpdate
    <3>. QED
      BY <1>1, <1>11, <2>3, <3>1, <3>2 DEF PopUpdate, PopStep, schedVars
  <2>. QED
    BY <2>2, <2>3
<1>12. ASSUME NEW k \in Job, AnswerStep(k) PROVE Owed(j)' \/ j \in orphaned'
  <2>1. ASSUME NEW s \in {"Completed", "Retryable", "Discarded"}, SetStatus(k, s)
        PROVE  j # k /\ status'[j] = status[j]
    BY <1>t, <2>1 DEF SetStatus, Exists, Absent
  <2>2. CASE AckUpdate(k)
    <3>1. j # k /\ status'[j] = status[j]
      BY <2>1, <2>2 DEF AckUpdate
    <3>2. calls' = calls
      BY <1>t, <2>2, <3>1 DEF AckUpdate, calls
    <3>. QED
      BY <1>k, <1>n, <1>12, <2>2, <3>1, <3>2 DEF AckUpdate, AnswerStep, schedVars
  <2>3. CASE ErrorFind(k)
    <3>1. status[j] = "Executing" /\ status' = status
      BY <2>3 DEF ErrorFind
    <3>2. calls' = calls
      <4>1. j = k => calls' = calls
        <5>. SUFFICES ASSUME j = k PROVE calls' = calls
          OBVIOUS
        <5>1. errFind'[j] = errFind[j] - 1 /\ errUpdate'[j] = errUpdate[j] + 1 /\ acking' = acking
          BY <1>t, <2>3, <3>1 DEF ErrorFind, Terminal, Absent
        <5>. QED
          BY <1>t, <5>1 DEF calls
      <4>2. j # k => calls' = calls
        BY <1>t, <2>3 DEF ErrorFind, calls
      <4>. QED
        BY <4>1, <4>2
    <3>. QED
      BY <1>k, <1>n, <1>12, <2>3, <3>1, <3>2 DEF ErrorFind, AnswerStep, schedVars
  <2>4. CASE ErrorUpdate(k)
    <3>1. j # k /\ status'[j] = status[j]
      BY <2>1, <2>4 DEF ErrorUpdate
    <3>2. calls' = calls
      BY <1>t, <2>4, <3>1 DEF ErrorUpdate, calls
    <3>. QED
      BY <1>k, <1>n, <1>12, <2>4, <3>1, <3>2 DEF ErrorUpdate, AnswerStep, schedVars
  <2>. QED
    BY <1>12, <2>2, <2>3, <2>4 DEF AnswerStep
<1>13. ASSUME NEW w \in Worker, FreeStep(w) PROVE Owed(j)' \/ j \in orphaned'
  <2>1. j \notin freeing[w] /\ status'[j] = status[j]
    BY <1>t, <1>13 DEF FreeStep, FreeUpdate, Exists, Absent
  <2>2. \A v \in Worker : j \in freeing[v] => j \in freeing'[v]
    BY <1>t, <1>13, <2>1 DEF FreeStep, FreeUpdate
  <2>3. calls' = calls
    BY <1>13 DEF FreeStep, FreeUpdate, calls
  <2>. QED
    BY <1>k, <1>n, <1>13, <2>1, <2>2, <2>3 DEF FreeStep, FreeUpdate, schedVars
<1>14. CASE Cleanup
  <2>1. status'[j] = status[j]
    BY <1>t, <1>14 DEF Cleanup, CleanDb, Absent
  <2>. QED
    BY <1>1, <1>14, <2>1 DEF Cleanup, CleanDb, schedVars
<1>15. ASSUME CallFails, NEW p \in PopCall, PopFails(p), UNCHANGED orphaned
       PROVE  Owed(j)' \/ j \in orphaned'
  <2>1. \A q \in PopCall : pop[q].step = "return" => pop'[q] = pop[q]
    BY <1>t, <1>15 DEF PopFails
  <2>. QED
    BY <1>1, <1>15, <2>1 DEF CallFails, PopFails, schedVars
<1>16. ASSUME CallFails, NEW k \in Job, AckFails(k) \/ ErrorFails(k), orphaned' = orphaned \cup {k}
       PROVE  Owed(j)' \/ j \in orphaned'
  <2>1. CASE j = k
    BY <1>16, <2>1
  <2>2. CASE j # k
    <3>1. calls' = calls
      BY <1>t, <1>16, <2>2 DEF AckFails, ErrorFails, calls
    <3>. QED
      BY <1>k, <1>n, <1>16, <3>1 DEF CallFails, AckFails, ErrorFails, schedVars
  <2>. QED
    BY <2>1, <2>2
<1>17. ASSUME CallFails, NEW w \in Worker, FreeFails(w), orphaned' = orphaned \cup freeing[w]
       PROVE  Owed(j)' \/ j \in orphaned'
  <2>1. CASE j \in freeing[w]
    BY <1>17, <2>1
  <2>2. CASE j \notin freeing[w]
    <3>1. \A v \in Worker : j \in freeing[v] => j \in freeing'[v]
      BY <1>t, <1>17, <2>2 DEF FreeFails
    <3>2. calls' = calls
      BY <1>17 DEF FreeFails, calls
    <3>. QED
      BY <1>k, <1>n, <1>17, <3>1, <3>2 DEF CallFails, FreeFails, schedVars
  <2>. QED
    BY <2>1, <2>2
<1>18. ASSUME NEW p \in PopCall, PopStep(p) PROVE Owed(j)' \/ j \in orphaned'
  BY <1>10, <1>11, <1>18 DEF PopStep
<1>19. CASE CallFails
  BY <1>15, <1>16, <1>17, <1>19 DEF CallFails
<1>. QED
  BY <1>2, <1>3, <1>4, <1>5, <1>6, <1>7, <1>8, <1>9, <1>12, <1>13, <1>14, <1>18, <1>19 DEF Next

\* One step keeps the accounts.
LEMMA LedgerInductive ==
  ASSUME TypeOK, FreshWorkers, Ledger, [Next]_vars
  PROVE  Ledger'
<1>1. CASE Next
  BY <1>1, FreedOnceInductive, UpdateNamesRowInductive, ExecutingAccountedInductive DEF Ledger
<1>2. CASE UNCHANGED vars
  BY <1>2 DEF Ledger, FreedOnce, UpdateNamesRow, ExecutingAccounted, Owed, vars, schedVars,
              tableVars
<1>. QED
  BY <1>1, <1>2

\* No row is left Executing without someone who answers for it, unless its delivery was
\* dropped or its closing update failed.
THEOREM NoJobLost == Spec => []ExecutingAccounted
<1>1. Init => Slots /\ Ledger
  BY SlotsInit, LedgerInit
<1>2. TypeOK /\ Slots /\ [Next]_vars => Slots'
  BY SlotsInductive
<1>3. TypeOK /\ Slots /\ Ledger /\ [Next]_vars => Ledger'
  BY LedgerInductive DEF Slots
<1>4. Ledger => ExecutingAccounted
  BY DEF Ledger
<1>. QED
  BY <1>1, <1>2, <1>3, <1>4, TypeCorrect, PTL DEF Spec
-----------------------------------------------------------------------------
(***************************************************************************)
(* The ticks of the producer.                                              *)
(***************************************************************************)
Ticks == OffMeansAvailable /\ PolledHasRecord

\* There is no record at first.
LEMMA TicksInit == Init => Ticks
BY DEF Init, ProducerInit, TableInit, NoRecord, Idle, Ticks, OffMeansAvailable, PolledHasRecord

\* Only a tick that polls makes a call polled, and the record is there from then on.
LEMMA PolledSteps ==
  ASSUME TypeOK, Next, NEW p \in PopCall, pop'[p].polled
  PROVE  pop[p].polled \/ RecordPoll
<1>1. pop \in [PopCall -> PopState]
  BY DEF TypeOK, TableTypeOK
<1>2. CASE StartPop(FALSE) \/ UNCHANGED pop
  BY <1>1, <1>2 DEF StartPop
<1>3. ASSUME NEW q \in PopCall, pop' = [pop EXCEPT ![q] = Idle]
      PROVE  pop[p].polled
  BY <1>1, <1>3 DEF Idle
<1>4. ASSUME NEW q \in PopCall, PopFind(q)
      PROVE  pop[p].polled
  BY <1>1, <1>4 DEF PopFind, PopState
<1>5. ASSUME NEW q \in PopCall, PopUpdate(q)
      PROVE  pop[p].polled
  BY <1>1, <1>5 DEF PopUpdate, PopState, Idle
<1>6. CASE PoolTick
  BY <1>2, <1>6 DEF PoolTick
<1>. QED
  BY <1>2, <1>3, <1>4, <1>5, <1>6
     DEF Next, Push, Insert, Connect, Notify, PopStep, ReturnNothing, ReturnJob, Ack,
         Error, PopOnAnswer, LoseAnswer, ClientCrash, Clean, FreeStep, FreeUpdate, AnswerStep,
         AckUpdate, ErrorFind, ErrorUpdate, Cleanup, CleanDb, CallFails, PopFails, AckFails,
         ErrorFails, FreeFails, tableVars

\* Who writes the record, and when.
LEMMA RecordSteps ==
  ASSUME Next
  PROVE  \/ UNCHANGED record
         \/ RecordPoll
         \/ UpdateTick
         \/ (~record.available /\ RecordToNoJob)
         \/ \E p \in PopCall :
              /\ pop[p].polled /\ pop[p].step = "return"
              /\ RecordToJob \/ (pop[p].job = NoJob /\ RecordToNoJob)
BY DEF Next, Push, Connect, Notify, PoolTick, PopStep, ReturnNothing, ReturnJob, Ack, Error,
       LoseAnswer, ClientCrash, Clean, FreeStep, AnswerStep, Cleanup, CallFails

\* One step keeps the record available while the ticks are off.
LEMMA TicksInductive ==
  ASSUME TypeOK, Ticks, [Next]_vars
  PROVE  Ticks'
<1>1. CASE UNCHANGED vars
  BY <1>1 DEF vars, tableVars, Ticks, OffMeansAvailable, PolledHasRecord
<1>2. CASE Next
  <2>1. record \in ProducerRecord
    BY DEF TypeOK, ProducerTypeOK
  <2>2. record'.present = record.present \/ record'.present
    BY <1>2, <2>1, RecordSteps
       DEF RecordPoll, UpdateTick, RecordToNoJob, RecordToJob, FreshRecord, NoRecord,
           ProducerRecord
  <2>3. RecordPoll => record'.present
    BY <2>1 DEF RecordPoll, FreshRecord, NoRecord
  <2>4. PolledHasRecord'
    BY <1>2, <2>2, <2>3, PolledSteps DEF Ticks, PolledHasRecord
  <2>5. OffMeansAvailable'
    <3>1. CASE UNCHANGED record
      BY <3>1 DEF Ticks, OffMeansAvailable
    <3>2. CASE RecordPoll
      BY <3>2 DEF RecordPoll, FreshRecord, NoRecord, Ticks, OffMeansAvailable
    <3>3. CASE UpdateTick
      BY <2>1, <3>3 DEF UpdateTick, ProducerRecord, Ticks, OffMeansAvailable
    <3>4. CASE RecordToNoJob
      BY <2>1, <3>4 DEF RecordToNoJob, ProducerRecord, Ticks, OffMeansAvailable
    <3>5. ASSUME NEW p \in PopCall, pop[p].polled, RecordToJob PROVE OffMeansAvailable'
      <4>1. record.present
        BY <3>5 DEF Ticks, PolledHasRecord
      <4>. QED
        BY <2>1, <3>5, <4>1 DEF RecordToJob, ProducerRecord, OffMeansAvailable
    <3>. QED
      BY <1>2, <3>1, <3>2, <3>3, <3>4, <3>5, RecordSteps
  <2>. QED
    BY <2>4, <2>5 DEF Ticks
<1>. QED
  BY <1>1, <1>2

\* Ticks that a poll with a job switched off are switched on by no one but a poll that
\* was in flight and found nothing.
LEMMA StaysOffStep ==
  ASSUME TypeOK, Ticks, Next, record.lastQueryHasJob, ~record'.lastQueryHasJob
  PROVE  \E p \in PopCall : pop[p].polled /\ pop[p].step = "return" /\ pop[p].job = NoJob
<1>1. record \in ProducerRecord /\ record.present /\ record.available
  BY DEF TypeOK, ProducerTypeOK, Ticks, OffMeansAvailable
<1>2. ~UNCHANGED record /\ ~RecordPoll /\ ~UpdateTick /\ ~RecordToJob
  BY <1>1 DEF RecordPoll, UpdateTick, RecordToJob, ProducerRecord
<1>. QED
  BY <1>1, <1>2, RecordSteps

\* The property of the ticks, for every number of calls in flight.
THEOREM PollingOffUntilEmptyPoll == Spec => PollingStaysOff
<1>1. Init => Ticks
  BY TicksInit
<1>2. TypeOK /\ Ticks /\ [Next]_vars => Ticks'
  BY TicksInductive
<1>3. TypeOK /\ Ticks /\ [Next]_vars =>
        [record.lastQueryHasJob /\ ~record'.lastQueryHasJob =>
           \E p \in PopCall : pop[p].polled /\ pop[p].step = "return" /\ pop[p].job = NoJob]_vars
  BY StaysOffStep
<1>. QED
  BY <1>1, <1>2, <1>3, TypeCorrect, PTL DEF Spec, PollingStaysOff
-----------------------------------------------------------------------------
\* All of it at once: the conjunction of the parts is inductive.
THEOREM InvariantHolds == Spec => []IInv
<1>1. Init => Slots /\ Ledger /\ Ticks
  BY SlotsInit, LedgerInit, TicksInit
<1>2. TypeOK /\ Slots /\ Ledger /\ Ticks /\ [Next]_vars => Slots' /\ Ledger' /\ Ticks'
  BY SlotsInductive, LedgerInductive, TicksInductive DEF Slots
<1>3. TypeOK /\ Slots /\ Ledger /\ Ticks => IInv
  BY DEF Slots, Ledger, Ticks, IInv
<1>. QED
  BY <1>1, <1>2, <1>3, TypeCorrect, PTL DEF Spec

-----------------------------------------------------------------------------
(***************************************************************************)
(* The order in which rows are taken, as long as no cleaner gives one      *)
(* back.                                                                   *)
(***************************************************************************)
Unfailing == {"crash", "suspect"} \cap Faults = {}

\* No row is there at first.
LEMMA OrderInit == Init => NothingGivenBack /\ TakenArePassed
<1>. SUFFICES ASSUME Init PROVE NothingGivenBack /\ TakenArePassed
  OBVIOUS
<1>1. /\ registry = {} /\ \A w \in Worker : freeing[w] = {} /\ held[w] = <<>>
      /\ \A p \in PopCall : pop[p].job = NoJob
      /\ \A j \in Job : status[j] = Absent /\ acking[j] = 0 /\ errFind[j] = 0 /\ errUpdate[j] = 0
  BY DEF Init, SchedInit, TableInit, Idle
<1>2. \A j \in Job : metadata[j].form = "text"
  BY DEF Init, TableInit, Stringify, Metadata, NoRetry
<1>3. \A j \in Job : ~InHand(j)
  BY <1>1 DEF InHand, Job, NoJob
<1>. QED
  BY <1>1, <1>2, <1>3 DEF NothingGivenBack, TakenArePassed, Absent

\* retry() refuses a text, and leaves it a text.
LEMMA TextRefused ==
  ASSUME NEW m \in JobMetadata, m.form = "text"
  PROVE  ~RetryAllowed(m) /\ AfterRetry(m) = m
BY DEF RetryAllowed, AfterRetry, RetryField, NoRetry

\* One step gives no row back: what becomes Available is the new row of a push.
LEMMA NothingGivenBackInductive ==
  ASSUME TypeOK, Unfailing, NothingGivenBack, [Next]_vars
  PROVE  /\ NothingGivenBack'
         /\ created <= created'
         /\ \A j \in Job : j <= created /\ status[j] \notin Poppable => status'[j] \notin Poppable
<1>. DEFINE Goal == /\ NothingGivenBack'
                    /\ created <= created'
                    /\ \A j \in Job :
                         j <= created /\ status[j] \notin Poppable => status'[j] \notin Poppable
<1>. USE DEF NothingGivenBack, Poppable, Absent
<1>1. /\ created \in Nat /\ status \in [Job -> JobStatus \cup {Absent}]
      /\ metadata \in [Job -> JobMetadata] /\ freeing \in [Worker -> SUBSET Job]
      /\ pop \in [PopCall -> PopState]
  BY DEF TypeOK, TableTypeOK
<1>2. ASSUME UNCHANGED <<created, status, metadata, freeing>>, registry' \subseteq alive'
      PROVE  Goal
  BY <1>1, <1>2
<1>3. ASSUME NEW j \in Job, Push(j) PROVE Goal
  <2>1. /\ j = created + 1 /\ created' = j /\ status' = [status EXCEPT ![j] = "Available"]
        /\ metadata' = [metadata EXCEPT ![j] = Stringify(Metadata(Retry[j]))]
        /\ UNCHANGED <<freeing, registry, alive>>
    BY <1>3 DEF Push, Insert, schedVars, clientVars
  <2>2. Stringify(Metadata(Retry[j])).form = "text"
    BY DEF Stringify, Metadata
  <2>3. \A k \in Job \ {j} : status'[k] = status[k] /\ metadata'[k] = metadata[k]
    BY <1>1, <2>1
  <2>4. status'[j] = "Available" /\ metadata'[j].form = "text"
    BY <1>1, <2>1, <2>2
  <2>5. \A k \in Job : (k > created' => k > created) /\ (k <= created => k # j)
    BY <1>1, <2>1 DEF Job
  <2>. QED
    BY <1>1, <2>1, <2>3, <2>4, <2>5
<1>4. ASSUME NEW j \in Job, NEW s \in {"Executing", "Completed", "Discarded"}, SetStatus(j, s),
             \A k \in Job : metadata'[k].form = "text",
             UNCHANGED <<created, freeing, registry, alive>>
      PROVE  Goal
  <2>1. \A k \in Job : status'[k] = status[k] \/ (status'[k] = s /\ status[k] # Absent)
    BY <1>1, <1>4 DEF SetStatus, Exists
  <2>. QED
    BY <1>1, <1>4, <2>1
<1>5. ASSUME NEW p \in PopCall, PopStep(p) PROVE Goal
  <2>1. CASE PopFind(p)
    BY <1>2, <1>5, <2>1 DEF PopStep, PopFind, schedVars, clientVars
  <2>2. CASE PopUpdate(p)
    <3>1. pop[p].job \in Job \/ (SetStatus(pop[p].job, "Executing") /\ pop[p].job = NoJob)
      BY <1>1, <2>2 DEF PopState, PopUpdate
    <3>2. UNCHANGED <<created, metadata, freeing, registry, alive>>
      BY <1>5, <2>2 DEF PopStep, PopUpdate, schedVars, clientVars
    <3>3. CASE pop[p].job \in Job
      BY <1>1, <1>4, <2>2, <3>2, <3>3 DEF PopUpdate
    <3>4. CASE SetStatus(pop[p].job, "Executing") /\ pop[p].job = NoJob
      <4>1. status' = status
        BY <1>1, <3>4 DEF SetStatus, NoJob, Job
      <4>. QED
        BY <1>2, <3>2, <4>1
    <3>. QED
      BY <3>1, <3>3, <3>4
  <2>. QED
    BY <1>5, <2>1, <2>2 DEF PopStep
<1>6. ASSUME NEW j \in Job, AnswerStep(j) PROVE Goal
  <2>1. CASE AckUpdate(j)
    BY <1>4, <1>6, <2>1 DEF AnswerStep, AckUpdate, schedVars, clientVars
  <2>2. CASE ErrorFind(j)
    BY <1>2, <1>6, <2>2 DEF AnswerStep, ErrorFind, schedVars, clientVars
  <2>3. CASE ErrorUpdate(j)
    <3>1. ~RetryAllowed(metadata[j]) /\ AfterRetry(metadata[j]) = metadata[j]
      BY <1>1, TextRefused
    <3>2. metadata' = metadata
      BY <1>1, <2>3, <3>1 DEF ErrorUpdate
    <3>. QED
      BY <1>4, <1>6, <2>3, <3>1, <3>2 DEF AnswerStep, ErrorUpdate, schedVars, clientVars
  <2>. QED
    BY <1>6, <2>1, <2>2, <2>3 DEF AnswerStep
<1>7. ASSUME Cleanup PROVE Goal
  <2>1. \A j \in Job : status'[j] = status[j] \/ status'[j] = Absent
    BY <1>7 DEF Cleanup, CleanDb
  <2>2. UNCHANGED <<created, metadata, freeing, registry, alive>>
    BY <1>7 DEF Cleanup, CleanDb, schedVars, clientVars
  <2>. QED
    BY <1>1, <2>1, <2>2
<1>8. ASSUME NEW w \in Worker, ClientCrash(w) \/ Clean(w) \/ FreeStep(w) PROVE FALSE
  BY <1>8 DEF Unfailing, ClientCrash, Clean, Silent, Scheduled, FreeStep, FreeUpdate
<1>9. ASSUME NEW w \in Worker, NEW known \in BOOLEAN, Connect(w, known) PROVE Goal
  BY <1>2, <1>9 DEF Connect, Register, tableVars
<1>10. ASSUME NEW p \in PopCall, ReturnNothing(p) \/ ReturnJob(p) PROVE Goal
  BY <1>2, <1>10 DEF ReturnNothing, ReturnJob, Dispatch, schedVars, clientVars
<1>11. ASSUME NEW w \in Worker, NEW i \in DOMAIN held[w],
              Ack(w, i) \/ Error(w, i) \/ LoseAnswer(w, i)
       PROVE  Goal
  BY <1>2, <1>11 DEF Ack, Error, LoseAnswer, FreeSlot, schedVars, tableVars
<1>12. ASSUME CallFails PROVE Goal
  <2>1. UNCHANGED <<created, status, metadata, registry, alive>>
    BY <1>12 DEF CallFails, PopFails, AckFails, ErrorFails, FreeFails, schedVars, clientVars
  <2>2. freeing' = freeing
    BY <1>12 DEF CallFails, PopFails, AckFails, ErrorFails, FreeFails
  <2>. QED
    BY <1>2, <2>1, <2>2
<1>13. CASE Notify \/ PoolTick \/ UNCHANGED vars
  BY <1>2, <1>13 DEF Notify, PoolTick, vars, schedVars, tableVars, clientVars
<1>. QED
  BY <1>3, <1>5, <1>6, <1>7, <1>8, <1>9, <1>10, <1>11, <1>12, <1>13 DEF Next

\* What a delivery list keeps when one is taken out.
LEMMA RemoveAtKeeps ==
  ASSUME NEW S, NEW s \in Seq(S), NEW i \in DOMAIN s, NEW k \in DOMAIN RemoveAt(s, i)
  PROVE  \E m \in DOMAIN s : RemoveAt(s, i)[k] = s[m]
<1>. DEFINE front == SubSeq(s, 1, i - 1)
            back  == SubSeq(s, i + 1, Len(s))
<1>1. i \in 1..Len(s) /\ Len(s) \in Nat
  OBVIOUS
<1>2. /\ front \in Seq(S) /\ Len(front) = i - 1
      /\ \A m \in 1..(i - 1) : front[m] = s[m]
  BY <1>1, SubSeqProperties
<1>3. /\ back \in Seq(S) /\ Len(back) = Len(s) - i
      /\ \A m \in 1..(Len(s) - i) : back[m] = s[i + m]
  BY <1>1, SubSeqProperties
<1>. HIDE DEF front, back
<1>4. /\ Len(front \o back) = Len(s) - 1 /\ front \o back \in Seq(S)
      /\ \A m \in 1..(Len(s) - 1) :
           (front \o back)[m] = IF m <= i - 1 THEN front[m] ELSE back[m - (i - 1)]
  BY <1>1, <1>2, <1>3, ConcatProperties
<1>5. RemoveAt(s, i) = front \o back
  BY DEF RemoveAt, front, back
<1>6. k \in 1..(Len(s) - 1)
  BY <1>1, <1>4, <1>5
<1>7. CASE k <= i - 1
  BY <1>1, <1>2, <1>4, <1>5, <1>6, <1>7
<1>8. CASE ~(k <= i - 1)
  <2>1. k - (i - 1) \in 1..(Len(s) - i) /\ i + (k - (i - 1)) = k + 1 /\ k + 1 \in DOMAIN s
    BY <1>1, <1>6, <1>8
  <2>. QED
    BY <1>3, <1>4, <1>5, <1>6, <1>8, <2>1
<1>. QED
  BY <1>7, <1>8

\* Only a findFirst gives a call of pop a job.
LEMMA PopJobSteps ==
  ASSUME TypeOK, Next, NEW p \in PopCall
  PROVE  pop'[p].job \in {pop[p].job, NoJob} \/ PopFind(p)
<1>1. pop \in [PopCall -> PopState]
  BY DEF TypeOK, TableTypeOK
<1>2. ASSUME NEW b \in BOOLEAN, StartPop(b) PROVE pop'[p].job \in {pop[p].job, NoJob}
  BY <1>1, <1>2 DEF StartPop
<1>3. ASSUME NEW q \in PopCall, pop' = [pop EXCEPT ![q] = Idle]
      PROVE  pop'[p].job \in {pop[p].job, NoJob}
  BY <1>1, <1>3 DEF Idle
<1>4. ASSUME NEW q \in PopCall, PopFind(q) PROVE q = p \/ pop'[p] = pop[p]
  BY <1>1, <1>4 DEF PopFind
<1>5. ASSUME NEW q \in PopCall, PopUpdate(q) PROVE pop'[p].job \in {pop[p].job, NoJob}
  BY <1>1, <1>5 DEF PopUpdate, PopState, Idle
<1>. QED
  BY <1>2, <1>3, <1>4, <1>5
     DEF Next, Push, Insert, Connect, Notify, PoolTick, PopStep, ReturnNothing, ReturnJob, Ack,
         Error, PopOnAnswer, LoseAnswer, ClientCrash, Clean, FreeStep, FreeUpdate, AnswerStep,
         AckUpdate, ErrorFind, ErrorUpdate, Cleanup, CleanDb, CallFails, PopFails, AckFails,
         ErrorFails, FreeFails, tableVars

\* Only the return of a pop gives a worker a job.
LEMMA HeldSteps ==
  ASSUME TypeOK, Next, NEW w \in Worker, NEW i \in DOMAIN held'[w]
  PROVE  \/ \E m \in DOMAIN held[w] : held'[w][i] = held[w][m]
         \/ \E p \in PopCall : held'[w][i] = pop[p].job
<1>1. held \in [Worker -> Seq(Job)] /\ pop \in [PopCall -> PopState]
  BY DEF TypeOK, TableTypeOK
<1>2. CASE held' = held
  BY <1>2
<1>3. ASSUME NEW v \in Worker, NEW k \in DOMAIN held[v], held' = [held EXCEPT ![v] = RemoveAt(@, k)]
      PROVE  \E m \in DOMAIN held[w] : held'[w][i] = held[w][m]
  <2>1. CASE v # w
    BY <1>1, <1>3, <2>1
  <2>2. CASE v = w
    <3>1. held'[w] = RemoveAt(held[w], k) /\ held[w] \in Seq(Job)
      BY <1>1, <1>3, <2>2
    <3>. QED
      BY <1>3, <2>2, <3>1, RemoveAtKeeps
  <2>. QED
    BY <2>1, <2>2
<1>4. ASSUME NEW p \in PopCall, ReturnJob(p)
      PROVE  \/ \E m \in DOMAIN held[w] : held'[w][i] = held[w][m]
             \/ held'[w][i] = pop[p].job
  <2>1. CASE held'[w] = held[w]
    BY <2>1
  <2>2. CASE held'[w] = Append(held[w], pop[p].job)
    <3>1. pop[p].job \in Job /\ held[w] \in Seq(Job)
      BY <1>1, <1>4 DEF ReturnJob, PopState
    <3>. QED
      BY <2>2, <3>1, AppendProperties
  <2>. QED
    BY <1>1, <1>4, <2>1, <2>2 DEF ReturnJob
<1>. QED
  BY <1>2, <1>3, <1>4
     DEF Next, Push, Connect, Notify, PoolTick, PopStep, ReturnNothing, Ack, Error, LoseAnswer,
         ClientCrash, Clean, FreeStep, AnswerStep, Cleanup, CallFails, clientVars

\* Only the answer of a worker that holds a job starts an ack or an error for it.
LEMMA AnswerSteps ==
  ASSUME TypeOK, Next, NEW j \in Job, acking[j] = 0, errFind[j] = 0, errUpdate[j] = 0,
         \A w \in Worker : \A i \in DOMAIN held[w] : held[w][i] # j
  PROVE  acking'[j] = 0 /\ errFind'[j] = 0 /\ errUpdate'[j] = 0
<1>1. /\ acking \in [Job -> Nat] /\ errFind \in [Job -> Nat] /\ errUpdate \in [Job -> Nat]
      /\ held \in [Worker -> Seq(Job)]
  BY DEF TypeOK, TableTypeOK
<1>2. CASE UNCHANGED <<acking, errFind, errUpdate>>
  BY <1>2
<1>3. ASSUME NEW w \in Worker, NEW i \in DOMAIN held[w], Ack(w, i) \/ Error(w, i)
      PROVE  acking'[j] = 0 /\ errFind'[j] = 0 /\ errUpdate'[j] = 0
  <2>1. held[w][i] \in Job /\ held[w][i] # j
    BY <1>1
  <2>. QED
    BY <1>1, <1>3, <2>1 DEF Ack, Error, StartAck, StartError
<1>4. ASSUME NEW k \in Job, AckUpdate(k) \/ ErrorFind(k) \/ ErrorUpdate(k) \/ AckFails(k) \/ ErrorFails(k)
      PROVE  acking'[j] = 0 /\ errFind'[j] = 0 /\ errUpdate'[j] = 0
  <2>1. CASE k = j
    BY <1>4, <2>1 DEF AckUpdate, ErrorFind, ErrorUpdate, AckFails, ErrorFails
  <2>2. CASE k # j
    BY <1>1, <1>4, <2>2 DEF AckUpdate, ErrorFind, ErrorUpdate, AckFails, ErrorFails
  <2>. QED
    BY <2>1, <2>2
<1>. QED
  BY <1>2, <1>3, <1>4
     DEF Next, Push, Insert, Connect, Notify, PoolTick, PopStep, PopFind, PopUpdate,
         ReturnNothing, ReturnJob, LoseAnswer, ClientCrash, Clean, FreeStep, FreeUpdate,
         AnswerStep, Cleanup, CleanDb, CallFails, PopFails, FreeFails, tableVars

\* Only the update of a pop, of an ack or of an error takes a row out of Available.
LEMMA StatusSteps ==
  ASSUME TypeOK, Unfailing, NothingGivenBack, Next, NEW j \in Job,
         status[j] \in Poppable \cup {Absent}, acking[j] = 0, errUpdate[j] = 0,
         \A p \in PopCall : pop[p].job # j
  PROVE  status'[j] \in Poppable \cup {Absent}
<1>1. status \in [Job -> JobStatus \cup {Absent}] /\ pop \in [PopCall -> PopState]
  BY DEF TypeOK, TableTypeOK
<1>2. CASE UNCHANGED status
  BY <1>2
<1>3. ASSUME NEW k, k # j, NEW s, SetStatus(k, s) PROVE status'[j] = status[j]
  BY <1>1, <1>3 DEF SetStatus
<1>4. ASSUME NEW k \in Job, NEW t \in Time, Insert(k, t) PROVE status'[j] \in Poppable \cup {Absent}
  BY <1>1, <1>4 DEF Insert, Poppable
<1>5. ASSUME NEW t \in Time, CleanDb(t) PROVE status'[j] \in Poppable \cup {Absent}
  BY <1>1, <1>5 DEF CleanDb
<1>6. ASSUME NEW w \in Worker, FreeUpdate(w) PROVE FALSE
  BY <1>6 DEF FreeUpdate, NothingGivenBack
<1>7. ASSUME NEW k \in Job, AckUpdate(k) \/ ErrorUpdate(k) PROVE k # j
  BY <1>7 DEF AckUpdate, ErrorUpdate
<1>. QED
  BY <1>2, <1>3, <1>4, <1>5, <1>6, <1>7
     DEF Next, Push, Connect, Notify, PoolTick, PopStep, PopFind, PopUpdate, AckUpdate,
         ErrorFind, ErrorUpdate, ReturnNothing, ReturnJob, Ack, Error, LoseAnswer, ClientCrash,
         Clean, FreeStep, AnswerStep, Cleanup, CallFails, PopFails, AckFails, ErrorFails,
         FreeFails, tableVars

\* A job is taken in hand by a findFirst only; all later stages pass it on.
LEMMA InHandSteps ==
  ASSUME TypeOK, Unfailing, NothingGivenBack, Next, NEW j \in Job, ~InHand(j), InHand(j)'
  PROVE  \E p \in PopCall : PopFind(p) /\ pop'[p].job = j
<1>1. /\ acking \in [Job -> Nat] /\ errFind \in [Job -> Nat] /\ errUpdate \in [Job -> Nat]
  BY DEF TypeOK, TableTypeOK
<1>2. /\ \A p \in PopCall : pop[p].job # j
      /\ \A w \in Worker : \A i \in DOMAIN held[w] : held[w][i] # j
      /\ acking[j] = 0 /\ errFind[j] = 0 /\ errUpdate[j] = 0
      /\ status[j] \in Poppable \cup {Absent}
  BY <1>1 DEF InHand
<1>3. \A w \in Worker : \A i \in DOMAIN held'[w] : held'[w][i] # j
  BY <1>2, HeldSteps
<1>4. acking'[j] = 0 /\ errFind'[j] = 0 /\ errUpdate'[j] = 0
  BY <1>2, AnswerSteps
<1>5. status'[j] \in Poppable \cup {Absent}
  BY <1>2, StatusSteps
<1>6. PICK p \in PopCall : pop'[p].job = j
  BY <1>3, <1>4, <1>5 DEF InHand
<1>. QED
  BY <1>2, <1>6, PopJobSteps DEF Job, NoJob

\* A row keeps the created_at it was inserted with.
LEMMA CreatedAtKept ==
  ASSUME TypeOK, [Next]_vars, NEW i \in Job, i <= created
  PROVE  createdAt'[i] = createdAt[i]
<1>1. created \in Nat /\ createdAt \in [Job -> Nat]
  BY DEF TypeOK, TableTypeOK
<1>2. ASSUME NEW j \in Job, NEW t \in Time, Insert(j, t) PROVE createdAt'[i] = createdAt[i]
  BY <1>1, <1>2 DEF Insert
<1>. QED
  BY <1>2
     DEF Next, vars, Push, Connect, Notify, PoolTick, PopStep, PopFind, PopUpdate, ReturnNothing,
         ReturnJob, Ack, Error, LoseAnswer, ClientCrash, Clean, FreeStep, FreeUpdate, AnswerStep,
         AckUpdate, ErrorFind, ErrorUpdate, Cleanup, CleanDb, CallFails, PopFails, AckFails,
         ErrorFails, FreeFails, tableVars

\* What is in hand stays behind no older row: findFirst takes the oldest, and no older
\* row comes back.
LEMMA TakenArePassedInductive ==
  ASSUME TypeOK, Unfailing, NothingGivenBack, TakenArePassed, [Next]_vars
  PROVE  TakenArePassed'
<1>1. created \in Nat /\ created' \in Nat /\ pop \in [PopCall -> PopState]
  <2>1. TypeOK'
    BY TypeInductive
  <2>. QED
    BY <2>1 DEF TypeOK, TableTypeOK
<1>a. \A i \in Job : i <= created => createdAt'[i] = createdAt[i]
  BY CreatedAtKept
<1>2. ASSUME NEW j \in Job, Passed(j) PROVE Passed(j)'
  <2>1. created <= created' /\ \A i \in Job :
          i <= created /\ status[i] \notin Poppable => status'[i] \notin Poppable
    BY NothingGivenBackInductive
  <2>2. \A i \in Job : i < j => i <= created
    BY <1>1, <1>2 DEF Passed, Job
  <2>3. \A i \in Job : i < j => createdAt'[i] = createdAt[i] /\ createdAt'[j] = createdAt[j]
    BY <1>a, <1>2, <2>2 DEF Passed
  <2>. QED
    BY <1>1, <1>2, <2>1, <2>2, <2>3 DEF Passed, Job
<1>3. ASSUME NEW p \in PopCall, PopFind(p), NEW j \in Job, pop'[p].job = j, pop[p].job # j
      PROVE  Passed(j)
  <2>1. j \in Ready /\ \A i \in Ready : createdAt[j] <= createdAt[i]
    BY <1>1, <1>3 DEF PopFind, PopState
  <2>2. j <= created
    BY <1>1, <2>1 DEF NothingGivenBack, Ready, Poppable, Absent, Job
  <2>3. \A i \in Job : createdAt[i] \in Nat
    BY DEF TypeOK, TableTypeOK
  <2>. QED
    BY <2>1, <2>2, <2>3 DEF Passed, Ready, Job
<1>4. ASSUME NEW j \in Job, InHand(j)' PROVE Passed(j)'
  <2>1. CASE InHand(j)
    BY <1>2, <2>1 DEF TakenArePassed
  <2>2. CASE ~InHand(j) /\ Next
    <3>1. PICK p \in PopCall : PopFind(p) /\ pop'[p].job = j
      BY <1>4, <2>2, InHandSteps
    <3>. QED
      BY <1>2, <1>3, <2>2, <3>1 DEF InHand
  <2>3. CASE ~InHand(j) /\ UNCHANGED vars
    BY <1>4, <2>3 DEF InHand, vars, tableVars
  <2>. QED
    BY <2>1, <2>2, <2>3
<1>. QED
  BY <1>4 DEF TakenArePassed

\* Rows leave Available in the order of their created_at, whichever pops, answers and
\* failures interleave, as long as no worker is cleaned.
THEOREM RowsTakenInOrder == Spec => []TakenInOrder
<1>1. Init => InOrder
  BY OrderInit DEF InOrder
<1>2. TypeOK /\ InOrder /\ [Next]_vars => InOrder'
  <2>. SUFFICES ASSUME TypeOK, InOrder, [Next]_vars, Unfailing
                PROVE  (NothingGivenBack /\ TakenArePassed)'
    BY DEF InOrder, Unfailing
  <2>1. NothingGivenBack /\ TakenArePassed
    BY DEF InOrder, Unfailing
  <2>. QED
    BY <2>1, NothingGivenBackInductive, TakenArePassedInductive
<1>3. TypeOK /\ InOrder => TakenInOrder
  <2>. SUFFICES ASSUME TypeOK, NothingGivenBack, TakenArePassed,
                       NEW i \in Job, NEW j \in Job, i < j, createdAt[i] < createdAt[j], status[i] = "Available",
                       status[j] \notin {"Available", Absent}
                PROVE  FALSE
    BY DEF InOrder, TakenInOrder
  <2>1. status[j] \notin Poppable \cup {Absent}
    BY DEF NothingGivenBack, Poppable
  <2>2. Passed(j)
    BY <2>1 DEF TakenArePassed, InHand
  <2>. QED
    BY <2>2 DEF Passed, Poppable
<1>. QED
  BY <1>1, <1>2, <1>3, TypeCorrect, PTL DEF Spec
=============================================================================
