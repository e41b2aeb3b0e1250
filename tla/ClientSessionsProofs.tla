------------------------ MODULE ClientSessionsProofs ------------------------
(***************************************************************************)
(* Proofs about a client that connects again and a server that restarts,   *)
(* for every number of jobs, streams and calls in flight, every            *)
(* concurrency, and every choice of what goes wrong.                       *)
(***************************************************************************)
EXTENDS ClientSessions, SchedulerProofs, SequenceTheorems

\* Taking out one element leaves one fewer.
LEMMA RemovedFrom ==
  ASSUME NEW S, NEW s \in Seq(S), NEW i \in DOMAIN s
  PROVE  RemoveAt(s, i) \in Seq(S) /\ Len(RemoveAt(s, i)) = Len(s) - 1 /\ s[i] \in S
<1>1. i \in 1..Len(s) /\ Len(s) \in Nat /\ s[i] \in S
  OBVIOUS
<1>2. SubSeq(s, 1, i - 1) \in Seq(S) /\ Len(SubSeq(s, 1, i - 1)) = i - 1
  BY <1>1, SubSeqProperties
<1>3. SubSeq(s, i + 1, Len(s)) \in Seq(S) /\ Len(SubSeq(s, i + 1, Len(s))) = Len(s) - i
  BY <1>1, SubSeqProperties
<1>4. /\ SubSeq(s, 1, i - 1) \o SubSeq(s, i + 1, Len(s)) \in Seq(S)
      /\ Len(SubSeq(s, 1, i - 1) \o SubSeq(s, i + 1, Len(s))) = (i - 1) + (Len(s) - i)
  BY <1>2, <1>3, ConcatProperties
<1>5. (i - 1) + (Len(s) - i) = Len(s) - 1
  BY <1>1
<1>. QED
  BY <1>1, <1>4, <1>5 DEF RemoveAt

\* An answer names a job, and a worker or none.
LEMMA AnswerParts ==
  ASSUME TypeOK, NEW i \in DOMAIN answers
  PROVE  answers[i].job \in Job /\ answers[i].worker \in Worker \cup {NoWorker}
<1>1. answers[i] \in Answer
  BY RemovedFrom DEF TypeOK
<1>. QED
  BY <1>1 DEF Answer

\* What starting a pop, or not, does to the calls in flight.
LEMMA StartPopFacts ==
  ASSUME TableTypeOK, StartPop(FALSE) \/ UNCHANGED pop
  PROVE  /\ pop' \in [PopCall -> PopState]
         /\ \A p \in PopCall :
              \/ pop'[p] = pop[p]
              \/ pop[p].step = "idle" /\ pop'[p].step = "find" /\ pop'[p].job = NoJob
<1>1. CASE StartPop(FALSE)
  <2>. DEFINE started == [step |-> "find", job |-> NoJob, polled |-> FALSE]
  <2>1. PICK p \in PopCall : pop[p] = Idle /\ pop' = [pop EXCEPT ![p] = started]
    BY <1>1 DEF StartPop
  <2>2. /\ started \in PopState /\ started.step = "find" /\ started.job = NoJob
        /\ pop[p].step = "idle"
    BY <2>1 DEF PopState, Idle
  <2>. HIDE DEF started
  <2>. QED
    BY <2>1, <2>2 DEF TableTypeOK
<1>2. CASE UNCHANGED pop
  BY <1>2 DEF TableTypeOK
<1>. QED
  BY <1>1, <1>2

\* What push stores and what error writes back is metadata.
LEMMA MetadataTypes ==
  /\ \A r \in RetryEntry : Stringify(Metadata(r)) \in JobMetadata
  /\ \A m \in JobMetadata : AfterRetry(m) \in JobMetadata
<1>1. \A r \in RetryEntry : Stringify(Metadata(r)) \in JobMetadata
  BY DEF Stringify, Metadata, JobMetadata
<1>2. ASSUME NEW m \in JobMetadata PROVE AfterRetry(m) \in JobMetadata
  <2>1. m.retry \in RetryEntry
    BY DEF JobMetadata
  <2>2. [m.retry EXCEPT !.currentAttempt = NextAttempt(@)] \in RetryEntry
    BY <2>1 DEF RetryEntry, NextAttempt
  <2>3. [m EXCEPT !.retry.currentAttempt = NextAttempt(@)]
          = [m EXCEPT !.retry = [m.retry EXCEPT !.currentAttempt = NextAttempt(@)]]
    OBVIOUS
  <2>4. [m EXCEPT !.retry = [m.retry EXCEPT !.currentAttempt = NextAttempt(@)]] \in JobMetadata
    BY <2>2 DEF JobMetadata
  <2>. QED
    BY <2>3, <2>4 DEF AfterRetry
<1>. QED
  BY <1>1, <1>2

\* An update of a status leaves every row with a status.
LEMMA SetStatusType ==
  ASSUME TableTypeOK, NEW j, NEW s \in JobStatus \cup {Absent}, SetStatus(j, s)
  PROVE  status' \in [Job -> JobStatus \cup {Absent}]
BY DEF SetStatus, TableTypeOK
-----------------------------------------------------------------------------
(***************************************************************************)
(* Type correctness, one lemma per part of the state.                      *)
(***************************************************************************)
\* The scheduler's part.
LEMMA SchedTypeInductive ==
  ASSUME TypeOK, Next
  PROVE  SchedTypeOK'
<1>. SchedTypeOK /\ TableTypeOK
  BY DEF TypeOK
<1>1. ASSUME UNCHANGED schedVars PROVE SchedTypeOK'
  BY <1>1 DEF schedVars, SchedTypeOK
<1>2. ASSUME NEW w \in Worker, NEW known \in BOOLEAN, Connect(w, known) PROVE SchedTypeOK'
  BY <1>2, MaxWorkersAssumption DEF Connect, Register, SchedTypeOK, Worker
<1>3. ASSUME NEW p \in PopCall, ReturnJob(p) PROVE SchedTypeOK'
  <2>1. pop[p].job \in Job
    BY <1>3 DEF TableTypeOK, PopState, ReturnJob
  <2>2. workerIndex' \in Nat /\ workers' \subseteq 1..connected'
    BY <1>3, IndexAfterType DEF ReturnJob, Dispatch, Scheduled, SchedTypeOK
  <2>3. load' \in [Worker -> Nat] /\ executing' \in [Worker -> SUBSET Job]
    BY <1>3, <2>1, NextWorkerType DEF ReturnJob, Dispatch, SchedTypeOK
  <2>. QED
    BY <1>3, <2>2, <2>3 DEF ReturnJob, Dispatch, SchedTypeOK
<1>4. ASSUME NEW w, NEW j, FreeSlot(w, j) PROVE SchedTypeOK'
  BY <1>4 DEF FreeSlot, SchedTypeOK
<1>5. ASSUME NEW w \in Worker, Clean(w) PROVE SchedTypeOK'
  BY <1>5 DEF Clean, Unregister, SchedTypeOK
<1>6. CASE Restart
  BY <1>6 DEF Restart, SchedTypeOK
<1>. QED
  BY <1>1, <1>2, <1>3, <1>4, <1>5, <1>6
     DEF Next, HandleStream, Execute, Close, Crash, Start, LoseAnswer, Push, Poll, PopStep,
         ReturnNothing, TakeAnswer, Ack, Error, AnswerStep, FreeStep, CallFails

\* The table's part.
LEMMA TableTypeInductive ==
  ASSUME TypeOK, Next
  PROVE  TableTypeOK'
<1>. SchedTypeOK /\ TableTypeOK
  BY DEF TypeOK
<1>1. ASSUME UNCHANGED tableVars PROVE TableTypeOK'
  BY <1>1 DEF tableVars, TableTypeOK
<1>2. ASSUME NEW j \in Job, NEW t \in Time, Insert(j, t) PROVE TableTypeOK'
  BY <1>2, MetadataTypes, RetryAssumption, TimeAssumption DEF Insert, TableTypeOK, Job, JobStatus
<1>3. ASSUME StartPop(FALSE) \/ UNCHANGED pop,
             UNCHANGED <<status, metadata, created, createdAt, acking, errFind, errUpdate, freeing>>
      PROVE  TableTypeOK'
  BY <1>3, StartPopFacts DEF TableTypeOK
<1>4. ASSUME NEW p \in PopCall, pop' = [pop EXCEPT ![p] = Idle],
             UNCHANGED <<status, metadata, created, createdAt, acking, errFind, errUpdate, freeing>>
      PROVE  TableTypeOK'
  BY <1>4 DEF TableTypeOK, Idle, PopState
<1>5. ASSUME NEW i \in DOMAIN answers, Ack(i) \/ Error(i) PROVE TableTypeOK'
  <2>1. answers[i].job \in Job
    BY AnswerParts
  <2>2. acking' \in [Job -> Nat] /\ errFind' \in [Job -> Nat]
    BY <1>5, <2>1 DEF Ack, Error, StartAck, StartError, TableTypeOK
  <2>3. pop' \in [PopCall -> PopState]
    BY <1>5, StartPopFacts DEF Ack, Error, TakeAnswer
  <2>. QED
    BY <1>5, <2>2, <2>3 DEF Ack, Error, TableTypeOK
<1>6. ASSUME NEW w \in Worker, Clean(w) PROVE TableTypeOK'
  BY <1>6 DEF Clean, TableTypeOK, SchedTypeOK
<1>7. ASSUME NEW p \in PopCall, PopFind(p) PROVE TableTypeOK'
  <2>1. Ready \subseteq Job
    BY DEF Ready
  <2>2. pop' \in [PopCall -> PopState]
    <3>0. pop \in [PopCall -> PopState] /\ pop[p] \in PopState
      BY DEF TableTypeOK
    <3>1. CASE pop' = [pop EXCEPT ![p].step = "return"]
      <4>1. [pop[p] EXCEPT !.step = "return"] \in PopState
        BY <3>0 DEF PopState
      <4>. QED
        BY <3>0, <3>1, <4>1
    <3>2. ASSUME NEW j \in Job, pop' = [pop EXCEPT ![p].step = "update", ![p].job = j]
          PROVE  pop' \in [PopCall -> PopState]
      <4>1. [[pop[p] EXCEPT !.step = "update"] EXCEPT !.job = j] \in PopState
        BY <3>0 DEF PopState
      <4>. QED
        BY <3>0, <3>2, <4>1
    <3>. QED
      BY <1>7, <2>1, <3>1, <3>2 DEF PopFind
  <2>. QED
    BY <1>7, <2>2 DEF PopFind, TableTypeOK
<1>8. ASSUME NEW p \in PopCall, PopUpdate(p) PROVE TableTypeOK'
  <2>1. status' \in [Job -> JobStatus \cup {Absent}]
    BY <1>8, SetStatusType DEF PopUpdate, JobStatus
  <2>2. pop' \in [PopCall -> PopState]
    BY <1>8 DEF PopUpdate, TableTypeOK, PopState, Idle
  <2>. QED
    BY <1>8, <2>1, <2>2 DEF PopUpdate, TableTypeOK
<1>9. ASSUME NEW j \in Job, AckUpdate(j) PROVE TableTypeOK'
  <2>1. status' \in [Job -> JobStatus \cup {Absent}]
    BY <1>9, SetStatusType DEF AckUpdate, JobStatus
  <2>2. acking' \in [Job -> Nat]
    BY <1>9 DEF AckUpdate, TableTypeOK
  <2>. QED
    BY <1>9, <2>1, <2>2 DEF AckUpdate, TableTypeOK
<1>10. ASSUME NEW j \in Job, ErrorFind(j) PROVE TableTypeOK'
  BY <1>10 DEF ErrorFind, TableTypeOK
<1>11. ASSUME NEW j \in Job, ErrorUpdate(j) PROVE TableTypeOK'
  <2>1. status' \in [Job -> JobStatus \cup {Absent}]
    BY <1>11, SetStatusType DEF ErrorUpdate, JobStatus
  <2>2. metadata' \in [Job -> JobMetadata]
    BY <1>11, MetadataTypes DEF ErrorUpdate, TableTypeOK
  <2>. QED
    BY <1>11, <2>1, <2>2 DEF ErrorUpdate, TableTypeOK
<1>12. ASSUME NEW w \in Worker, FreeUpdate(w) \/ FreeFails(w) PROVE TableTypeOK'
  BY <1>12 DEF FreeUpdate, FreeFails, TableTypeOK, JobStatus
<1>13. CASE Restart
  BY <1>13 DEF Restart, TableTypeOK, Idle, PopState
<1>14. ASSUME NEW j \in Job, AckFails(j) \/ ErrorFails(j) PROVE TableTypeOK'
  BY <1>14 DEF AckFails, ErrorFails, TableTypeOK
<1>15. ASSUME NEW p \in PopCall, PopFails(p) PROVE TableTypeOK'
  BY <1>15, <1>4 DEF PopFails
<1>. QED
  BY <1>1, <1>2, <1>3, <1>4, <1>5, <1>6, <1>7, <1>8, <1>9, <1>10, <1>11, <1>12, <1>13,
     <1>14, <1>15
     DEF Next, Connect, HandleStream, Execute, Close, Crash, Start, LoseAnswer, Push, Poll,
         PopStep, ReturnNothing, ReturnJob, AnswerStep, FreeStep, CallFails

\* What work sends, one answer or two.
LEMMA ExecuteSends ==
  ASSUME TypeOK, NEW i \in DOMAIN working, Execute(i)
  PROVE  /\ working' \in Seq(Job) /\ Len(working') = Len(working) - 1
         /\ answers' \in Seq(Answer) /\ surplus' \in Nat
         /\ \/ Len(answers') = Len(answers) + 1 /\ surplus' = surplus
            \/ Len(answers') = Len(answers) + 2 /\ surplus' = surplus + 1
<1>. DEFINE Call(c) == [job |-> working[i], worker |-> workerID, call |-> c]
<1>1. /\ working \in Seq(Job) /\ answers \in Seq(Answer) /\ surplus \in Nat
      /\ workerID \in Worker \cup {NoWorker}
  BY DEF TypeOK
<1>2. working' = RemoveAt(working, i)
  BY DEF Execute
<1>3. working' \in Seq(Job) /\ Len(working') = Len(working) - 1 /\ working[i] \in Job
  BY <1>1, <1>2, RemovedFrom
<1>4. \A c \in {"ack", "error"} : Call(c) \in Answer
  BY <1>1, <1>3 DEF Answer
<1>5. PICK c \in {"ack", "error"} :
        \/ answers' = Append(answers, Call(c)) /\ surplus' = surplus
        \/ answers' = answers \o <<Call("ack"), Call(c)>> /\ surplus' = surplus + 1
  BY DEF Execute
<1>. HIDE DEF Call
<1>6. CASE answers' = Append(answers, Call(c)) /\ surplus' = surplus
  BY <1>1, <1>3, <1>4, <1>6, AppendProperties
<1>7. CASE answers' = answers \o <<Call("ack"), Call(c)>> /\ surplus' = surplus + 1
  <2>1. <<Call("ack"), Call(c)>> \in Seq(Answer) /\ Len(<<Call("ack"), Call(c)>>) = 2
    BY <1>4
  <2>2. answers' \in Seq(Answer) /\ Len(answers') = Len(answers) + 2
    BY <1>1, <1>7, <2>1, ConcatProperties
  <2>. QED
    BY <1>1, <1>3, <1>7, <2>2
<1>. QED
  BY <1>5, <1>6, <1>7

\* The client's part: what it reads, works on and sends.
LEMMA ClientTypeInductive ==
  ASSUME TypeOK, Next
  PROVE  /\ up' \in BOOLEAN /\ beating' \in BOOLEAN
         /\ {stream', workerID'} \subseteq Worker \cup {NoWorker}
         /\ inbox' \in Seq(Message) /\ working' \in Seq(Job) /\ answers' \in Seq(Answer)
<1>1. /\ up \in BOOLEAN /\ beating \in BOOLEAN
      /\ {stream, workerID} \subseteq Worker \cup {NoWorker}
      /\ inbox \in Seq(Message) /\ working \in Seq(Job) /\ answers \in Seq(Answer)
      /\ TableTypeOK
  BY DEF TypeOK
<1>2. <<>> \in Seq(Message) /\ <<>> \in Seq(Job) /\ <<>> \in Seq(Answer)
  OBVIOUS
<1>3. ASSUME NEW w \in Worker, NEW known \in BOOLEAN, Connect(w, known)
      PROVE  inbox' \in Seq(Message)
  <2>1. <<Welcome>> \in Seq(Message)
    BY DEF Message
  <2>. QED
    BY <1>2, <1>3, <2>1 DEF Connect
<1>4. CASE HandleStream
  <2>1. inbox' \in Seq(Message) /\ Head(inbox) \in Message
    BY <1>1, <1>4, HeadTailProperties DEF HandleStream
  <2>2. Head(inbox) # Welcome => Append(working, Head(inbox)) \in Seq(Job)
    BY <1>1, <2>1, AppendProperties DEF Message
  <2>3. working' \in Seq(Job)
    BY <1>1, <1>4, <2>2 DEF HandleStream
  <2>4. workerID' \in Worker \cup {NoWorker}
    BY <1>1, <1>4 DEF HandleStream
  <2>. QED
    BY <1>1, <1>4, <2>1, <2>3, <2>4 DEF HandleStream
<1>5. ASSUME NEW i \in DOMAIN working, Execute(i)
      PROVE  working' \in Seq(Job) /\ answers' \in Seq(Answer)
  BY <1>5, ExecuteSends
<1>6. ASSUME NEW i \in DOMAIN answers, answers' = RemoveAt(answers, i)
      PROVE  answers' \in Seq(Answer)
  BY <1>1, <1>6, RemovedFrom
<1>7. ASSUME NEW p \in PopCall, ReturnJob(p) PROVE inbox' \in Seq(Message)
  <2>1. pop[p].job \in Message
    BY <1>1, <1>7 DEF ReturnJob, TableTypeOK, PopState, Message
  <2>2. Append(inbox, pop[p].job) \in Seq(Message)
    BY <1>1, <2>1, AppendProperties
  <2>. QED
    BY <1>1, <1>7, <2>2 DEF ReturnJob
<1>8. CASE Close \/ Crash \/ Start
  BY <1>1, <1>2, <1>8 DEF Close, Crash, Start, streamVars, NoWorker
<1>9. CASE Restart
  BY <1>1, <1>2, <1>9 DEF Restart, NoWorker
<1>10. ASSUME NEW w \in Worker, NEW known \in BOOLEAN, Connect(w, known)
       PROVE  stream' \in Worker /\ UNCHANGED <<clientVars, answers>>
  BY <1>10 DEF Connect
<1>11. ASSUME UNCHANGED <<streamVars, clientVars>> PROVE UNCHANGED <<up, beating, stream, workerID, inbox, working>>
  BY <1>11 DEF streamVars, clientVars
<1>12. ASSUME NEW i \in DOMAIN answers, Ack(i) \/ Error(i) \/ LoseAnswer(i)
       PROVE  answers' \in Seq(Answer) /\ UNCHANGED <<streamVars, clientVars>>
  BY <1>6, <1>12 DEF Ack, Error, TakeAnswer, LoseAnswer
<1>13. ASSUME \/ CallFails \/ Poll
              \/ \E j \in Job : Push(j) \/ AnswerStep(j)
              \/ \E p \in PopCall : PopStep(p) \/ ReturnNothing(p)
              \/ \E w \in Worker : Clean(w) \/ FreeStep(w)
       PROVE  UNCHANGED <<streamVars, clientVars, answers>>
  BY <1>13 DEF CallFails, Poll, Push, AnswerStep, PopStep, ReturnNothing, Clean, FreeStep
<1>14. ASSUME NEW p \in PopCall, ReturnJob(p) PROVE UNCHANGED <<stream, clientVars, answers>>
  BY <1>14 DEF ReturnJob
<1>15. ASSUME NEW i \in DOMAIN working, Execute(i)
       PROVE  UNCHANGED <<streamVars, up, workerID, beating>>
  BY <1>15 DEF Execute
<1>. USE DEF streamVars, clientVars
<1>16. ASSUME NEW w \in Worker, NEW known \in BOOLEAN, Connect(w, known)
       PROVE  /\ up' \in BOOLEAN /\ beating' \in BOOLEAN
              /\ {stream', workerID'} \subseteq Worker \cup {NoWorker}
              /\ inbox' \in Seq(Message) /\ working' \in Seq(Job) /\ answers' \in Seq(Answer)
  BY <1>1, <1>3, <1>10, <1>16
<1>. QED
  BY <1>1, <1>4, <1>5, <1>7, <1>8, <1>9, <1>12, <1>13, <1>14, <1>15, <1>16 DEF Next

\* The histories.
LEMMA HistoryTypeInductive ==
  ASSUME TypeOK, Next
  PROVE  /\ past' \in [Worker -> Nat] /\ surplus' \in Nat
         /\ {orphaned', lost', contested'} \subseteq SUBSET Job
<1>1. /\ past \in [Worker -> Nat] /\ surplus \in Nat
      /\ {orphaned, lost, contested} \subseteq SUBSET Job
      /\ TableTypeOK /\ load \in [Worker -> Nat]
  BY DEF TypeOK, SchedTypeOK
<1>2. ASSUME NEW w \in Worker, Clean(w) PROVE past' \in [Worker -> Nat]
  BY <1>1, <1>2 DEF Clean
<1>3. CASE Restart
  BY <1>1, <1>3 DEF Restart
<1>4. ASSUME NEW p \in PopCall, ReturnJob(p) PROVE orphaned' \subseteq Job
  BY <1>1, <1>4 DEF ReturnJob, TableTypeOK, PopState
<1>5. CASE CallFails
  BY <1>1, <1>5 DEF CallFails, TableTypeOK
<1>6. ASSUME NEW p \in PopCall, PopStep(p)
      PROVE  orphaned' \subseteq Job /\ lost' \subseteq Job /\ contested' \subseteq Job
  BY <1>1, <1>6 DEF PopStep
<1>7. ASSUME NEW i \in DOMAIN answers, Ack(i) \/ LoseAnswer(i)
      PROVE  lost' \subseteq Job /\ contested' \subseteq Job
  BY <1>1, <1>7, AnswerParts DEF Ack, LoseAnswer
<1>8. ASSUME NEW i \in DOMAIN working, Execute(i) PROVE surplus' \in Nat
  BY <1>8, ExecuteSends
<1>9. ASSUME NEW j \in Job, AnswerStep(j) PROVE contested' \subseteq Job
  BY <1>1, <1>9 DEF AnswerStep
<1>10. ASSUME \/ HandleStream \/ Close \/ Crash \/ Start \/ Poll
              \/ \E w \in Worker, known \in BOOLEAN : Connect(w, known)
              \/ \E i \in DOMAIN answers : Error(i)
              \/ \E j \in Job : Push(j)
              \/ \E p \in PopCall : ReturnNothing(p)
              \/ \E w \in Worker : FreeStep(w)
       PROVE  UNCHANGED historyVars
  BY <1>10 DEF HandleStream, Close, Crash, Start, Poll, Connect, Error, Push, ReturnNothing,
               FreeStep
<1>11. ASSUME NEW i \in DOMAIN working, Execute(i) PROVE UNCHANGED <<past, orphaned, lost, contested>>
  BY <1>11 DEF Execute
<1>12. ASSUME NEW i \in DOMAIN answers, Ack(i) \/ LoseAnswer(i)
       PROVE  UNCHANGED <<past, surplus, orphaned>>
  BY <1>12 DEF Ack, LoseAnswer
<1>13. ASSUME NEW p \in PopCall, PopStep(p) \/ ReturnJob(p) PROVE UNCHANGED <<past, surplus>>
  BY <1>13 DEF PopStep, ReturnJob
<1>14. ASSUME NEW p \in PopCall, ReturnJob(p) PROVE UNCHANGED <<lost, contested>>
  BY <1>14 DEF ReturnJob
<1>15. ASSUME NEW w \in Worker, Clean(w) PROVE UNCHANGED <<surplus, orphaned, lost, contested>>
  BY <1>15 DEF Clean
<1>16. ASSUME CallFails PROVE UNCHANGED <<past, surplus, lost, contested>>
  BY <1>16 DEF CallFails
<1>17. ASSUME NEW j \in Job, AnswerStep(j) PROVE UNCHANGED <<past, surplus, orphaned, lost>>
  BY <1>17 DEF AnswerStep
<1>18. CASE UNCHANGED historyVars
  BY <1>1, <1>18 DEF historyVars
<1>. QED
  BY <1>1, <1>2, <1>3, <1>4, <1>5, <1>6, <1>7, <1>8, <1>9, <1>10, <1>11, <1>12, <1>13, <1>14,
     <1>15, <1>16, <1>17, <1>18 DEF Next

\* One step keeps every part.
LEMMA TypeInductive ==
  ASSUME TypeOK, [Next]_vars
  PROVE  TypeOK'
<1>1. CASE UNCHANGED vars
  BY <1>1 DEF vars, schedVars, tableVars, streamVars, clientVars, historyVars, TypeOK, SchedTypeOK,
              TableTypeOK
<1>2. CASE Next
  BY <1>2, SchedTypeInductive, TableTypeInductive, ClientTypeInductive, HistoryTypeInductive
     DEF TypeOK
<1>. QED
  BY <1>1, <1>2

\* The server and the client start well typed.
LEMMA TypeInit == Init => TypeOK
<1>. SUFFICES ASSUME Init PROVE TypeOK
  OBVIOUS
<1>1. SchedTypeOK
  BY MaxWorkersAssumption DEF Init, SchedInit, SchedTypeOK
<1>2. TableTypeOK
  <2>1. NoRetry \in RetryEntry
    BY DEF NoRetry, RetryEntry
  <2>2. metadata \in [Job -> JobMetadata]
    BY <2>1, MetadataTypes DEF Init, TableInit
  <2>. QED
    BY <2>2, MaxJobsAssumption DEF Init, TableInit, TableTypeOK, Idle, PopState
<1>3. <<>> \in Seq(Message) /\ <<>> \in Seq(Job) /\ <<>> \in Seq(Answer)
  OBVIOUS
<1>. QED
  BY <1>1, <1>2, <1>3 DEF Init, TypeOK

\* The state of client, server and table has its types however often streams close.
THEOREM SessionsTypeCorrect == Spec => []TypeOK
BY TypeInit, TypeInductive, PTL DEF Spec
-----------------------------------------------------------------------------

(***************************************************************************)
(* Who owes an Executing row, and what deals with a job that was acked.    *)
(***************************************************************************)
\* The steps that leave the calls of pop, the table and the instances alone.
Outside ==
  \/ HandleStream \/ Close \/ Crash \/ Start
  \/ \E i \in DOMAIN working : Execute(i)
  \/ \E i \in DOMAIN answers : LoseAnswer(i)

LEMMA OutsideKeeps ==
  ASSUME Outside
  PROVE  UNCHANGED <<schedVars, tableVars, orphaned, contested>>
BY DEF Outside, HandleStream, Close, Crash, Start, Execute, LoseAnswer, historyVars

\* A worker has traces only once its stream is accepted, and the snapshot of a cleaner is
\* taken once.
LEMMA FreshInductive ==
  ASSUME TypeOK, FreshWorkers, FreedOnce, Next
  PROVE  FreshWorkers' /\ FreedOnce'
<1>1. /\ connected \in Nat /\ registry \subseteq Worker /\ \A w \in registry : w <= connected
      /\ executing \in [Worker -> SUBSET Job] /\ freeing \in [Worker -> SUBSET Job]
  BY MaxWorkersAssumption DEF TypeOK, SchedTypeOK, TableTypeOK, Worker
<1>2. ASSUME UNCHANGED <<connected, registry>>,
             \A w \in Worker : executing'[w] = {} \/ executing'[w] = executing[w] \/ w \in registry,
             freeing' = freeing \/ \E w \in Worker : freeing' = [freeing EXCEPT ![w] = {}]
      PROVE  FreshWorkers' /\ FreedOnce'
  <2>1. \A w \in Worker : freeing'[w] = freeing[w] \/ freeing'[w] = {}
    BY <1>1, <1>2
  <2>2. \A w \in Worker : w > connected => w \notin registry
    BY <1>1 DEF Worker
  <2>3. FreshWorkers'
    BY <1>2, <2>1, <2>2 DEF FreshWorkers
  <2>. QED
    BY <1>2, <2>1, <2>3 DEF FreedOnce
<1>3. ASSUME NEW w \in Worker, NEW known \in BOOLEAN, Connect(w, known)
      PROVE  FreshWorkers' /\ FreedOnce'
  <2>1. /\ w = connected + 1 /\ connected' = w /\ registry' = registry \cup {w}
        /\ UNCHANGED <<executing, freeing>>
    BY <1>1, <1>3 DEF Connect, Register, tableVars
  <2>. QED
    BY <1>1, <2>1 DEF FreshWorkers, FreedOnce, Worker
<1>4. ASSUME NEW w \in Worker, Clean(w) PROVE FreshWorkers' /\ FreedOnce'
  <2>1. /\ w \in registry /\ registry' = registry \ {w} /\ connected' = connected
        /\ executing' = [executing EXCEPT ![w] = {}]
        /\ freeing' = [freeing EXCEPT ![w] = executing[w]]
    BY <1>4 DEF Clean, Unregister
  <2>. QED
    BY <1>1, <2>1 DEF FreshWorkers, FreedOnce, Worker
<1>5. ASSUME NEW p \in PopCall, ReturnJob(p) PROVE FreshWorkers' /\ FreedOnce'
  <2>1. UNCHANGED <<connected, registry, freeing>>
    BY <1>5 DEF ReturnJob, Dispatch
  <2>2. NextWorker = NoWorker \/ NextWorker \in registry
    BY NextWorkerType DEF TypeOK
  <2>3. \A w \in Worker : executing'[w] = executing[w] \/ w \in registry
    BY <1>1, <1>5, <2>2 DEF ReturnJob, Dispatch
  <2>. QED
    BY <1>2, <2>1, <2>3
<1>6. ASSUME NEW i \in DOMAIN answers, Ack(i) \/ Error(i) PROVE FreshWorkers' /\ FreedOnce'
  <2>1. UNCHANGED <<connected, registry, freeing>>
    BY <1>6 DEF Ack, Error, TakeAnswer, FreeSlot
  <2>2. \A w \in Worker : executing'[w] = executing[w] \/ w \in registry
    BY <1>1, <1>6 DEF Ack, Error, TakeAnswer, FreeSlot
  <2>. QED
    BY <1>2, <2>1, <2>2
<1>7. CASE Restart
  BY <1>1, <1>7 DEF Restart, FreshWorkers, FreedOnce
<1>8. CASE Outside
  BY <1>2, <1>8, OutsideKeeps DEF schedVars, tableVars
<1>9. ASSUME \/ Poll \/ CallFails
             \/ \E j \in Job : Push(j) \/ AnswerStep(j)
             \/ \E p \in PopCall : PopStep(p) \/ ReturnNothing(p)
             \/ \E w \in Worker : FreeStep(w)
      PROVE  FreshWorkers' /\ FreedOnce'
  <2>1. UNCHANGED schedVars
    BY <1>9 DEF Poll, CallFails, Push, AnswerStep, PopStep, ReturnNothing, FreeStep
  <2>2. freeing' = freeing \/ \E w \in Worker : freeing' = [freeing EXCEPT ![w] = {}]
    BY <1>9
       DEF Poll, CallFails, PopFails, AckFails, ErrorFails, FreeFails, Push, Insert, AnswerStep,
           AckUpdate, ErrorFind, ErrorUpdate, PopStep, PopFind, PopUpdate, ReturnNothing,
           FreeStep, FreeUpdate
  <2>. QED
    BY <1>2, <2>1, <2>2 DEF schedVars
<1>. QED
  BY <1>3, <1>4, <1>5, <1>6, <1>7, <1>8, <1>9 DEF Next, Outside

\* No statement makes a row that was not inserted.
LEMMA FreshRowsInductive ==
  ASSUME TypeOK, FreshRows, Next
  PROVE  FreshRows'
<1>1. created \in Nat /\ status \in [Job -> JobStatus \cup {Absent}]
  BY DEF TypeOK, TableTypeOK
<1>2. ASSUME created' = created, \A j \in Job : ~Exists(j) => status'[j] = status[j]
      PROVE  FreshRows'
  BY <1>2 DEF FreshRows, Exists
<1>3. ASSUME NEW j \in Job, Push(j) PROVE FreshRows'
  <2>1. j = created + 1 /\ created' = j /\ \A k \in Job \ {j} : status'[k] = status[k]
    BY <1>1, <1>3 DEF Push, Insert
  <2>. QED
    BY <1>1, <2>1 DEF FreshRows, Exists, Job
<1>4. ASSUME NEW j, NEW s, SetStatus(j, s)
      PROVE  \A k \in Job : ~Exists(k) => status'[k] = status[k]
  BY <1>1, <1>4 DEF SetStatus, Exists
<1>5. CASE Outside
  BY <1>2, <1>5, OutsideKeeps DEF tableVars
<1>6. ASSUME NEW w \in Worker, FreeStep(w) PROVE FreshRows'
  BY <1>1, <1>2, <1>6 DEF FreeStep, FreeUpdate
<1>. QED
  BY <1>2, <1>3, <1>4, <1>5, <1>6
     DEF Next, Outside, Connect, Restart, Poll, CallFails, PopFails, AckFails, ErrorFails,
         FreeFails, Ack, Error, AnswerStep, AckUpdate, ErrorFind, ErrorUpdate, PopStep, PopFind,
         PopUpdate, ReturnNothing, ReturnJob, Clean, tableVars

\* What each step may do to the calls of pop.
LEMMA PopSteps ==
  ASSUME TypeOK, Next, NEW p \in PopCall
  PROVE  \/ pop'[p] = pop[p]
         \/ pop[p].step = "idle" /\ pop'[p].step = "find"
         \/ PopFind(p)
         \/ PopUpdate(p)
         \/ pop'[p] = Idle
<1>1. pop \in [PopCall -> PopState] /\ TableTypeOK
  BY DEF TypeOK, TableTypeOK
<1>2. CASE StartPop(FALSE) \/ UNCHANGED pop
  BY <1>1, <1>2, StartPopFacts
<1>3. ASSUME NEW q \in PopCall, pop' = [pop EXCEPT ![q] = Idle]
      PROVE  pop'[p] = pop[p] \/ pop'[p] = Idle
  BY <1>1, <1>3
<1>4. ASSUME NEW q \in PopCall, PopFind(q) PROVE q = p \/ pop'[p] = pop[p]
  BY <1>1, <1>4 DEF PopFind
<1>5. ASSUME NEW q \in PopCall, PopUpdate(q) PROVE q = p \/ pop'[p] = pop[p]
  BY <1>1, <1>5 DEF PopUpdate
<1>6. CASE Restart
  BY <1>1, <1>6 DEF Restart
<1>7. CASE Outside
  BY <1>7, OutsideKeeps DEF tableVars
<1>. QED
  BY <1>2, <1>3, <1>4, <1>5, <1>6, <1>7
     DEF Next, Outside, Push, Insert, Connect, Poll, PopStep, ReturnNothing, ReturnJob, Ack,
         Error, TakeAnswer, Clean, FreeStep, FreeUpdate, AnswerStep, AckUpdate, ErrorFind,
         ErrorUpdate, CallFails, PopFails, AckFails, ErrorFails, FreeFails, tableVars

\* Only a findFirst that found a row leads to an update.
LEMMA UpdateNamesRowInductive ==
  ASSUME TypeOK, UpdateNamesRow, Next
  PROVE  UpdateNamesRow'
<1>. SUFFICES ASSUME NEW p \in PopCall, pop'[p].step = "update"
              PROVE  pop'[p].job \in Job
  BY DEF UpdateNamesRow
<1>1. pop \in [PopCall -> PopState]
  BY DEF TypeOK, TableTypeOK
<1>2. CASE pop'[p] = pop[p]
  BY <1>2 DEF UpdateNamesRow
<1>3. CASE PopFind(p)
  <2>1. Ready \subseteq Job
    BY DEF Ready
  <2>2. CASE pop' = [pop EXCEPT ![p].step = "return"]
    BY <1>1, <2>2
  <2>3. CASE \E j \in Ready : pop' = [pop EXCEPT ![p].step = "update", ![p].job = j]
    BY <1>1, <2>1, <2>3 DEF PopState
  <2>. QED
    BY <1>3, <2>2, <2>3 DEF PopFind
<1>4. CASE PopUpdate(p)
  <2>1. pop'[p].step = "return" \/ pop'[p] = Idle
    BY <1>1, <1>4 DEF PopUpdate, PopState
  <2>. QED
    BY <2>1 DEF Idle
<1>5. CASE pop'[p] = Idle
  BY <1>5 DEF Idle
<1>. QED
  BY <1>2, <1>3, <1>4, <1>5, PopSteps

\* What a step may do to the row of a job and to those who answer for it.  Cases are
\* named for the job j that is Executing after the step.
LEMMA ExecutingOwedInductive ==
  ASSUME TypeOK, FreedOnce, UpdateNamesRow, ExecutingOwed, Next
  PROVE  ExecutingOwed'
<1>. SUFFICES ASSUME NEW j \in Job, status'[j] = "Executing"
              PROVE  Owed(j)' \/ j \in orphaned'
  BY DEF ExecutingOwed
<1>. DEFINE calls == acking[j] + errFind[j] + errUpdate[j]
<1>t. /\ TableTypeOK /\ pop \in [PopCall -> PopState] /\ status \in [Job -> JobStatus \cup {Absent}]
      /\ acking \in [Job -> Nat] /\ errFind \in [Job -> Nat] /\ errUpdate \in [Job -> Nat]
      /\ freeing \in [Worker -> SUBSET Job] /\ executing \in [Worker -> SUBSET Job]
      /\ registry \subseteq Worker /\ load \in [Worker -> Nat]
  <2>1. SchedTypeOK /\ TableTypeOK
    BY DEF TypeOK
  <2>2. /\ executing \in [Worker -> SUBSET Job] /\ load \in [Worker -> Nat]
        /\ registry \subseteq Worker
    BY <2>1, MaxWorkersAssumption DEF SchedTypeOK, Worker
  <2>. QED
    BY <2>1, <2>2 DEF TableTypeOK
<1>k. ASSUME status[j] = "Executing",
             \A p \in PopCall : pop[p].step = "return" /\ pop[p].job = j => pop'[p] = pop[p],
             \A w \in registry : j \in executing[w] => w \in registry' /\ j \in executing'[w],
             \A w \in Worker : j \in freeing[w] => j \in freeing'[w],
             calls' >= calls, calls \in Int, calls' \in Int,
             j \in orphaned => j \in orphaned'
      PROVE  Owed(j)' \/ j \in orphaned'
  <2>1. Owed(j) \/ j \in orphaned
    BY <1>k DEF ExecutingOwed
  <2>2. CASE \E p \in PopCall : pop[p].step = "return" /\ pop[p].job = j
    BY <1>k, <2>2 DEF Owed
  <2>3. CASE \E w \in registry : j \in executing[w]
    BY <1>k, <2>3 DEF Owed
  <2>4. CASE \E w \in Worker : j \in freeing[w]
    BY <1>k, <2>4 DEF Owed
  <2>5. CASE calls > 0
    <3>1. calls' > 0
      BY <1>k, <2>5
    <3>. QED
      BY <3>1 DEF Owed
  <2>. QED
    BY <1>k, <2>1, <2>2, <2>3, <2>4, <2>5 DEF Owed
<1>n. calls \in Nat
  BY <1>t
<1>. HIDE DEF calls
\* The steps that leave the table, the instances and the calls of ack and error alone.
<1>1. ASSUME status'[j] = status[j],
             \A p \in PopCall : pop[p].step = "return" /\ pop[p].job = j => pop'[p] = pop[p],
             UNCHANGED <<executing, acking, errFind, errUpdate, freeing>>,
             registry \subseteq registry',
             j \in orphaned => j \in orphaned'
      PROVE  Owed(j)' \/ j \in orphaned'
  <2>1. calls' = calls
    BY <1>1 DEF calls
  <2>. QED
    BY <1>k, <1>n, <1>1, <2>1
<1>2. ASSUME NEW k \in Job, Push(k) PROVE Owed(j)' \/ j \in orphaned'
  <2>1. k # j /\ status'[j] = status[j]
    BY <1>t, <1>2 DEF Push, Insert
  <2>. QED
    BY <1>1, <1>2, <2>1 DEF Push, Insert, schedVars, historyVars
<1>3. ASSUME NEW w \in Worker, NEW known \in BOOLEAN, Connect(w, known)
      PROVE  Owed(j)' \/ j \in orphaned'
  BY <1>1, <1>3 DEF Connect, Register, tableVars, historyVars
<1>4. CASE Poll
  <2>1. \A p \in PopCall : pop[p].step = "return" => pop'[p] = pop[p]
    BY <1>t, <1>4, StartPopFacts DEF Poll
  <2>. QED
    BY <1>1, <1>4, <2>1 DEF Poll, schedVars, historyVars
<1>5. ASSUME NEW p \in PopCall, ReturnNothing(p) PROVE Owed(j)' \/ j \in orphaned'
  <2>1. pop[p].job # j
    BY <1>5 DEF ReturnNothing, NoJob, Job
  <2>2. \A q \in PopCall : pop[q].job = j => pop'[q] = pop[q]
    BY <1>t, <1>5, <2>1 DEF ReturnNothing
  <2>. QED
    BY <1>1, <1>5, <2>2 DEF ReturnNothing, schedVars, historyVars
<1>6. ASSUME NEW p \in PopCall, ReturnJob(p) PROVE Owed(j)' \/ j \in orphaned'
  <2>1. /\ UNCHANGED <<registry, status, acking, errFind, errUpdate, freeing>>
        /\ \A w \in Worker : executing[w] \subseteq executing'[w]
    <3>1. \/ executing' = executing
          \/ executing' = [executing EXCEPT ![NextWorker] = @ \cup {pop[p].job}]
      BY <1>6 DEF ReturnJob, Dispatch
    <3>. QED
      BY <1>t, <1>6, <3>1 DEF ReturnJob, Dispatch
  <2>2. CASE pop[p].job # j
    <3>1. \A q \in PopCall : pop[q].job = j => pop'[q] = pop[q]
      BY <1>t, <1>6, <2>2 DEF ReturnJob
    <3>2. calls' = calls
      BY <2>1 DEF calls
    <3>3. j \in orphaned => j \in orphaned'
      BY <1>6 DEF ReturnJob
    <3>. QED
      BY <1>k, <1>n, <1>t, <2>1, <3>1, <3>2, <3>3
  <2>3. CASE pop[p].job = j /\ NextWorker = NoWorker
    BY <1>6, <2>3 DEF ReturnJob
  <2>4. CASE pop[p].job = j /\ NextWorker # NoWorker
    <3>1. NextWorker \in registry /\ NextWorker \in Worker
      BY <2>4, NextWorkerIsAble, NextWorkerType DEF TypeOK
    <3>2. j \in executing'[NextWorker]
      BY <1>t, <1>6, <2>4, <3>1 DEF ReturnJob, Dispatch
    <3>. QED
      BY <2>1, <3>1, <3>2 DEF Owed
  <2>. QED
    BY <2>2, <2>3, <2>4
<1>7. ASSUME NEW i \in DOMAIN answers, Ack(i) \/ Error(i)
      PROVE  Owed(j)' \/ j \in orphaned'
  <2>. DEFINE answered == answers[i].job
             w == answers[i].worker
  <2>1. answered \in Job
    BY AnswerParts
  <2>2. UNCHANGED <<registry, status, errUpdate, freeing, orphaned>>
    BY <1>7 DEF Ack, Error, TakeAnswer, FreeSlot, historyVars
  <2>3. \/ acking' = [acking EXCEPT ![answered] = @ + 1] /\ errFind' = errFind
        \/ errFind' = [errFind EXCEPT ![answered] = @ + 1] /\ acking' = acking
    BY <1>7 DEF Ack, Error, StartAck, StartError
  <2>4. executing' = executing \/ executing' = [executing EXCEPT ![w] = @ \ {answered}]
    BY <1>7 DEF Ack, Error, TakeAnswer, FreeSlot
  <2>5. \A p \in PopCall : pop[p].step = "return" => pop'[p] = pop[p]
    BY <1>t, <1>7, StartPopFacts DEF Ack, Error, TakeAnswer
  <2>. HIDE DEF answered, w
  <2>6. CASE answered = j
    <3>1. acking'[j] + errFind'[j] + errUpdate'[j] > 0
      BY <1>t, <2>2, <2>3, <2>6
    <3>. QED
      BY <3>1 DEF Owed
  <2>7. CASE answered # j
    <3>1. acking'[j] = acking[j] /\ errFind'[j] = errFind[j] /\ errUpdate' = errUpdate
      BY <1>t, <2>1, <2>2, <2>3, <2>7
    <3>2. calls' = calls
      BY <3>1 DEF calls
    <3>3. \A v \in registry : j \in executing[v] => j \in executing'[v]
      BY <1>t, <2>4, <2>7
    <3>. QED
      BY <1>k, <1>n, <2>2, <2>5, <3>2, <3>3
  <2>. QED
    BY <2>6, <2>7
<1>8. CASE Outside
  BY <1>1, <1>8, OutsideKeeps DEF schedVars, tableVars
<1>9. ASSUME NEW w \in Worker, Clean(w) PROVE Owed(j)' \/ j \in orphaned'
  <2>1. /\ w \in registry /\ registry' = registry \ {w}
        /\ executing' = [executing EXCEPT ![w] = {}]
        /\ freeing' = [freeing EXCEPT ![w] = executing[w]]
        /\ UNCHANGED <<status, pop, acking, errFind, errUpdate, orphaned>>
    BY <1>9 DEF Clean, Unregister
  <2>2. freeing[w] = {}
    BY <1>t, <2>1 DEF FreedOnce
  <2>3. CASE j \in executing[w]
    <3>1. j \in freeing'[w]
      BY <1>t, <2>1, <2>3
    <3>. QED
      BY <3>1 DEF Owed
  <2>4. CASE j \notin executing[w]
    <3>1. calls' = calls
      BY <2>1 DEF calls
    <3>2. \A v \in Worker : j \in freeing[v] => j \in freeing'[v]
      BY <1>t, <2>1, <2>2
    <3>3. \A v \in registry : j \in executing[v] => v \in registry' /\ j \in executing'[v]
      BY <1>t, <2>1, <2>4
    <3>. QED
      BY <1>k, <1>n, <2>1, <3>1, <3>2, <3>3
  <2>. QED
    BY <2>3, <2>4
<1>10. ASSUME NEW p \in PopCall, PopFind(p), UNCHANGED orphaned, PopStep(p)
       PROVE  Owed(j)' \/ j \in orphaned'
  <2>1. \A q \in PopCall : pop[q].step = "return" => pop'[q] = pop[q]
    BY <1>t, <1>10 DEF PopFind
  <2>. QED
    BY <1>1, <1>10, <2>1 DEF PopFind, PopStep, schedVars
<1>11. ASSUME NEW p \in PopCall, PopUpdate(p), orphaned' = orphaned \ {pop[p].job}, PopStep(p)
       PROVE  Owed(j)' \/ j \in orphaned'
  <2>1. pop[p].job \in Job
    BY <1>11 DEF PopUpdate, UpdateNamesRow
  <2>2. CASE pop[p].job = j
    <3>1. Exists(j)
      BY <1>11, <2>2 DEF PopUpdate, SetStatus, Exists, Absent
    <3>2. pop'[p].step = "return" /\ pop'[p].job = j
      BY <1>t, <1>11, <2>2, <3>1 DEF PopUpdate, PopState
    <3>. QED
      BY <3>2 DEF Owed
  <2>3. CASE pop[p].job # j
    <3>1. status'[j] = status[j]
      BY <1>t, <1>11, <2>1, <2>3 DEF PopUpdate, SetStatus
    <3>2. \A q \in PopCall : pop[q].job = j => pop'[q] = pop[q]
      BY <1>t, <1>11, <2>3 DEF PopUpdate
    <3>. QED
      BY <1>1, <1>11, <2>3, <3>1, <3>2 DEF PopUpdate, PopStep, schedVars
  <2>. QED
    BY <2>2, <2>3
<1>12. ASSUME NEW k \in Job, AnswerStep(k) PROVE Owed(j)' \/ j \in orphaned'
  <2>1. ASSUME NEW s \in {"Completed", "Retryable", "Discarded"}, SetStatus(k, s)
        PROVE  j # k /\ status'[j] = status[j]
    BY <1>t, <2>1 DEF SetStatus, Exists, Absent
  <2>2. CASE AckUpdate(k)
    <3>1. j # k /\ status'[j] = status[j]
      BY <2>1, <2>2 DEF AckUpdate
    <3>2. calls' = calls
      BY <1>t, <2>2, <3>1 DEF AckUpdate, calls
    <3>. QED
      BY <1>k, <1>n, <1>12, <2>2, <3>1, <3>2 DEF AckUpdate, AnswerStep, schedVars
  <2>3. CASE ErrorFind(k)
    <3>1. status[j] = "Executing" /\ status' = status
      BY <2>3 DEF ErrorFind
    <3>2. calls' = calls
      <4>1. j = k => calls' = calls
        <5>. SUFFICES ASSUME j = k PROVE calls' = calls
          OBVIOUS
        <5>1. errFind'[j] = errFind[j] - 1 /\ errUpdate'[j] = errUpdate[j] + 1 /\ acking' = acking
          BY <1>t, <2>3, <3>1 DEF ErrorFind, Terminal, Absent
        <5>. QED
          BY <1>t, <5>1 DEF calls
      <4>2. j # k => calls' = calls
        BY <1>t, <2>3 DEF ErrorFind, calls
      <4>. QED
        BY <4>1, <4>2
    <3>. QED
      BY <1>k, <1>n, <1>12, <2>3, <3>1, <3>2 DEF ErrorFind, AnswerStep, schedVars
  <2>4. CASE ErrorUpdate(k)
    <3>1. j # k /\ status'[j] = status[j]
      BY <2>1, <2>4 DEF ErrorUpdate
    <3>2. calls' = calls
      BY <1>t, <2>4, <3>1 DEF ErrorUpdate, calls
    <3>. QED
      BY <1>k, <1>n, <1>12, <2>4, <3>1, <3>2 DEF ErrorUpdate, AnswerStep, schedVars
  <2>. QED
    BY <1>12, <2>2, <2>3, <2>4 DEF AnswerStep
<1>13. ASSUME NEW w \in Worker, FreeStep(w) PROVE Owed(j)' \/ j \in orphaned'
  <2>1. j \notin freeing[w] /\ status'[j] = status[j]
    BY <1>t, <1>13 DEF FreeStep, FreeUpdate, Exists, Absent
  <2>2. \A v \in Worker : j \in freeing[v] => j \in freeing'[v]
    BY <1>t, <1>13, <2>1 DEF FreeStep, FreeUpdate
  <2>3. calls' = calls
    BY <1>13 DEF FreeStep, FreeUpdate, calls
  <2>. QED
    BY <1>k, <1>n, <1>13, <2>1, <2>2, <2>3 DEF FreeStep, FreeUpdate, schedVars, historyVars
<1>14. CASE Restart
  BY <1>t, <1>14 DEF Restart
<1>15. ASSUME CallFails, NEW p \in PopCall, PopFails(p), UNCHANGED orphaned
       PROVE  Owed(j)' \/ j \in orphaned'
  <2>1. \A q \in PopCall : pop[q].step = "return" => pop'[q] = pop[q]
    BY <1>t, <1>15 DEF PopFails
  <2>. QED
    BY <1>1, <1>15, <2>1 DEF CallFails, PopFails, schedVars
<1>16. ASSUME CallFails, NEW k \in Job, AckFails(k) \/ ErrorFails(k), orphaned' = orphaned \cup {k}
       PROVE  Owed(j)' \/ j \in orphaned'
  <2>1. CASE j = k
    BY <1>16, <2>1
  <2>2. CASE j # k
    <3>1. calls' = calls
      BY <1>t, <1>16, <2>2 DEF AckFails, ErrorFails, calls
    <3>. QED
      BY <1>k, <1>n, <1>16, <3>1 DEF CallFails, AckFails, ErrorFails, schedVars
  <2>. QED
    BY <2>1, <2>2
<1>17. ASSUME CallFails, NEW w \in Worker, FreeFails(w), orphaned' = orphaned \cup freeing[w]
       PROVE  Owed(j)' \/ j \in orphaned'
  <2>1. CASE j \in freeing[w]
    BY <1>17, <2>1
  <2>2. CASE j \notin freeing[w]
    <3>1. \A v \in Worker : j \in freeing[v] => j \in freeing'[v]
      BY <1>t, <1>17, <2>2 DEF FreeFails
    <3>2. calls' = calls
      BY <1>17 DEF FreeFails, calls
    <3>. QED
      BY <1>k, <1>n, <1>17, <3>1, <3>2 DEF CallFails, FreeFails, schedVars
  <2>. QED
    BY <2>1, <2>2
<1>18. ASSUME NEW p \in PopCall, PopStep(p) PROVE Owed(j)' \/ j \in orphaned'
  BY <1>10, <1>11, <1>18 DEF PopStep
<1>19. CASE CallFails
  BY <1>15, <1>16, <1>17, <1>19 DEF CallFails
<1>. QED
  BY <1>2, <1>3, <1>4, <1>5, <1>6, <1>7, <1>8, <1>9, <1>12, <1>13, <1>14, <1>18, <1>19
     DEF Next, Outside


\* A job is contested for good.
LEMMA ContestedKept ==
  ASSUME Next
  PROVE  contested \subseteq contested'
<1>1. CASE Outside
  BY <1>1, OutsideKeeps
<1>. QED
  BY <1>1
     DEF Next, Outside, Connect, Restart, Poll, CallFails, Ack, Error, Push, AnswerStep, PopStep,
         ReturnNothing, ReturnJob, Clean, FreeStep, historyVars

\* Whatever deals with an acked job after a step did so before it, or finds the job while
\* the ack is handled, which contests it.
LEMMA LetGoInductive ==
  ASSUME TypeOK, FreshWorkers, UpdateNamesRow, LetGo, Next
  PROVE  LetGo'
<1>. SUFFICES ASSUME NEW j \in Job,
                     DealtWith(j, NoWorker)',
                     acking'[j] > 0 \/ status'[j] = "Completed"
              PROVE  j \in contested'
  BY DEF LetGo
<1>t. /\ TableTypeOK /\ pop \in [PopCall -> PopState] /\ status \in [Job -> JobStatus \cup {Absent}]
      /\ acking \in [Job -> Nat] /\ errFind \in [Job -> Nat] /\ errUpdate \in [Job -> Nat]
      /\ freeing \in [Worker -> SUBSET Job] /\ executing \in [Worker -> SUBSET Job]
      /\ registry \subseteq Worker /\ NoWorker \notin registry /\ NoWorker \notin registry'
  <2>1. SchedTypeOK /\ TableTypeOK /\ SchedTypeOK'
    BY SchedTypeInductive DEF TypeOK
  <2>2. /\ executing \in [Worker -> SUBSET Job] /\ registry \subseteq Worker
        /\ NoWorker \notin registry /\ NoWorker \notin registry'
    BY <2>1, MaxWorkersAssumption DEF SchedTypeOK, Worker, NoWorker
  <2>. QED
    BY <2>1, <2>2 DEF TableTypeOK
<1>p. /\ \A p \in PopCall : pop[p].job = j => DealtWith(j, NoWorker)
      /\ \A v \in registry : j \in executing[v] => DealtWith(j, NoWorker)
      /\ \A v \in Worker : j \in freeing[v] => DealtWith(j, NoWorker)
      /\ errUpdate[j] > 0 => DealtWith(j, NoWorker)
  BY <1>t DEF DealtWith
<1>k. ASSUME \A p \in PopCall : pop'[p].job = j => DealtWith(j, NoWorker),
             \A v \in registry' : j \in executing'[v] => DealtWith(j, NoWorker),
             \A v \in Worker : j \in freeing'[v] => DealtWith(j, NoWorker),
             errUpdate'[j] > 0 => DealtWith(j, NoWorker),
             acking'[j] > 0 => acking[j] > 0,
             status'[j] = "Completed" => status[j] = "Completed" \/ acking[j] > 0
      PROVE  j \in contested'
  <2>1. DealtWith(j, NoWorker)
    BY <1>k, <1>t DEF DealtWith
  <2>2. acking[j] > 0 \/ status[j] = "Completed"
    BY <1>k
  <2>. QED
    BY <2>1, <2>2, ContestedKept DEF LetGo
\* The steps that touch neither the instances nor the calls of ack, error and clean.
<1>1. ASSUME UNCHANGED <<registry, executing, freeing, errUpdate, acking>>,
             \A p \in PopCall : pop'[p].job = j => pop[p].job = j,
             status'[j] = "Completed" => status[j] = "Completed"
      PROVE  j \in contested'
  BY <1>k, <1>p, <1>1
<1>2. CASE Outside
  BY <1>1, <1>2, OutsideKeeps DEF schedVars, tableVars
<1>3. CASE Poll
  <2>1. \A p \in PopCall : pop'[p].job = j => pop[p].job = j
    BY <1>t, <1>3, StartPopFacts DEF Poll, NoJob, Job
  <2>. QED
    BY <1>1, <1>3, <2>1 DEF Poll, schedVars
<1>4. ASSUME NEW k \in Job, Push(k) PROVE j \in contested'
  <2>1. status'[j] = "Completed" => status[j] = "Completed"
    BY <1>t, <1>4 DEF Push, Insert
  <2>. QED
    BY <1>1, <1>4, <2>1 DEF Push, Insert, schedVars
<1>5. ASSUME NEW w \in Worker, NEW known \in BOOLEAN, Connect(w, known) PROVE j \in contested'
  <2>1. /\ w > connected /\ registry' = registry \cup {w} /\ UNCHANGED <<executing, tableVars>>
    BY <1>5 DEF Connect, Register, TypeOK, SchedTypeOK
  <2>2. executing'[w] = {}
    BY <2>1 DEF FreshWorkers
  <2>. QED
    BY <1>k, <1>p, <2>1, <2>2 DEF tableVars
<1>6. ASSUME NEW p \in PopCall, pop' = [pop EXCEPT ![p] = Idle],
             UNCHANGED <<registry, freeing, errUpdate, acking, status>>,
             \A v \in registry : j \in executing'[v] => j \in executing[v] \/ pop[p].job = j
      PROVE  j \in contested'
  <2>1. \A q \in PopCall : pop'[q].job = j => pop[q].job = j
    <3>1. Idle.job # j
      BY DEF Idle, NoJob, Job
    <3>. QED
      BY <1>t, <1>6, <3>1
  <2>. QED
    BY <1>k, <1>p, <1>6, <2>1
<1>7. ASSUME NEW p \in PopCall, ReturnNothing(p) PROVE j \in contested'
  BY <1>6, <1>7 DEF ReturnNothing, schedVars
<1>8. ASSUME NEW p \in PopCall, ReturnJob(p) PROVE j \in contested'
  <2>1. \A v \in registry : j \in executing'[v] => j \in executing[v] \/ pop[p].job = j
    BY <1>t, <1>8 DEF ReturnJob, Dispatch
  <2>. QED
    BY <1>6, <1>8, <2>1 DEF ReturnJob, Dispatch
<1>9. ASSUME NEW i \in DOMAIN answers, Ack(i) \/ Error(i)
      PROVE  /\ UNCHANGED <<registry, freeing, errUpdate, status>>
             /\ \A p \in PopCall : pop'[p].job = j => pop[p].job = j
             /\ \A v \in registry : j \in executing'[v] => j \in executing[v]
             /\ answers[i].job = j =>
                  \A v \in registry : j \in executing'[v] => v # answers[i].worker
  <2>1. UNCHANGED <<registry, freeing, errUpdate, status>>
    BY <1>9 DEF Ack, Error, TakeAnswer, FreeSlot
  <2>a. StartPop(FALSE) \/ UNCHANGED pop
    BY <1>9 DEF Ack, Error, TakeAnswer
  <2>b. j # NoJob
    BY DEF NoJob, Job
  <2>2. \A p \in PopCall : pop'[p].job = j => pop[p].job = j
    BY <1>t, <2>a, <2>b, StartPopFacts
  <2>3. FreeSlot(answers[i].worker, answers[i].job)
    BY <1>9 DEF Ack, Error, TakeAnswer
  <2>. QED
    BY <1>t, <2>1, <2>2, <2>3 DEF FreeSlot
<1>10. ASSUME NEW i \in DOMAIN answers, Error(i) PROVE j \in contested'
  <2>1. acking' = acking
    BY <1>10 DEF Error, StartError
  <2>. QED
    BY <1>k, <1>p, <1>9, <1>10, <2>1
<1>11. ASSUME NEW i \in DOMAIN answers, Ack(i) PROVE j \in contested'
  <2>1. CASE answers[i].job # j
    <3>1. acking'[j] = acking[j]
      BY <1>t, <1>11, <2>1, AnswerParts DEF Ack, StartAck
    <3>. QED
      BY <1>k, <1>p, <1>9, <1>11, <3>1
  <2>2. CASE answers[i].job = j
    <3>1. DealtWith(j, answers[i].worker)
      BY <1>t, <1>9, <1>11, <2>2 DEF DealtWith
    <3>. QED
      BY <1>11, <2>2, <3>1 DEF Ack
  <2>. QED
    BY <2>1, <2>2
<1>12. ASSUME NEW w \in Worker, Clean(w) PROVE j \in contested'
  <2>1. /\ w \in registry /\ registry' = registry \ {w}
        /\ executing' = [executing EXCEPT ![w] = {}]
        /\ freeing' = [freeing EXCEPT ![w] = executing[w]]
        /\ UNCHANGED <<status, pop, acking, errUpdate>>
    BY <1>12 DEF Clean, Unregister
  <2>2. \A v \in registry' : j \in executing'[v] => j \in executing[v] /\ v \in registry
    BY <1>t, <2>1
  <2>3. \A v \in Worker : j \in freeing'[v] => j \in freeing[v] \/ j \in executing[w]
    BY <1>t, <2>1
  <2>. QED
    BY <1>k, <1>p, <2>1, <2>2, <2>3
<1>13. ASSUME NEW p \in PopCall, PopFind(p), PopStep(p),
              contested' = contested \cup {i \in Job : acking[i] > 0 /\ pop'[p].job = i}
       PROVE  j \in contested'
  <2>1. UNCHANGED <<registry, executing, freeing, errUpdate, acking, status>>
    BY <1>13 DEF PopFind, PopStep, schedVars
  <2>2. \A q \in PopCall \ {p} : pop'[q] = pop[q]
    BY <1>t, <1>13 DEF PopFind
  <2>3. CASE pop'[p].job = j /\ pop[p].job # j
    <3>1. PICK i \in Ready : pop' = [pop EXCEPT ![p].step = "update", ![p].job = i]
      <4>1. CASE pop' = [pop EXCEPT ![p].step = "return"]
        <5>1. pop'[p].job = pop[p].job
          BY <1>t, <4>1
        <5>. QED
          BY <2>3, <5>1
      <4>. QED
        BY <1>13, <4>1 DEF PopFind
    <3>2. i = j
      BY <1>t, <2>3, <3>1 DEF PopState
    <3>3. status[j] # "Completed"
      BY <3>1, <3>2 DEF Ready, Poppable
    <3>. QED
      BY <1>13, <2>1, <2>3, <3>3
  <2>4. CASE ~(pop'[p].job = j /\ pop[p].job # j)
    BY <1>1, <2>1, <2>2, <2>4
  <2>. QED
    BY <2>3, <2>4
<1>14. ASSUME NEW p \in PopCall, PopUpdate(p), PopStep(p) PROVE j \in contested'
  <2>1. UNCHANGED <<registry, executing, freeing, errUpdate, acking>>
    BY <1>14 DEF PopUpdate, PopStep, schedVars
  <2>2. \A q \in PopCall : pop'[q].job = j => pop[q].job = j
    BY <1>t, <1>14 DEF PopUpdate, PopState, Idle, NoJob, Job
  <2>3. status'[j] = "Completed" => status[j] = "Completed"
    BY <1>t, <1>14 DEF PopUpdate, SetStatus, UpdateNamesRow
  <2>. QED
    BY <1>1, <2>1, <2>2, <2>3
<1>15. ASSUME NEW k \in Job, AnswerStep(k) PROVE j \in contested'
  <2>1. UNCHANGED <<registry, executing>>
    BY <1>15 DEF AnswerStep, schedVars
  <2>2. CASE AckUpdate(k)
    <3>1. UNCHANGED <<pop, freeing, errUpdate>> /\ (acking'[j] > 0 => acking[j] > 0)
      BY <1>t, <2>2 DEF AckUpdate
    <3>2. status'[j] = "Completed" => status[j] = "Completed" \/ acking[j] > 0
      BY <1>t, <2>2 DEF AckUpdate, SetStatus
    <3>. QED
      BY <1>k, <1>p, <2>1, <3>1, <3>2
  <2>3. CASE ErrorFind(k)
    <3>1. UNCHANGED <<pop, freeing, acking, status>>
      BY <2>3 DEF ErrorFind
    <3>2. CASE errUpdate'[j] > 0 /\ ~(errUpdate[j] > 0)
      <4>1. k = j /\ status[j] \notin Terminal
        BY <1>t, <2>3, <3>2 DEF ErrorFind
      <4>2. acking'[j] > 0
        BY <3>1, <4>1 DEF Terminal
      <4>. QED
        BY <1>15, <3>2, <4>1, <4>2 DEF AnswerStep
    <3>3. CASE ~(errUpdate'[j] > 0 /\ ~(errUpdate[j] > 0))
      BY <1>k, <1>p, <2>1, <3>1, <3>3
    <3>. QED
      BY <3>2, <3>3
  <2>4. CASE ErrorUpdate(k)
    <3>1. UNCHANGED <<pop, freeing, acking>> /\ (errUpdate'[j] > 0 => errUpdate[j] > 0)
      BY <1>t, <2>4 DEF ErrorUpdate
    <3>2. status'[j] = "Completed" => status[j] = "Completed"
      BY <1>t, <2>4 DEF ErrorUpdate, SetStatus
    <3>. QED
      BY <1>k, <1>p, <2>1, <3>1, <3>2
  <2>. QED
    BY <1>15, <2>2, <2>3, <2>4 DEF AnswerStep
<1>16. ASSUME NEW w \in Worker, FreeStep(w) PROVE j \in contested'
  <2>1. UNCHANGED <<registry, executing, errUpdate, acking, pop>>
    BY <1>16 DEF FreeStep, FreeUpdate, schedVars
  <2>2. \A v \in Worker : j \in freeing'[v] => j \in freeing[v]
    BY <1>t, <1>16 DEF FreeStep, FreeUpdate
  <2>3. status'[j] = "Completed" => status[j] = "Completed"
    BY <1>t, <1>16 DEF FreeStep, FreeUpdate
  <2>. QED
    BY <1>k, <1>p, <2>1, <2>2, <2>3
<1>17. CASE CallFails
  <2>1. UNCHANGED <<registry, executing, status>>
    BY <1>17 DEF CallFails, PopFails, AckFails, ErrorFails, FreeFails, schedVars
  <2>2. ASSUME NEW p \in PopCall, PopFails(p) PROVE j \in contested'
    BY <1>6, <2>1, <2>2 DEF PopFails
  <2>3. ASSUME NEW k \in Job, AckFails(k) \/ ErrorFails(k) PROVE j \in contested'
    <3>1. UNCHANGED <<pop, freeing>>
      BY <2>3 DEF AckFails, ErrorFails
    <3>2. (acking'[j] > 0 => acking[j] > 0) /\ (errUpdate'[j] > 0 => errUpdate[j] > 0)
      BY <1>t, <2>3 DEF AckFails, ErrorFails
    <3>. QED
      BY <1>k, <1>p, <2>1, <3>1, <3>2
  <2>4. ASSUME NEW w \in Worker, FreeFails(w) PROVE j \in contested'
    <3>1. \A v \in Worker : j \in freeing'[v] => j \in freeing[v]
      BY <1>t, <2>4 DEF FreeFails
    <3>. QED
      BY <1>k, <1>p, <2>1, <2>4, <3>1 DEF FreeFails
  <2>. QED
    BY <1>17, <2>2, <2>3, <2>4 DEF CallFails
<1>18. CASE Restart
  BY <1>t, <1>18 DEF Restart, DealtWith, Idle, NoJob, Job
<1>19. ASSUME NEW p \in PopCall, PopStep(p) PROVE j \in contested'
  BY <1>13, <1>14, <1>19 DEF PopStep
<1>. QED
  BY <1>2, <1>3, <1>4, <1>5, <1>7, <1>8, <1>10, <1>11, <1>12, <1>15, <1>16, <1>17, <1>18, <1>19
     DEF Next, Outside

\* Nothing is executing, listed or answered at first.
LEMMA InitIInv == Init => IInv
<1>. SUFFICES ASSUME Init PROVE IInv
  OBVIOUS
<1>1. FreshRows /\ FreshWorkers /\ FreedOnce /\ UpdateNamesRow /\ ExecutingOwed
  BY DEF Init, SchedInit, TableInit, Idle, Exists, FreshRows, FreshWorkers, FreedOnce, UpdateNamesRow, ExecutingOwed,
         Absent
<1>2. LetGo
  BY DEF Init, TableInit, LetGo, Absent
<1>. QED
  BY <1>1, <1>2, TypeInit DEF IInv

\* The inductive invariant of the sessions: types, every Executing row owed by a call or a
\* worker, and which acked jobs something still deals with.
THEOREM SessionsInvariant == Spec => []IInv
<1>1. IInv /\ Next => IInv'
  <2>1. IInv /\ Next => TypeOK' /\ FreshRows' /\ FreshWorkers' /\ FreedOnce'
    BY TypeInductive, FreshRowsInductive, FreshInductive DEF IInv
  <2>2. IInv /\ Next => UpdateNamesRow' /\ ExecutingOwed' /\ LetGo'
    BY UpdateNamesRowInductive, ExecutingOwedInductive, LetGoInductive DEF IInv
  <2>. QED
    BY <2>1, <2>2 DEF IInv
<1>2. IInv /\ UNCHANGED vars => IInv'
  <2>. SUFFICES ASSUME IInv, UNCHANGED vars PROVE IInv'
    OBVIOUS
  <2>1. TypeOK'
    BY TypeInductive DEF IInv
  <2>2. UNCHANGED <<schedVars, tableVars, orphaned, contested>>
    BY DEF vars, historyVars
  <2>3. FreshRows' /\ FreshWorkers' /\ FreedOnce' /\ UpdateNamesRow' /\ ExecutingOwed'
    BY <2>2 DEF IInv, Exists, FreshRows, FreshWorkers, FreedOnce, UpdateNamesRow, ExecutingOwed,
                Owed, schedVars, tableVars
  <2>4. LetGo'
    BY <2>2 DEF IInv, LetGo, DealtWith, schedVars, tableVars
  <2>. QED
    BY <2>1, <2>3, <2>4 DEF IInv
<1>. QED
  BY <1>1, <1>2, InitIInv, PTL DEF Spec

\* No row is Executing for nobody, however streams close, clients die and answers are lost
\* or name other workers, unless its delivery was dropped, an update failed, or the server
\* died meanwhile.
THEOREM ExecutingRowsAreOwed == Spec => []ExecutingOwed
<1>1. IInv => ExecutingOwed
  BY DEF IInv
<1>. QED
  BY <1>1, SessionsInvariant, PTL

\* A completed row is written by a call that deals with its job: a pop, an error or a
\* cleaner, so the job was contested.
LEMMA RerunStep ==
  ASSUME IInv, [Next]_vars, NEW j \in Job, status[j] = "Completed", status'[j] # "Completed"
  PROVE  j \in contested
<1>t. /\ TableTypeOK /\ status \in [Job -> JobStatus \cup {Absent}] /\ created \in Nat
      /\ LetGo /\ UpdateNamesRow /\ FreshRows
  BY DEF IInv, TypeOK, TableTypeOK
<1>d. DealtWith(j, NoWorker) => j \in contested
  BY <1>t DEF LetGo
<1>1. CASE UNCHANGED status
  BY <1>1
<1>2. ASSUME NEW k \in Job, Push(k) PROVE FALSE
  <2>1. k # j
    BY <1>t, <1>2 DEF Push, Insert, FreshRows, Exists, Absent
  <2>. QED
    BY <1>t, <1>2, <2>1 DEF Push, Insert
<1>3. ASSUME NEW p \in PopCall, PopUpdate(p) PROVE j \in contested
  <2>1. pop[p].job = j
    BY <1>t, <1>3 DEF PopUpdate, SetStatus, UpdateNamesRow
  <2>. QED
    BY <1>d, <2>1 DEF DealtWith
<1>4. ASSUME NEW k \in Job, AckUpdate(k) PROVE FALSE
  BY <1>t, <1>4 DEF AckUpdate, SetStatus
<1>5. ASSUME NEW k \in Job, ErrorUpdate(k) PROVE j \in contested
  <2>1. k = j
    BY <1>t, <1>5 DEF ErrorUpdate, SetStatus
  <2>. QED
    BY <1>d, <1>5, <2>1 DEF ErrorUpdate, DealtWith
<1>6. ASSUME NEW w \in Worker, FreeUpdate(w) PROVE j \in contested
  <2>1. j \in freeing[w]
    BY <1>t, <1>6 DEF FreeUpdate
  <2>. QED
    BY <1>d, <2>1 DEF DealtWith
<1>7. CASE Outside
  BY <1>1, <1>7, OutsideKeeps DEF tableVars
<1>8. CASE UNCHANGED vars
  BY <1>1, <1>8 DEF vars, tableVars
<1>. QED
  BY <1>1, <1>2, <1>3, <1>4, <1>5, <1>6, <1>7, <1>8
     DEF Next, Outside, Connect, Restart, Poll, CallFails, PopFails, AckFails, ErrorFails,
         FreeFails, Ack, Error, AnswerStep, ErrorFind, PopStep, PopFind, ReturnNothing, ReturnJob,
         Clean, FreeStep, tableVars

\* A job that was acked runs again only if it was contested when its ack was handled.
THEOREM OnlyContestedRerun == Spec => RerunOnlyContested
<1>1. IInv /\ [Next]_vars =>
        [\A j \in Job : status[j] = "Completed" /\ status'[j] # "Completed" => j \in contested]_vars
  BY RerunStep
<1>. QED
  BY <1>1, SessionsInvariant, PTL DEF Spec, RerunOnlyContested
-----------------------------------------------------------------------------
(***************************************************************************)
(* The client's load.                                                      *)
(***************************************************************************)
\* How many there are from 1 to n, and without the first.
LEMMA IntervalSizes ==
  ASSUME NEW n \in Nat
  PROVE  /\ IsFiniteSet(1..n) /\ Cardinality(1..n) = n
         /\ n > 0 => Cardinality(2..n) = n - 1
<1>0. 1 \in Int /\ 2 \in Int /\ n \in Int
  OBVIOUS
<1>1. IsFiniteSet(1..n) /\ Cardinality(1..n) = IF 1 > n THEN 0 ELSE n - 1 + 1
  BY <1>0, FS_Interval, Zenon
<1>2. Cardinality(2..n) = IF 2 > n THEN 0 ELSE n - 2 + 1
  BY <1>0, FS_Interval, Zenon
<1> QED BY <1>1, <1>2

\* The id comes first on a stream, so what is unread is all but the first at most.
LEMMA UnreadIs ==
  ASSUME NEW s \in Seq(Message), \A i \in 2..Len(s) : s[i] # Welcome
  PROVE  Unread(s) = IF Len(s) > 0 /\ s[1] = Welcome THEN Len(s) - 1 ELSE Len(s)
<1>. DEFINE U == {i \in DOMAIN s : s[i] # Welcome}
<1>1. Len(s) \in Nat /\ DOMAIN s = 1..Len(s)
  OBVIOUS
<1>2. CASE Len(s) > 0 /\ s[1] = Welcome
  <2>2. U = 2..Len(s)
    BY <1>1, <1>2
  <2>3. Cardinality(2..Len(s)) = Len(s) - 1
    BY <1>1, <1>2, IntervalSizes
  <2> QED BY <1>2, <2>2, <2>3 DEF Unread
<1>3. CASE ~(Len(s) > 0 /\ s[1] = Welcome)
  <2>2. U = 1..Len(s)
    BY <1>1, <1>3
  <2>3. Cardinality(1..Len(s)) = Len(s)
    BY <1>1, IntervalSizes
  <2> QED BY <1>3, <2>2, <2>3 DEF Unread
<1> QED BY <1>2, <1>3

\* Nothing is unread where nothing was written.
LEMMA UnreadNothing == Unread(<<>>) = 0
<1>1. {i \in DOMAIN <<>> : <<>>[i] # Welcome} = {}
  OBVIOUS
<1> QED BY <1>1, FS_EmptySet DEF Unread

\* Reading a message.
LEMMA UnreadChanges ==
  ASSUME NEW s \in Seq(Message), \A i \in 2..Len(s) : s[i] # Welcome
  PROVE  /\ Unread(s) \in Nat
         /\ s # <<>> => /\ \A i \in 2..Len(Tail(s)) : Tail(s)[i] # Welcome
                        /\ Unread(Tail(s)) = IF Head(s) = Welcome THEN Unread(s) ELSE Unread(s) - 1
<1>1. Len(s) \in Nat
  OBVIOUS
<1>2. Unread(s) \in Nat
  BY <1>1, UnreadIs
<1>3. ASSUME s # <<>>
      PROVE  /\ \A i \in 2..Len(Tail(s)) : Tail(s)[i] # Welcome
             /\ Unread(Tail(s)) = IF Head(s) = Welcome THEN Unread(s) ELSE Unread(s) - 1
  <2>1. /\ Tail(s) \in Seq(Message) /\ Len(Tail(s)) = Len(s) - 1
        /\ \A i \in 1..Len(s) - 1 : Tail(s)[i] = s[i + 1]
    BY <1>3
  <2>2. \A i \in 1..Len(Tail(s)) : Tail(s)[i] # Welcome
    BY <1>1, <2>1
  <2>3. Unread(Tail(s)) = Len(s) - 1
    <3>1. Len(Tail(s)) > 0 => Tail(s)[1] # Welcome
      BY <1>1, <2>1, <2>2
    <3>a. \A i \in 2..Len(Tail(s)) : Tail(s)[i] # Welcome
      BY <2>2
    <3>2. Unread(Tail(s)) = Len(Tail(s))
      <4> DEFINE t == Tail(s)
      <4>1. t \in Seq(Message) /\ Len(t) \in Nat
        BY <2>1
      <4> HIDE DEF t
      <4> QED BY <3>1, <3>a, <4>1, UnreadIs DEF t
    <3> QED BY <2>1, <3>2
  <2>4. Head(s) = s[1] /\ Len(s) > 0
    BY <1>1, <1>3
  <2> QED BY <1>1, <2>1, <2>2, <2>3, <2>4, UnreadIs
<1> QED BY <1>2, <1>3

\* Writing a job.
LEMMA UnreadAppend ==
  ASSUME NEW s \in Seq(Message), NEW j \in Job, NEW t,
         \A i \in 2..Len(s) : s[i] # Welcome, t = Append(s, j)
  PROVE  (\A i \in 2..Len(t) : t[i] # Welcome) /\ Unread(t) = Unread(s) + 1
<1>1. Len(s) \in Nat
  OBVIOUS
<1>2. /\ t \in Seq(Message) /\ Len(t) = Len(s) + 1
      /\ \A i \in 1..Len(s) : t[i] = s[i]
      /\ t[Len(s) + 1] = j /\ j # Welcome
  BY DEF Message, Welcome, NoJob, Job
<1>3. \A i \in 2..Len(t) : t[i] # Welcome
  BY <1>1, <1>2
<1>4. t[1] = IF Len(s) = 0 THEN j ELSE s[1]
  BY <1>1, <1>2
<1>5. Unread(t) = IF t[1] = Welcome THEN Len(s) ELSE Len(s) + 1
  <2>1. Unread(t) = IF Len(t) > 0 /\ t[1] = Welcome THEN Len(t) - 1 ELSE Len(t)
    BY <1>2, <1>3, UnreadIs
  <2>. QED
    BY <1>1, <1>2, <2>1
<1>. QED
  BY <1>1, <1>2, <1>3, <1>4, <1>5, UnreadIs

\* Taking a free slot makes one more, freeing one makes one fewer at most.
LEMMA SlotsFinite ==
  ASSUME TypeOK
  PROVE  /\ Concurrency[1] \in Nat /\ \A w \in Worker : Concurrency[w] = Concurrency[1]
         /\ IsFiniteSet(TakenSlots) /\ Cardinality(TakenSlots) \in Nat
<1>1. 1 \in Worker /\ IsFiniteSet(Worker)
  BY FS_Interval, MaxWorkersAssumption DEF Worker
<1>2. Concurrency[1] \in Nat /\ \A w \in Worker : Concurrency[w] = Concurrency[1]
  BY <1>1, ConcurrencyAssumption, OneClient
<1>3. IsFiniteSet(1..Concurrency[1])
  BY <1>2, FS_Interval
<1>4. IsFiniteSet(Worker \X (1..Concurrency[1]))
  BY <1>1, <1>3, FS_Product
<1>5. TakenSlots \subseteq Worker \X (1..Concurrency[1])
  BY DEF TakenSlots
<1>6. IsFiniteSet(TakenSlots)
  BY <1>4, <1>5, FS_Subset
<1>. QED
  BY <1>2, <1>6, FS_CardinalityType

LEMMA SlotsChange ==
  ASSUME TypeOK, NEW w \in Worker, UNCHANGED past, load[w] + past[w] <= Concurrency[1]
  PROVE  /\ load[w] + past[w] < Concurrency[1] /\ load' = [load EXCEPT ![w] = @ + 1]
              => Cardinality(TakenSlots') = Cardinality(TakenSlots) + 1
         /\ load' = [load EXCEPT ![w] = IF @ > 0 THEN @ - 1 ELSE 0]
              => Cardinality(TakenSlots') >= Cardinality(TakenSlots) - 1
<1>1. load \in [Worker -> Nat] /\ past \in [Worker -> Nat] /\ Concurrency[1] \in Nat
  BY SlotsFinite DEF TypeOK, SchedTypeOK
<1>2. ASSUME load[w] + past[w] < Concurrency[1], load' = [load EXCEPT ![w] = @ + 1]
      PROVE  Cardinality(TakenSlots') = Cardinality(TakenSlots) + 1
  <2>1. TakenSlots' = TakenSlots \cup {<<w, load[w] + past[w] + 1>>}
    BY <1>1, <1>2 DEF TakenSlots
  <2>2. <<w, load[w] + past[w] + 1>> \notin TakenSlots
    BY <1>1 DEF TakenSlots
  <2>. QED
    BY <2>1, <2>2, SlotsFinite, FS_AddElement
<1>3. ASSUME load' = [load EXCEPT ![w] = IF @ > 0 THEN @ - 1 ELSE 0]
      PROVE  Cardinality(TakenSlots') >= Cardinality(TakenSlots) - 1
  <2>1. CASE load[w] = 0
    <3>1. TakenSlots' = TakenSlots
      BY <1>1, <1>3, <2>1 DEF TakenSlots
    <3>. QED
      BY <3>1, SlotsFinite
  <2>2. CASE load[w] > 0
    <3>1. TakenSlots' = TakenSlots \ {<<w, load[w] + past[w]>>}
      BY <1>1, <1>3, <2>2 DEF TakenSlots
    <3>2. <<w, load[w] + past[w]>> \in TakenSlots
      BY <1>1, <2>2 DEF TakenSlots
    <3>3. Cardinality(TakenSlots') = Cardinality(TakenSlots) - 1
      BY <3>1, <3>2, SlotsFinite, FS_RemoveElement
    <3>. QED
      BY <3>3, SlotsFinite
  <2>. QED
    BY <1>1, <2>1, <2>2
<1>. QED
  BY <1>2, <1>3

\* Every delivery takes a slot, and every answer frees one at most, whichever worker
\* it names.
LEMMA NextSlots ==
  ASSUME TypeOK, SlotPerDelivery, [Next]_vars
  PROVE  SlotPerDelivery'
<1>. DEFINE F == \A i \in 2..Len(inbox) : inbox[i] # Welcome
            C == \A w \in Worker : /\ load[w] + past[w] <= Concurrency[1]
                                   /\ w \in registry => past[w] = 0
                                   /\ w > connected => load[w] = 0 /\ past[w] = 0
            N == Cardinality(TakenSlots)
            U == Unread(inbox)
            A == Len(answers)
            K == Len(working)
<1>0. /\ F /\ C /\ U + K + A <= N + surplus
      /\ N \in Nat /\ surplus \in Nat /\ connected \in Nat /\ U \in Nat /\ K \in Nat /\ A \in Nat
      /\ Concurrency[1] \in Nat /\ \A w \in Worker : Concurrency[w] = Concurrency[1]
      /\ inbox \in Seq(Message) /\ load \in [Worker -> Nat] /\ past \in [Worker -> Nat]
      /\ registry \subseteq 1..connected /\ registry \subseteq Worker /\ Worker \subseteq Nat
  <2>1. F /\ C /\ Unanswered <= N + surplus
    BY DEF SlotPerDelivery
  <2>2. N \in Nat /\ Concurrency[1] \in Nat /\ \A w \in Worker : Concurrency[w] = Concurrency[1]
    BY SlotsFinite
  <2>3. inbox \in Seq(Message) /\ K \in Nat
    BY DEF TypeOK
  <2>4. U \in Nat
    BY <2>1, <2>3, UnreadChanges
  <2>5. A \in Nat
    <3>. HIDE DEF Answer
    <3>. QED
      BY DEF TypeOK
  <2>6. /\ surplus \in Nat /\ load \in [Worker -> Nat] /\ past \in [Worker -> Nat]
        /\ connected \in Nat /\ registry \subseteq 1..connected
        /\ registry \subseteq Worker /\ Worker \subseteq Nat
    BY MaxWorkersAssumption DEF TypeOK, SchedTypeOK, Worker
  <2>. QED
    BY <2>1, <2>2, <2>3, <2>4, <2>5, <2>6 DEF Unanswered
<1>n. /\ U + K + A <= N + surplus
      /\ N \in Nat /\ surplus \in Nat /\ U \in Nat /\ K \in Nat /\ A \in Nat
  BY <1>0
<1>a. ASSUME \A w \in Worker : (load[w] + past[w])' = load[w] + past[w]
      PROVE  N' = N
  <2>1. TakenSlots' = TakenSlots
    BY <1>a DEF TakenSlots
  <2>. QED
    BY <2>1
<1>b. Unread(<<>>) = 0
  BY UnreadNothing
<1>c. ASSUME F', C', U' + K' + A' <= N' + surplus'
      PROVE  SlotPerDelivery'
  BY <1>c DEF SlotPerDelivery, Unanswered
<1>. USE DEF streamVars, clientVars, historyVars, schedVars
\* A step that leaves the load and the streams alone, and adds no answer.
<1>d. ASSUME UNCHANGED <<load, past, registry, connected, surplus>>, F', U' <= U, U' \in Nat,
             K' \in Nat, A' \in Nat, K' + A' <= K + A
      PROVE  SlotPerDelivery'
  <2>1. N' = N
    BY <1>a, <1>d
  <2>2. C'
    BY <1>0, <1>d
  <2>3. U' + K' + A' <= N' + surplus'
    <3>1. U' <= U /\ U' \in Nat /\ K' \in Nat /\ A' \in Nat /\ K' + A' <= K + A
      BY <1>d
    <3>2. surplus' = surplus
      BY <1>d
    <3>. QED
      BY <1>n, <2>1, <3>1, <3>2
  <2>. QED
    BY <1>c, <1>d, <2>2, <2>3
\* A step that leaves all of it alone.
<1>e. ASSUME UNCHANGED <<load, past, registry, connected, surplus, inbox, working, answers>>
      PROVE  SlotPerDelivery'
  <2>1. F' /\ U' = U /\ K' = K /\ A' = A
    BY <1>0, <1>e
  <2>. QED
    BY <1>0, <1>d, <1>e, <2>1
\* A step that empties the stream.
<1>f. ASSUME UNCHANGED <<load, past, registry, connected, surplus, answers>>, inbox' = <<>>,
             working' \in {working, <<>>}
      PROVE  SlotPerDelivery'
  <2>1. F' /\ U' = 0 /\ A' = A
    BY <1>b, <1>f
  <2>2. K' \in Nat /\ K' <= K
    BY <1>0, <1>f
  <2>. QED
    BY <1>0, <1>d, <1>f, <2>1, <2>2
<1>1. ASSUME NEW w \in Worker, NEW known \in BOOLEAN, Connect(w, known) PROVE SlotPerDelivery'
  <2>1. /\ UNCHANGED <<load, past, working, answers, surplus>>
        /\ w = connected + 1 /\ connected' = w /\ registry' = registry \cup {w}
        /\ inbox' = <<Welcome>> \/ inbox' = <<>>
    BY <1>1 DEF Connect, Register
  <2>2. U' = 0 /\ F'
    <3>1. CASE inbox' = <<>>
      BY <1>b, <3>1
    <3>2. CASE inbox' = <<Welcome>>
      <4>1. inbox' \in Seq(Message) /\ Len(inbox') = 1 /\ inbox'[1] = Welcome
        BY <3>2 DEF Message
      <4>2. \A i \in 2..Len(inbox') : inbox'[i] # Welcome
        BY <4>1
      <4>3. PICK t \in Seq(Message) : t = inbox'
        BY <4>1
      <4>4. Unread(t) = IF Len(t) > 0 /\ t[1] = Welcome THEN Len(t) - 1 ELSE Len(t)
        BY <4>2, <4>3, UnreadIs
      <4>. QED
        BY <4>1, <4>2, <4>3, <4>4
    <3>. QED
      BY <2>1, <3>1, <3>2
  <2>3. C'
    <3>1. w \notin registry /\ load[w] = 0 /\ past[w] = 0
      BY <1>0, <2>1
    <3>2. \A v \in Worker : v > connected' => v > connected
      BY <1>0, <2>1
    <3>. QED
      BY <1>0, <2>1, <3>1, <3>2
  <2>4. N' = N
    BY <1>a, <2>1
  <2>5. U' + K' + A' <= N' + surplus'
    <3>1. K' = K /\ A' = A
      BY <2>1
    <3>. QED
      BY <1>n, <2>1, <2>2, <2>4, <3>1
  <2>. QED
    BY <1>c, <2>2, <2>3, <2>5
<1>2. CASE HandleStream
  <2>1. /\ UNCHANGED <<load, past, registry, connected, surplus, answers>>
        /\ inbox # <<>> /\ inbox' = Tail(inbox)
    BY <1>2 DEF HandleStream
  <2>2. F' /\ U' = IF Head(inbox) = Welcome THEN U ELSE U - 1
    BY <1>0, <2>1, UnreadChanges
  <2>3. Head(inbox) \in Message /\ (Head(inbox) # Welcome => U > 0)
    BY <1>0, <2>1, UnreadIs
  <2>4. K' = IF Head(inbox) = Welcome THEN K ELSE K + 1
    BY <1>2, <2>3 DEF HandleStream, TypeOK, Message
  <2>5. N' = N
    BY <1>a, <2>1
  <2>6. C'
    BY <1>0, <2>1
  <2>7. U' + K' + A' <= N' + surplus'
    <3>1. A' = A
      BY <2>1
    <3>. QED
      BY <1>n, <2>1, <2>2, <2>4, <2>5, <3>1
  <2>. QED
    BY <1>c, <2>2, <2>6, <2>7
<1>3. ASSUME NEW i \in DOMAIN working, Execute(i) PROVE SlotPerDelivery'
  <2>1. UNCHANGED <<load, past, registry, connected, inbox>>
    BY <1>3 DEF Execute
  <2>2. /\ K' \in Nat /\ A' \in Nat /\ surplus' \in Nat
        /\ K' = K - 1 /\ A' + surplus = A + 1 + surplus'
    <3>1. working' \in Seq(Job) /\ surplus' \in Nat /\ K' = K - 1
      BY <1>3, ExecuteSends
    <3>2. A' \in Nat
      <4>1. answers' \in Seq(Answer)
        BY <1>3, ExecuteSends
      <4>. HIDE DEF Answer
      <4>. QED
        BY <4>1
    <3>3. A' + surplus = A + 1 + surplus'
      <4>1. \/ A' = A + 1 /\ surplus' = surplus
            \/ A' = A + 2 /\ surplus' = surplus + 1
        BY <1>3, ExecuteSends
      <4>. HIDE DEF A
      <4>. QED
        BY <1>n, <4>1
    <3>. QED
      BY <3>1, <3>2, <3>3
  <2>3. N' = N /\ U' = U /\ F'
    BY <1>0, <1>a, <2>1
  <2>4. C'
    BY <1>0, <2>1
  <2>5. U' + K' + A' <= N' + surplus'
    <3>. QED
      BY <1>n, <2>2, <2>3
  <2>. QED
    BY <1>c, <2>3, <2>4, <2>5
<1>4. ASSUME NEW i \in DOMAIN answers, answers' = RemoveAt(answers, i)
      PROVE  A' = A - 1 /\ A' \in Nat
  <2>1. answers \in Seq(Answer)
    BY DEF TypeOK
  <2>. HIDE DEF Answer
  <2>2. A' = A - 1 /\ RemoveAt(answers, i) \in Seq(Answer)
    BY <1>4, <2>1, RemovedFrom
  <2>. QED
    BY <1>4, <2>2
<1>5. ASSUME NEW i \in DOMAIN answers, LoseAnswer(i) PROVE SlotPerDelivery'
  <2>1. /\ UNCHANGED <<load, past, registry, connected, inbox, surplus, working>>
        /\ answers' = RemoveAt(answers, i)
    BY <1>5 DEF LoseAnswer
  <2>2. F' /\ U' = U /\ K' = K
    BY <1>0, <2>1
  <2>3. K' + A' <= K + A
    <3>1. A' = A - 1
      BY <1>4, <2>1
    <3>. HIDE DEF K, A
    <3>. QED
      BY <1>0, <2>2, <3>1
  <2>. QED
    BY <1>0, <1>4, <1>d, <2>1, <2>2, <2>3
<1>6. ASSUME NEW i \in DOMAIN answers, Ack(i) \/ Error(i) PROVE SlotPerDelivery'
  <2>. DEFINE w == answers[i].worker
  <2>1. /\ UNCHANGED <<past, registry, connected, inbox, working, surplus>>
        /\ answers' = RemoveAt(answers, i)
        /\ \/ load' = load
           \/ w \in registry /\ load' = [load EXCEPT ![w] = IF @ > 0 THEN @ - 1 ELSE 0]
    BY <1>6 DEF Ack, Error, TakeAnswer, FreeSlot
  <2>2. A' = A - 1
    BY <1>4, <2>1
  <2>. HIDE DEF w
  <2>3. C'
    <3>1. \A v \in Worker : load'[v] \in Nat /\ load'[v] <= load[v]
      BY <1>0, <2>1
    <3>. QED
      BY <1>0, <2>1, <3>1
  <2>4. N' >= N - 1 /\ N' \in Nat
    <3>1. N' \in Nat
      <4>1. TakenSlots' \subseteq Worker \X (1..Concurrency[1])
        BY DEF TakenSlots
      <4>2. IsFiniteSet(Worker \X (1..Concurrency[1]))
        <5>1. IsFiniteSet(Worker)
          BY FS_Interval, MaxWorkersAssumption DEF Worker
        <5>2. Concurrency[1] \in Nat
          BY SlotsFinite
        <5>3. IsFiniteSet(1..Concurrency[1])
          BY <5>2, FS_Interval
        <5>. QED
          BY <5>1, <5>3, FS_Product
      <4>3. IsFiniteSet(TakenSlots')
        BY <4>1, <4>2, FS_Subset
      <4>. QED
        BY <4>3, FS_CardinalityType
    <3>2. CASE load' = load
      BY <1>0, <1>a, <2>1, <3>2
    <3>3. CASE w \in registry /\ load' = [load EXCEPT ![w] = IF @ > 0 THEN @ - 1 ELSE 0]
      <4>1. w \in Worker /\ load[w] + past[w] <= Concurrency[1]
        BY <1>0, <3>3
      <4>. QED
        BY <2>1, <3>1, <3>3, <4>1, SlotsChange
    <3>. QED
      BY <2>1, <3>1, <3>2, <3>3
  <2>5. U' + K' + A' <= N' + surplus'
    <3>1. U' = U /\ K' = K /\ surplus' = surplus
      BY <2>1
    <3>. QED
      BY <1>n, <2>2, <2>4, <3>1
  <2>. QED
    BY <1>0, <1>c, <2>1, <2>3, <2>5
<1>7. ASSUME NEW w \in Worker, Clean(w) PROVE SlotPerDelivery'
  <2>1. /\ UNCHANGED <<connected, inbox, working, answers, surplus>>
        /\ w \in registry /\ registry' = registry \ {w}
        /\ load' = [load EXCEPT ![w] = 0] /\ past' = [past EXCEPT ![w] = load[w]]
    BY <1>7 DEF Clean, Unregister
  <2>2. past[w] = 0
    BY <1>0, <2>1
  <2>3. \A v \in Worker : (load[v] + past[v])' = load[v] + past[v]
    BY <1>0, <2>1, <2>2
  <2>4. C'
    BY <1>0, <2>1, <2>2
  <2>5. N' = N /\ U' = U /\ K' = K /\ A' = A /\ F'
    BY <1>0, <1>a, <2>1, <2>3
  <2>. QED
    BY <1>0, <1>c, <2>1, <2>4, <2>5
<1>8. CASE Restart
  <2>1. /\ UNCHANGED <<connected, working, surplus>> /\ inbox' = <<>> /\ answers' = <<>>
        /\ registry' = {} /\ load' = [w \in Worker |-> 0]
        /\ past' = [w \in Worker |-> load[w] + past[w]]
    BY <1>8 DEF Restart
  <2>2. C'
    BY <1>0, <2>1
  <2>3. N' = N
    <3>1. \A v \in Worker : (load[v] + past[v])' = load[v] + past[v]
      BY <1>0, <2>1
    <3>. QED
      BY <1>a, <3>1
  <2>4. U' = 0 /\ F' /\ K' = K /\ A' = 0
    BY <1>b, <2>1
  <2>5. U' + K' + A' <= N' + surplus'
    <3>. QED
      BY <1>n, <2>1, <2>3, <2>4
  <2>. QED
    BY <1>c, <2>2, <2>4, <2>5
<1>9. ASSUME NEW p \in PopCall, ReturnJob(p) PROVE SlotPerDelivery'
  <2>. DEFINE j == pop[p].job
              w == NextWorker
  <2>1. /\ UNCHANGED <<connected, registry, working, answers, surplus, past>>
        /\ j \in Job
    BY <1>9 DEF ReturnJob, Dispatch, TypeOK, TableTypeOK, PopState
  <2>2. CASE w = NoWorker
    <3>1. UNCHANGED <<load, inbox>>
      BY <1>9, <2>2 DEF ReturnJob, Dispatch
    <3>. QED
      BY <1>e, <2>1, <3>1
  <2>3. CASE w # NoWorker
    <3>1. w \in Worker /\ w \in registry /\ load[w] < Concurrency[w]
      BY <2>3, NextWorkerIsAble, NextWorkerType DEF TypeOK, AvailableWorkers, CanWork
    <3>2. /\ load' = [load EXCEPT ![w] = @ + 1]
          /\ inbox' = inbox \/ inbox' = Append(inbox, j)
      BY <1>9, <2>3 DEF ReturnJob, Dispatch
    <3>. HIDE DEF w, j
    <3>3. load[w] + past[w] < Concurrency[1]
      BY <1>0, <3>1
    <3>4. N' = N + 1
      BY <1>0, <2>1, <3>1, <3>2, <3>3, SlotsChange
    <3>5. F' /\ U' \in Nat /\ U' <= U + 1
      <4>1. CASE inbox' = inbox
        BY <1>0, <4>1
      <4>2. CASE inbox' = Append(inbox, j)
        <5>1. inbox \in Seq(Message) /\ \A i \in 2..Len(inbox) : inbox[i] # Welcome
          BY <1>0
        <5>2. F' /\ U' = U + 1
          BY <2>1, <4>2, <5>1, UnreadAppend
        <5>. QED
          BY <1>n, <5>2
      <4>. QED
        BY <3>2, <4>1, <4>2
    <3>6. C'
      BY <1>0, <2>1, <3>1, <3>2, <3>3
    <3>7. U' + K' + A' <= N' + surplus'
      <4>1. K' = K /\ A' = A
        BY <2>1
      <4>. QED
        BY <1>n, <2>1, <3>4, <3>5, <4>1
    <3>. QED
      BY <1>c, <3>5, <3>6, <3>7
  <2>. QED
    BY <2>2, <2>3
<1>10. CASE Close
  BY <1>10, <1>f DEF Close
<1>11. CASE Crash
  BY <1>11, <1>f DEF Crash
<1>12. ASSUME NEW p \in PopCall, PopStep(p) \/ ReturnNothing(p) PROVE SlotPerDelivery'
  BY <1>12, <1>e DEF PopStep, ReturnNothing
<1>13. ASSUME NEW j \in Job, Push(j) \/ AnswerStep(j) PROVE SlotPerDelivery'
  BY <1>13, <1>e DEF Push, AnswerStep
<1>14. CASE Start \/ Poll \/ CallFails \/ \E w \in Worker : FreeStep(w)
  BY <1>14, <1>e DEF Start, Poll, CallFails, FreeStep
<1>15. CASE UNCHANGED vars
  BY <1>15, <1>e DEF vars
<1>. QED
  BY <1>1, <1>2, <1>3, <1>5, <1>6, <1>7, <1>8, <1>9, <1>10, <1>11, <1>12, <1>13, <1>14, <1>15
     DEF Next

\* The slots of the streams so far are no more than the client's concurrency each.
LEMMA SlotsBounded ==
  ASSUME TypeOK, SlotPerDelivery
  PROVE  LoadPerSession
<1>1. connected \in Nat /\ Concurrency[1] \in Nat /\ surplus \in Nat
  BY SlotsFinite DEF TypeOK, SchedTypeOK
<1>2. /\ IsFiniteSet(1..connected) /\ Cardinality(1..connected) = connected
      /\ IsFiniteSet(1..Concurrency[1]) /\ Cardinality(1..Concurrency[1]) = Concurrency[1]
  BY <1>1, FS_Interval
<1>3. /\ IsFiniteSet((1..connected) \X (1..Concurrency[1]))
      /\ Cardinality((1..connected) \X (1..Concurrency[1])) = connected * Concurrency[1]
  BY <1>2, FS_Product
<1>4. TakenSlots \subseteq (1..connected) \X (1..Concurrency[1])
  BY <1>1 DEF TakenSlots, SlotPerDelivery, Worker
<1>5. Cardinality(TakenSlots) <= connected * Concurrency[1]
  BY <1>3, <1>4, FS_Subset
<1>6. Unanswered \in Nat /\ Unanswered <= Cardinality(TakenSlots) + surplus
  <2>1. Unread(inbox) \in Nat
    BY UnreadChanges DEF SlotPerDelivery, TypeOK
  <2>2. Len(working) \in Nat
    BY DEF TypeOK
  <2>3. Len(answers) \in Nat
    <3>. HIDE DEF Answer
    <3>. QED
      BY DEF TypeOK
  <2>. QED
    BY <2>1, <2>2, <2>3 DEF SlotPerDelivery, Unanswered
<1>7. PICK n \in Nat : n = connected * Concurrency[1] /\ n = Concurrency[1] * connected
  BY <1>1
<1>. QED
  BY <1>1, <1>5, <1>6, <1>7, SlotsFinite DEF LoadPerSession

\* A client that connects again is sent its concurrency once more, an answer too many
\* brings it one job more, and nothing else overloads it.
THEOREM LoadIsPerSession == Spec => []LoadPerSession
<1>1. Init => SlotPerDelivery
  <2>. SUFFICES ASSUME Init PROVE SlotPerDelivery
    OBVIOUS
  <2>1. TypeOK
    BY TypeInit
  <2>2. Unread(<<>>) = 0
    BY UnreadNothing
  <2>3. \A w \in Worker : load[w] = 0 /\ past[w] = 0
    BY DEF Init, SchedInit
  <2>4. Unanswered = 0 /\ surplus = 0 /\ inbox = <<>>
    BY <2>2 DEF Init, Unanswered
  <2>5. \A i \in 2..Len(inbox) : inbox[i] # Welcome
    BY <2>4
  <2>6. \A w \in Worker : /\ load[w] + past[w] <= Concurrency[1]
                          /\ w \in registry => past[w] = 0
                          /\ w > connected => load[w] = 0 /\ past[w] = 0
    BY <2>1, <2>3, SlotsFinite
  <2>7. Unanswered <= Cardinality(TakenSlots) + surplus
    BY <2>1, <2>4, SlotsFinite
  <2>. QED
    BY <2>5, <2>6, <2>7 DEF SlotPerDelivery
<1>2. TypeOK /\ SlotPerDelivery /\ [Next]_vars => SlotPerDelivery'
  BY NextSlots
<1>3. TypeOK /\ SlotPerDelivery => LoadPerSession
  BY SlotsBounded
<1>. QED
  BY <1>1, <1>2, <1>3, SessionsTypeCorrect, PTL DEF Spec
=============================================================================
