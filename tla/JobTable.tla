------------------------------ MODULE JobTable ------------------------------
(***************************************************************************)
(* The Job table and the calls the server has in flight on it: the methods *)
(* of JobQueueService, WorkerCleaner.freeExecutingJobs and the cleanup     *)
(* thread, each split at its awaits.  One SQL statement is one action:     *)
(* under PostgreSQL's read committed isolation another call may run        *)
(* between two statements of a transaction.                                *)
(*                                                                         *)
(*   status    the column status of every row, Absent without a row        *)
(*   metadata  the column metadata                                         *)
(*   created   how many rows were ever inserted                            *)
(*   createdAt the column created_at of every row ever inserted: the       *)
(*             default now() is drawn before the commit and has            *)
(*             milliseconds, so rows may be committed in another order     *)
(*             and several may have the same value                         *)
(*   pop       the calls of pop in flight, one per element of PopCall; a   *)
(*             call is "polled" when the ticker of the producer made it,   *)
(*             whose continuation also updates the producer's record       *)
(*   acking    for every job, how many updates of ack are in flight        *)
(*   errFind, errUpdate  for every job, how many calls of error are before *)
(*             their findUnique, and between it and their update           *)
(*   freeing   the ids the updateMany in flight of each worker's cleaner   *)
(*             names, none when no such update is in flight                *)
(***************************************************************************)
EXTENDS JobTypes, JobClass

CONSTANTS
  Time,      \* the values of created_at; rows with the same one are taken in any order
  PopCall,   \* bounds the calls of pop in flight at a time
  MaxCalls,  \* bounds the calls of ack, and of error, in flight for one job
  Retry      \* [Job -> RetryEntry], the retry entry each job is pushed with

ASSUME TimeAssumption == Time \subseteq Nat
ASSUME MaxCallsAssumption == MaxCalls \in Nat \ {0}
ASSUME RetryAssumption == Retry \in [Job -> RetryEntry]

VARIABLES status, metadata, created, createdAt, pop, acking, errFind, errUpdate, freeing

tableVars == <<status, metadata, created, createdAt, pop, acking, errFind, errUpdate, freeing>>

Idle == [step |-> "idle", job |-> NoJob, polled |-> FALSE]

PopState == [step : {"idle", "find", "update", "return"}, job : Job \cup {NoJob},
             polled : BOOLEAN]

TableTypeOK ==
  /\ status \in [Job -> JobStatus \cup {Absent}]
  /\ metadata \in [Job -> JobMetadata]
  /\ created \in 0..MaxJobs
  /\ createdAt \in [Job -> Nat]
  /\ pop \in [PopCall -> PopState]
  /\ acking \in [Job -> Nat]
  /\ errFind \in [Job -> Nat]
  /\ errUpdate \in [Job -> Nat]
  /\ freeing \in [Worker -> SUBSET Job]

TableInit ==
  /\ status = [j \in Job |-> Absent]
  /\ metadata = [j \in Job |-> Stringify(Metadata(NoRetry))]
  /\ created = 0
  /\ createdAt = [j \in Job |-> 0]
  /\ pop = [p \in PopCall |-> Idle]
  /\ acking = [j \in Job |-> 0]
  /\ errFind = [j \in Job |-> 0]
  /\ errUpdate = [j \in Job |-> 0]
  /\ freeing = [w \in Worker |-> {}]

Exists(j) == status[j] # Absent
Ready     == {j \in Job : status[j] \in Poppable}

\* update where id = j: an absent row makes the call throw and changes nothing.
SetStatus(j, s) == status' = IF Exists(j) THEN [status EXCEPT ![j] = s] ELSE status
-----------------------------------------------------------------------------
\* push, of a row whose created_at is t.  Nothing ties t to the rows that are there: the
\* statements of other pushes may have drawn theirs before it and commit after it.
Insert(j, t) ==
  /\ j = created + 1
  /\ created' = j
  /\ createdAt' = [createdAt EXCEPT ![j] = t]
  /\ status' = [status EXCEPT ![j] = "Available"]
  /\ metadata' = [metadata EXCEPT ![j] = Stringify(Metadata(Retry[j]))]
  /\ UNCHANGED <<pop, acking, errFind, errUpdate, freeing>>

\* A handler calls popQueue: the call is in flight, before its findFirst.
StartPop(polled) ==
  \E p \in PopCall :
    /\ pop[p] = Idle
    /\ pop' = [pop EXCEPT ![p] = [step |-> "find", job |-> NoJob, polled |-> polled]]

\* The server calls ack, or error: the call is in flight, before its first statement.
StartAck(j) ==
  /\ acking[j] < MaxCalls
  /\ acking' = [acking EXCEPT ![j] = @ + 1]
  /\ UNCHANGED errFind

StartError(j) ==
  /\ errFind[j] < MaxCalls
  /\ errFind' = [errFind EXCEPT ![j] = @ + 1]
  /\ UNCHANGED acking

\* Mutant of PopFind: orderBy created_at desc.
PopFindNewest(p) ==
  /\ pop[p].step = "find"
  /\ \/ /\ Ready = {}
        /\ pop' = [pop EXCEPT ![p].step = "return"]
     \/ \E j \in Ready :
          /\ \A i \in Ready : createdAt[i] <= createdAt[j]
          /\ pop' = [pop EXCEPT ![p].step = "update", ![p].job = j]
  /\ UNCHANGED <<status, metadata, created, createdAt, acking, errFind, errUpdate, freeing>>

\* findFirst, orderBy created_at asc: an oldest row that is ready, if any.
PopFind(p) ==
  /\ pop[p].step = "find"
  /\ \/ /\ Ready = {}
        /\ pop' = [pop EXCEPT ![p].step = "return"]
     \/ \E j \in Ready :
          /\ \A i \in Ready : createdAt[j] <= createdAt[i]
          /\ pop' = [pop EXCEPT ![p].step = "update", ![p].job = j]
  /\ UNCHANGED <<status, metadata, created, createdAt, acking, errFind, errUpdate, freeing>>

\* The update of the row found.  It names the row by id alone, whatever its status has
\* become; if the row is gone the transaction fails, and with it the whole call.
PopUpdate(p) ==
  /\ pop[p].step = "update"
  /\ SetStatus(pop[p].job, "Executing")
  /\ pop' = [pop EXCEPT ![p] = IF Exists(@.job) THEN [@ EXCEPT !.step = "return"] ELSE Idle]
  /\ UNCHANGED <<metadata, created, createdAt, acking, errFind, errUpdate, freeing>>

\* ack's update, which nobody awaits.
AckUpdate(j) ==
  /\ acking[j] > 0
  /\ acking' = [acking EXCEPT ![j] = @ - 1]
  /\ SetStatus(j, "Completed")
  /\ UNCHANGED <<metadata, created, createdAt, pop, errFind, errUpdate, freeing>>

\* error's findUnique: a row that is absent or in a final status ends the call.
ErrorFind(j) ==
  /\ errFind[j] > 0
  /\ errFind' = [errFind EXCEPT ![j] = @ - 1]
  /\ errUpdate' = IF status[j] \in Terminal \cup {Absent}
                  THEN errUpdate
                  ELSE [errUpdate EXCEPT ![j] = @ + 1]
  /\ UNCHANGED <<status, metadata, created, createdAt, pop, acking, freeing>>

\* error's update.  The job is rebuilt from the column as it is read, not parsed, so
\* retry() runs on a text; the metadata it leaves is written back.
ErrorUpdate(j) ==
  /\ errUpdate[j] > 0
  /\ errUpdate' = [errUpdate EXCEPT ![j] = @ - 1]
  /\ SetStatus(j, IF RetryAllowed(metadata[j]) THEN "Retryable" ELSE "Discarded")
  /\ metadata' = [metadata EXCEPT ![j] = AfterRetry(@)]
  /\ UNCHANGED <<created, createdAt, pop, acking, errFind, freeing>>

\* freeExecutingJobs: the rows named, whatever their status.
FreeUpdate(w) ==
  /\ freeing[w] # {}
  /\ freeing' = [freeing EXCEPT ![w] = {}]
  /\ status' = [j \in Job |-> IF j \in freeing[w] /\ Exists(j) THEN "Available" ELSE status[j]]
  /\ UNCHANGED <<metadata, created, createdAt, pop, acking, errFind, errUpdate>>

\* cleanDb, of the rows that are done and past the age limit t.
Expired(t) == {j \in Job : status[j] \in Terminal /\ createdAt[j] <= t}

CleanDb(t) ==
  /\ Expired(t) # {}
  /\ status' = [j \in Job |-> IF j \in Expired(t) THEN Absent ELSE status[j]]
  /\ UNCHANGED <<metadata, created, createdAt, pop, acking, errFind, errUpdate, freeing>>
-----------------------------------------------------------------------------
(***************************************************************************)
(* A call that fails at its next statement: its transaction is rolled      *)
(* back, the error is logged, answered or left to an unhandled rejection,  *)
(* and nothing is retried.                                                 *)
(***************************************************************************)
PopFails(p) ==
  /\ pop[p].step \in {"find", "update"}
  /\ pop' = [pop EXCEPT ![p] = Idle]
  /\ UNCHANGED <<status, metadata, created, createdAt, acking, errFind, errUpdate, freeing>>

AckFails(j) ==
  /\ acking[j] > 0
  /\ acking' = [acking EXCEPT ![j] = @ - 1]
  /\ UNCHANGED <<status, metadata, created, createdAt, pop, errFind, errUpdate, freeing>>

ErrorFails(j) ==
  /\ \/ /\ errFind[j] > 0
        /\ errFind' = [errFind EXCEPT ![j] = @ - 1]
        /\ UNCHANGED errUpdate
     \/ /\ errUpdate[j] > 0
        /\ errUpdate' = [errUpdate EXCEPT ![j] = @ - 1]
        /\ UNCHANGED errFind
  /\ UNCHANGED <<status, metadata, created, createdAt, pop, acking, freeing>>

FreeFails(w) ==
  /\ freeing[w] # {}
  /\ freeing' = [freeing EXCEPT ![w] = {}]
  /\ UNCHANGED <<status, metadata, created, createdAt, pop, acking, errFind, errUpdate>>
=============================================================================
