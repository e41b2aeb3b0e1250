------------------------------ MODULE JobTypes ------------------------------
(***************************************************************************)
(* The vocabulary shared by the modules of the job queue: the rows of the  *)
(* Job table and the worker connections.                                   *)
(*                                                                         *)
(* Job.create draws a fresh UUID, so a row is named by its place in the    *)
(* order of the commits of push: the n-th row ever inserted is job n.      *)
(* MaxJobs bounds the number of rows ever inserted.                        *)
(*                                                                         *)
(* A worker is one accepted ListenQueue stream: WorkerInstance.create      *)
(* draws a fresh UUID for it, so a client that connects again is another   *)
(* worker.  Workers are named by the order in which their streams were     *)
(* accepted, which is the order in which pushWorker appends them to the    *)
(* array of the scheduler.  MaxWorkers bounds the streams ever accepted.   *)
(***************************************************************************)
EXTENDS Integers

CONSTANTS
  MaxJobs,    \* number of rows a behaviour may insert into the Job table
  MaxWorkers  \* number of streams a behaviour may accept

ASSUME MaxJobsAssumption == MaxJobs \in Nat \ {0}
ASSUME MaxWorkersAssumption == MaxWorkers \in Nat \ {0}

Job   == 1..MaxJobs
NoJob == 0

Worker   == 1..MaxWorkers
NoWorker == 0

\* enum JobStatus of prisma/schema.prisma
JobStatus == {"Available", "Executing", "Retryable", "Completed", "Discarded"}

\* There is no row with this id: not inserted yet, or deleted.
Absent == "Absent"

\* The statuses pop selects, and the statuses error and the cleanup treat as final.
Poppable == {"Available", "Retryable"}
Terminal == {"Completed", "Discarded"}
=============================================================================
