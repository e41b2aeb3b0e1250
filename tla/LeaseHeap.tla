------------------------------ MODULE LeaseHeap ------------------------------
(***************************************************************************)
(* A lease, and the heap the JobSupervisor keeps leases in: HeapBuilder    *)
(* with the callbacks of its constructor                                   *)
(* (src/worker/producer/job.supervisor.ts).                                *)
(***************************************************************************)
EXTENDS Integers, Sequences, Functions

CONSTANTS
  Jobs,        \* ids of jobs
  LeaseTimes,  \* the lease_time a job may carry
  MaxStart,    \* bound: instant of the last registration
  NoLease

Lease == [jobID : Jobs, leaseTime : LeaseTimes, startedAt : 0..MaxStart]

ASSUME LeaseAssumptions ==
  /\ LeaseTimes \subseteq Nat \ {0} /\ MaxStart \in Nat
  /\ NoLease \notin Lease

\* Date.now() is subtracted on both sides of the comparison; the lease time is
\* added as it is, in seconds, to a start in milliseconds.
Due(l) == l.startedAt + l.leaseTime
Behind(left, target) == Due(left) > Due(target)

SameJob(left, right) == left.jobID = right.jobID

H == INSTANCE Heap WITH Elements <- Lease, Comparison <- Behind, IsEqual <- SameJob

\* What the supervisor removes by: a lease made of the job's id alone.
ByJob(j) == [jobID |-> j, leaseTime |-> 0, startedAt |-> 0]
==============================================================================
