------------------------------ MODULE MCJobHeap ------------------------------
(* Leases of which two are due together: six are the smallest heap in which   *)
(* the last element may lie in another subtree than the hole and belong above *)
(* it.  Starts and lengths take turns.                                        *)
EXTENDS JobHeap

CONSTANT Count

MCDue(i) == IF i = 2 THEN 2 ELSE i + 1
MCLength(i) == IF i % 2 = 0 THEN 1 ELSE 2
MCUsed == {[jobID |-> i, leaseTime |-> MCLength(i), startedAt |-> MCDue(i) - MCLength(i)] : i \in 1..Count}
MCJobs == 1..Count
==============================================================================
