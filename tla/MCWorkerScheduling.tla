------------------------- MODULE MCWorkerScheduling -------------------------
(***************************************************************************)
(* Instances of WorkerScheduling for TLC.                                  *)
(***************************************************************************)
EXTENDS WorkerScheduling

\* Worker 2 takes two jobs at a time, the others one.
MCConcurrency == [w \in Worker |-> IF w = 2 THEN 2 ELSE 1]
==============================================================================
