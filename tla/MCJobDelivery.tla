--------------------------- MODULE MCJobDelivery ---------------------------
(***************************************************************************)
(* Instances of JobDelivery for TLC.                                       *)
(***************************************************************************)
EXTENDS JobDelivery

\* The first worker takes one job at a time, the second two.
MCConcurrency == [w \in Worker |-> w]

\* Every job asks for two attempts.
MCRetry == [j \in Job |-> RetryMeta(2, "fixed", 1, 0)]

Symmetry == Permutations(PopCall)
=============================================================================
