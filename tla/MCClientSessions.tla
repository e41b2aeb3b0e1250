-------------------------- MODULE MCClientSessions --------------------------
(***************************************************************************)
(* Instances of ClientSessions for TLC: one client that takes one job at a *)
(* time.                                                                   *)
(***************************************************************************)
EXTENDS ClientSessions

MCConcurrency == [w \in Worker |-> 1]

MCRetry == [j \in Job |-> NoRetry]

=============================================================================
