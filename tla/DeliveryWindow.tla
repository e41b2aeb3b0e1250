--------------------------- MODULE DeliveryWindow ---------------------------
(***************************************************************************)
(* What the server promises the clients of the workers: the deliveries a   *)
(* client has not answered stay within the window it asked for, it gets    *)
(* none before it is registered or after it was removed, and they come     *)
(* one at a time.  Abstract: no rows, no pops, no scheduler and no load;   *)
(* JobDelivery implements it.                                              *)
(***************************************************************************)
EXTENDS Integers

CONSTANTS Worker, Concurrency

VARIABLES
  open,         \* workers that may be sent jobs
  outstanding   \* for every worker, the deliveries it has not answered

vars == <<open, outstanding>>

Init == open = {} /\ outstanding = [w \in Worker |-> 0]

Join(w) ==
  /\ w \notin open /\ outstanding[w] = 0
  /\ open' = open \cup {w}
  /\ UNCHANGED outstanding

Deliver(w) ==
  /\ w \in open /\ outstanding[w] < Concurrency[w]
  /\ outstanding' = [outstanding EXCEPT ![w] = @ + 1]
  /\ UNCHANGED open

\* An answer arrives, or is lost.  A worker that was removed may still answer.
Settle(w) ==
  /\ outstanding[w] > 0
  /\ outstanding' = [outstanding EXCEPT ![w] = @ - 1]
  /\ UNCHANGED open

Leave(w) ==
  /\ w \in open
  /\ open' = open \ {w}
  /\ UNCHANGED outstanding

Next == \E w \in Worker : Join(w) \/ Deliver(w) \/ Settle(w) \/ Leave(w)

Spec == Init /\ [][Next]_vars
=============================================================================
