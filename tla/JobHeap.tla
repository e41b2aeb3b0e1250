------------------------------- MODULE JobHeap -------------------------------
(***************************************************************************)
(* The heap of leases as the job supervisor uses it: registered leases go  *)
(* in, the first one is popped, an answered job's lease is removed from    *)
(* the middle (src/worker/producer/job.supervisor.ts, src/utils/heap.ts).  *)
(***************************************************************************)
EXTENDS LeaseHeap

CONSTANTS
  Used,     \* the leases in use
  MaxHeld   \* bound: leases in the heap at once

\* One lease for a job at most: Leases has the jobs that come twice.
ASSUME HeapAssumptions ==
  /\ MaxHeld \in Nat /\ Used \subseteq Lease
  /\ \A k, l \in Used : k.jobID = l.jobID => k = l

VARIABLES jobHeap,  \* the array
          held,     \* history: the leases put in and not taken out
          taken,    \* history: what the last pop returned
          intact    \* history: no lease was removed since the heap was empty

heapVars == <<jobHeap, held, taken, intact>>

HeapInit == jobHeap = <<>> /\ held = {} /\ taken = NoLease /\ intact = TRUE

InsertLease(e) ==
  /\ e \notin held
  /\ Len(jobHeap) < MaxHeld
  /\ jobHeap' = H!HeapInsert(jobHeap, e)
  /\ held' = held \cup {e}
  /\ taken' = NoLease
  /\ UNCHANGED intact

PopLease ==
  /\ ~H!Empty(jobHeap)
  /\ taken' = H!Top(jobHeap)
  /\ held' = held \ {taken'}
  /\ jobHeap' = H!HeapPop(jobHeap)
  /\ intact' = (intact \/ held' = {})

\* Of any job: one that has no lease here leaves the heap as it is.
RemoveLease(e) ==
  /\ jobHeap' = H!HeapRemove(jobHeap, ByJob(e.jobID))
  /\ held' = held \ {e}
  /\ taken' = NoLease
  /\ intact' = (held' = {} \/ (intact /\ e \notin held))

HeapNext == PopLease \/ \E e \in Used : InsertLease(e) \/ RemoveLease(e)

HeapSpec == HeapInit /\ [][HeapNext]_heapVars

\* The heap holds what was put in and not taken out, each lease once,
\* whichever way the elements moved.
HoldsExactly ==
  /\ Range(jobHeap) = held
  /\ \A i, k \in DOMAIN jobHeap : jobHeap[i] = jobHeap[k] => i = k

\* remove keeps the order of an ordered heap unless the element that fills
\* the hole belongs above the hole's parent, and breaks it always then: the
\* exact price of sifting down only.
RemovalBreaksOrderOnlyAbove ==
  [][\A e \in Used :
       RemoveLease(e) /\ e \in held /\ H!Ordered(jobHeap) =>
         LET i == CHOOSE i \in DOMAIN jobHeap : jobHeap[i] = e
         IN  H!Ordered(jobHeap') <=>
               \/ i \in {1, Len(jobHeap)}
               \/ ~Behind(jobHeap[H!Parent(i)], jobHeap[Len(jobHeap)])]_heapVars

\* As long as leases leave by pop alone the heap is a priority queue: each
\* pop returns a lease no other is due before.  Once a lease was removed from
\* the middle that is promised again only when the heap has run empty.
Queue == INSTANCE PriorityQueue WITH Elements <- Used, NoElement <- NoLease
IsPriorityQueue == Queue!Spec
==============================================================================
