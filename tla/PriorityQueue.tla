---------------------------- MODULE PriorityQueue ----------------------------
(***************************************************************************)
(* What HeapBuilder promises its caller: a set to which elements are added *)
(* and which Pop returns a first element of, as long as none was removed   *)
(* by name since the set was empty.                                        *)
(***************************************************************************)
CONSTANTS Elements, Behind(_, _), NoElement

VARIABLES held,   \* the elements inserted and not yet taken or removed
          taken,  \* what the last call returned, NoElement if nothing
          intact  \* no element was removed by name since the set was empty

vars == <<held, taken, intact>>

First(e) == \A f \in held : ~Behind(e, f)

Init == held = {} /\ taken = NoElement /\ intact = TRUE

Insert(e) == /\ e \notin held
             /\ held' = held \cup {e}
             /\ taken' = NoElement
             /\ UNCHANGED intact

Pop(e) == /\ e \in held
          /\ intact => First(e)
          /\ held' = held \ {e}
          /\ taken' = e
          /\ intact' = (intact \/ held' = {})

\* A first element may have an equal: removed by name, it is not the top.
Remove(e) == /\ held' = held \ {e}
             /\ taken' = NoElement
             /\ intact' = (held' = {} \/ (intact /\ e \notin held))

Next == \E e \in Elements : Insert(e) \/ Pop(e) \/ Remove(e)

Spec == Init /\ [][Next]_vars
==============================================================================
