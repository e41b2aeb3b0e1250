-------------------------------- MODULE Heap --------------------------------
(***************************************************************************)
(* HeapBuilder (src/utils/heap.ts): a binary heap in an array.  The array  *)
(* is a sequence, so the parent of position i is i \div 2.  The callbacks  *)
(* of the constructor are the constants: Comparison(p, c) holds when the   *)
(* child c must be above its parent p, IsEqual names the element removed.  *)
(***************************************************************************)
EXTENDS Integers, FiniteSetsExt, SequencesExt

CONSTANTS Elements, Comparison(_, _), IsEqual(_, _)

\* A loop's state: the array and the index it has come to.
Loop == [arr : Seq(Elements), index : Nat \ {0}]

Parent(i) == i \div 2

Exchange(arr, i, k) == [arr EXCEPT ![i] = arr[k], ![k] = arr[i]]

\* insert's loop: the element is above its parent from then on.
Up(s) == [arr |-> Exchange(s.arr, s.index, Parent(s.index)), index |-> Parent(s.index)]

Misplaced(s) ==
  s.index \in DOMAIN s.arr \ {1} /\ Comparison(s.arr[Parent(s.index)], s.arr[s.index])

SiftUp[s \in Loop] == IF Misplaced(s) THEN SiftUp[Up(s)] ELSE s.arr

HeapInsert(arr, e) == SiftUp[[arr |-> Append(arr, e), index |-> Len(arr) + 1]]

\* The child at k if there is one and it beats what is at i.
Better(arr, i, k) == IF k \in DOMAIN arr /\ Comparison(arr[i], arr[k]) THEN k ELSE i

\* Mutant of PriorityChild: the right child is compared with the parent.
PriorityChildOfParent(arr, i) ==
  IF Better(arr, i, 2 * i + 1) # i THEN 2 * i + 1 ELSE Better(arr, i, 2 * i)

\* The place the two comparisons of remove's loop choose: the left child if
\* it beats i, then the right one if it beats that choice.
PriorityChild(arr, i) == Better(arr, Better(arr, i, 2 * i), 2 * i + 1)

Down(s) == LET child == PriorityChild(s.arr, s.index)
           IN  [arr |-> Exchange(s.arr, s.index, child), index |-> child]

Settled(s) == PriorityChild(s.arr, s.index) = s.index

SiftDown[s \in Loop] == IF Settled(s) THEN s.arr ELSE SiftDown[Down(s)]

Holes(arr, e) == {i \in DOMAIN arr : IsEqual(arr[i], e)}

\* Mutant of HeapRemoveAt: the last element is not taken off the end.
HeapRemoveAtKeepsLast(arr, i) == SiftDown[[arr |-> [arr EXCEPT ![i] = Last(arr)], index |-> i]]

\* The last element fills the first hole and is sifted down, never up.
HeapRemoveAt(arr, i) ==
  SiftDown[[arr |-> Front([arr EXCEPT ![i] = Last(arr)]), index |-> i]]

HeapRemove(arr, e) ==
  IF Holes(arr, e) = {} THEN arr ELSE HeapRemoveAt(arr, Min(Holes(arr, e)))

Empty(arr) == arr = <<>>
Top(arr) == arr[1]

\* pop is remove(top()): the array that is left.
HeapPop(arr) == HeapRemove(arr, Top(arr))

\* No element must be above its parent: what makes the top a first element.
Ordered(arr) == \A i \in 2..Len(arr) : ~Comparison(arr[Parent(i)], arr[i])
=============================================================================
