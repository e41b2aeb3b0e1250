-------------------------- MODULE SupervisorProofs --------------------------
(***************************************************************************)
(* Theorems about the heap of leases and about the supervisor that uses    *)
(* it, for any jobs, lengths, starts and bounds.                           *)
(***************************************************************************)
EXTENDS Leases, JobHeap, WellFoundedInduction, TLAPS

-----------------------------------------------------------------------------
(* Loops: a function that calls itself last, over the states S of a loop.  *)

IsLoop(f, S, Stop, out, step) ==
  f = [x \in S |-> IF x \in Stop THEN out[x] ELSE f[step[x]]]

LEMMA LeastNatural ==
  ASSUME NEW T \in SUBSET Nat, T # {}
  PROVE  \E m \in T : \A t \in T : m <= t
<1> DEFINE Below == OpToRel(<, Nat)
<1>1. PICK m \in T : \A t \in T : ~(<<t, m>> \in Below)
  BY NatLessThanWellFounded, WFMin
<1>2. ASSUME NEW t \in T PROVE m <= t
  <2>1. t \in Nat /\ m \in Nat
    OBVIOUS
  <2>2. t < m => <<t, m>> \in Below
    BY <2>1 DEF OpToRel
  <2> HIDE DEF Below
  <2> QED BY <1>1, <2>1, <2>2
<1> QED BY <1>2

\* Such a function exists, whether or not the loop ends: it gives what the state the
\* loop stops in has, if there is one.
LEMMA LoopDefined ==
  ASSUME NEW S, NEW Stop, NEW out, NEW step,
         \A x \in S \ Stop : step[x] \in S
  PROVE  \E g : IsLoop(g, S, Stop, out, step)
<1> DEFINE Closed(x) == {T \in SUBSET S : x \in T /\ \A y \in T \ Stop : step[y] \in T}
           Ends(x) == {y \in S \cap Stop : \A T \in Closed(x) : y \in T}
           g == [x \in S |-> out[CHOOSE y : y \in Ends(x)]]
<1>1. ASSUME NEW x \in S, x \in Stop PROVE g[x] = out[x]
  <2>1. {x} \in Closed(x)
    BY <1>1
  <2>2. Ends(x) = {x}
    BY <1>1, <2>1
  <2>3. (CHOOSE y : y \in {x}) = x
    OBVIOUS
  <2> HIDE DEF Ends
  <2> QED BY <1>1, <2>2, <2>3
<1>2. ASSUME NEW x \in S, x \notin Stop PROVE g[x] = g[step[x]]
  <2>1. step[x] \in S
    BY <1>2
  <2>2. ASSUME NEW T \in Closed(x) PROVE T \in Closed(step[x])
    BY <1>2, <2>1
  <2>3. ASSUME NEW T \in Closed(step[x]) PROVE T \cup {x} \in Closed(x)
    BY <1>2, <2>1
  <2>4. Ends(x) \subseteq Ends(step[x])
    <3> SUFFICES ASSUME NEW y \in Ends(x), NEW T \in Closed(step[x]) PROVE y \in T
      OBVIOUS
    <3>1. y \in T \cup {x} /\ y \in Stop
      BY <2>3
    <3> QED BY <1>2, <3>1
  <2>5. Ends(step[x]) \subseteq Ends(x)
    BY <2>2
  <2>6. Ends(x) = Ends(step[x])
    BY <2>4, <2>5
  <2> HIDE DEF Ends
  <2> QED BY <1>2, <2>1, <2>6
<1>3. IsLoop(g, S, Stop, out, step)
  <2> HIDE DEF Ends
  <2>1. \A x \in S : g[x] = IF x \in Stop THEN out[x] ELSE g[step[x]]
    BY <1>1, <1>2
  <2> QED BY <2>1 DEF IsLoop
<1> QED BY <1>3

\* The steps keep I and lower the rank, and what stops in I is what was asked for.
LoopInvariant(S, Stop, out, step, I, rank, Goal) ==
  /\ I \subseteq S
  /\ \A x \in I : rank[x] \in Nat
  /\ \A x \in I \cap Stop : out[x] \in Goal
  /\ \A x \in I \ Stop : step[x] \in I /\ rank[step[x]] < rank[x]

\* A loop that keeps I and lowers its rank ends, and gives what I promises.
LEMMA LoopKeeps ==
  ASSUME NEW S, NEW Stop, NEW out, NEW step, NEW f, NEW I, NEW rank, NEW Goal,
         IsLoop(f, S, Stop, out, step),
         LoopInvariant(S, Stop, out, step, I, rank, Goal)
  PROVE  \A x \in I : f[x] \in Goal
<1> DEFINE Bad == {x \in I : f[x] \notin Goal}
           Ranks == {rank[x] : x \in Bad}
<1>1. SUFFICES ASSUME Bad # {} PROVE FALSE
  OBVIOUS
<1>2. PICK m \in Ranks : \A t \in Ranks : m <= t
  <2>1. Ranks \in SUBSET Nat /\ Ranks # {}
    BY <1>1 DEF LoopInvariant
  <2> QED BY <2>1, LeastNatural
<1>3. PICK x \in Bad : m = rank[x]
  BY <1>2
<1>4. x \notin Stop
  BY <1>3 DEF IsLoop, LoopInvariant
<1>5. step[x] \in I /\ rank[step[x]] < rank[x] /\ rank[x] \in Nat /\ rank[step[x]] \in Nat
  BY <1>3, <1>4 DEF LoopInvariant
<1>6. f[x] = f[step[x]]
  BY <1>3, <1>4 DEF IsLoop, LoopInvariant
<1>7. step[x] \in Bad
  BY <1>3, <1>5, <1>6
<1>8. rank[step[x]] \in Ranks
  BY <1>7
<1>9. m <= rank[step[x]]
  <2> HIDE DEF Ranks
  <2> QED BY <1>2, <1>8
<1> QED BY <1>3, <1>5, <1>9

-----------------------------------------------------------------------------
(* The heap's two loops keep the elements.                                 *)

LEMMA ParentIs ==
  /\ \A i \in Nat \ {0, 1} : H!Parent(i) \in Nat \ {0} /\ H!Parent(i) < i
  /\ \A i, k \in Nat \ {0} : H!Parent(k) = i <=> k = 2 * i \/ k = 2 * i + 1
BY DEF H!Parent

\* b has the elements of a at other places.
Rearranged(a, b) ==
  /\ b \in Seq(Lease) /\ Len(b) = Len(a)
  /\ Range(b) = Range(a)
  /\ IsInjective(a) => IsInjective(b)

LEMMA Exchanged ==
  ASSUME NEW arr \in Seq(Lease), NEW i \in DOMAIN arr, NEW k \in DOMAIN arr
  PROVE  /\ Rearranged(arr, H!Exchange(arr, i, k))
         /\ \A n \in DOMAIN arr :
              H!Exchange(arr, i, k)[n] =
                IF n = k THEN arr[i] ELSE IF n = i THEN arr[k] ELSE arr[n]
<1> DEFINE b == H!Exchange(arr, i, k)
<1>1. b \in Seq(Lease) /\ Len(b) = Len(arr) /\ DOMAIN b = DOMAIN arr
  BY DEF H!Exchange
<1>2. \A n \in DOMAIN arr : b[n] = IF n = k THEN arr[i] ELSE IF n = i THEN arr[k] ELSE arr[n]
  BY DEF H!Exchange
<1> HIDE DEF b
<1>3. Range(b) = Range(arr)
  <2>1. ASSUME NEW n \in DOMAIN arr PROVE b[n] \in Range(arr)
    BY <1>2 DEF Range
  <2>2. ASSUME NEW n \in DOMAIN arr PROVE arr[n] \in Range(b)
    <3>1. \E m \in DOMAIN b : b[m] = arr[n]
      BY <1>1, <1>2
    <3> QED BY <3>1 DEF Range
  <2> QED BY <1>1, <2>1, <2>2 DEF Range
<1>4. IsInjective(arr) => IsInjective(b)
  BY <1>1, <1>2 DEF IsInjective
<1> QED BY <1>1, <1>2, <1>3, <1>4 DEF Rearranged, b

LEMMA RearrangedTwice ==
  ASSUME NEW a, NEW b, NEW c, Rearranged(a, b), Rearranged(b, c)
  PROVE  Rearranged(a, c)
BY DEF Rearranged

\* A step of either loop exchanges two places of the array.
LEMMA UpIs ==
  ASSUME NEW s \in H!Loop, H!Misplaced(s)
  PROVE  LET p == H!Parent(s.index)
         IN  /\ p \in DOMAIN s.arr /\ s.index \in DOMAIN s.arr
             /\ p \in Nat \ {0} /\ p < s.index /\ s.index \in Nat \ {0, 1}
             /\ H!Up(s) \in H!Loop
             /\ H!Up(s).index = p /\ H!Up(s).arr = H!Exchange(s.arr, s.index, p)
             /\ Rearranged(s.arr, H!Up(s).arr)
             /\ Behind(s.arr[p], s.arr[s.index])
<1> DEFINE p == H!Parent(s.index)
<1>1. s.arr \in Seq(Lease) /\ s.index \in Nat \ {0}
  BY DEF H!Loop
<1>2. s.index \in DOMAIN s.arr \ {1} /\ Behind(s.arr[p], s.arr[s.index])
  BY DEF H!Misplaced
<1>3. s.index \in Nat \ {0, 1}
  BY <1>1, <1>2
<1>4. p \in Nat \ {0} /\ p < s.index
  BY <1>3, ParentIs
<1>5. p \in DOMAIN s.arr
  BY <1>1, <1>2, <1>4
<1>6. Rearranged(s.arr, H!Exchange(s.arr, s.index, p))
  BY <1>1, <1>2, <1>5, Exchanged
<1> HIDE DEF p
<1>7. H!Up(s) = [arr |-> H!Exchange(s.arr, s.index, p), index |-> p]
  BY DEF H!Up, p
<1>8. H!Up(s) \in H!Loop
  BY <1>4, <1>6, <1>7 DEF H!Loop, Rearranged
<1> QED BY <1>2, <1>3, <1>4, <1>5, <1>6, <1>7, <1>8 DEF p

LEMMA DownIs ==
  ASSUME NEW s \in H!Loop, ~H!Settled(s)
  PROVE  LET c == H!PriorityChild(s.arr, s.index)
         IN  /\ c \in DOMAIN s.arr /\ s.index \in DOMAIN s.arr
             /\ c \in Nat \ {0} /\ s.index < c /\ H!Parent(c) = s.index
             /\ H!Down(s) \in H!Loop
             /\ H!Down(s).index = c /\ H!Down(s).arr = H!Exchange(s.arr, s.index, c)
             /\ Rearranged(s.arr, H!Down(s).arr)
<1> DEFINE c == H!PriorityChild(s.arr, s.index)
<1>1. s.arr \in Seq(Lease) /\ s.index \in Nat \ {0}
  BY DEF H!Loop
<1>2. c \in DOMAIN s.arr /\ c \in {2 * s.index, 2 * s.index + 1}
  BY DEF H!Settled, H!PriorityChild, H!Better
<1>3. c \in Nat \ {0} /\ s.index < c /\ H!Parent(c) = s.index
  BY <1>1, <1>2, ParentIs
<1>4. s.index \in DOMAIN s.arr
  BY <1>1, <1>2, <1>3
<1>5. Rearranged(s.arr, H!Exchange(s.arr, s.index, c))
  BY <1>1, <1>2, <1>4, Exchanged
<1>6. H!Down(s) = [arr |-> H!Exchange(s.arr, s.index, c), index |-> c]
  BY DEF H!Down
<1> HIDE DEF c
<1>7. H!Down(s) \in H!Loop
  BY <1>3, <1>5, <1>6 DEF H!Loop, Rearranged
<1> QED BY <1>2, <1>3, <1>4, <1>5, <1>6, <1>7 DEF c

\* So each loop of the heap keeps what one of its steps keeps, and gives an array
\* in which nothing is left to exchange.
LEMMA SiftUpKeeps ==
  ASSUME NEW I \in SUBSET H!Loop, NEW Goal,
         \A s \in I : H!Misplaced(s) => H!Up(s) \in I,
         \A s \in I : ~H!Misplaced(s) => s.arr \in Goal
  PROVE  \A s \in I : H!SiftUp[s] \in Goal
<1> DEFINE Stop == {s \in H!Loop : ~H!Misplaced(s)}
           out == [s \in H!Loop |-> s.arr]
           step == [s \in H!Loop |-> H!Up(s)]
           rank == [s \in H!Loop |-> s.index]
<1>1. \A s \in H!Loop \ Stop : step[s] \in H!Loop
  BY UpIs
<1>2. PICK g : IsLoop(g, H!Loop, Stop, out, step)
  <2> HIDE DEF Stop, out, step
  <2> QED BY <1>1, LoopDefined
<1>3. \A f : IsLoop(f, H!Loop, Stop, out, step) <=>
              f = [s \in H!Loop |-> IF H!Misplaced(s) THEN f[H!Up(s)] ELSE s.arr]
  <2> SUFFICES ASSUME NEW f
               PROVE  [s \in H!Loop |-> IF s \in Stop THEN out[s] ELSE f[step[s]]] =
                      [s \in H!Loop |-> IF H!Misplaced(s) THEN f[H!Up(s)] ELSE s.arr]
    <3> HIDE DEF Stop, out, step
    <3> QED BY DEF IsLoop
  <2> QED OBVIOUS
<1>4. IsLoop(H!SiftUp, H!Loop, Stop, out, step)
  <2>1. H!SiftUp = [s \in H!Loop |-> IF H!Misplaced(s) THEN H!SiftUp[H!Up(s)] ELSE s.arr]
    <3> HIDE DEF Stop, out, step
    <3> QED BY <1>2, <1>3 DEF H!SiftUp
  <2> HIDE DEF Stop, out, step
  <2> QED BY <1>3, <2>1
<1>5. \A s \in I : rank[s] \in Nat
  BY DEF H!Loop
<1>6. \A s \in I \cap Stop : out[s] \in Goal
  OBVIOUS
<1>7. \A s \in I \ Stop : step[s] \in I /\ rank[step[s]] < rank[s]
  BY UpIs
<1>8. LoopInvariant(H!Loop, Stop, out, step, I, rank, Goal)
  <2> HIDE DEF Stop, out, step, rank
  <2> QED BY <1>5, <1>6, <1>7 DEF LoopInvariant
<1> HIDE DEF Stop, out, step, rank
<1> QED BY <1>4, <1>8, LoopKeeps

LEMMA SiftDownKeeps ==
  ASSUME NEW I \in SUBSET H!Loop, NEW Goal,
         \A s \in I : ~H!Settled(s) => H!Down(s) \in I,
         \A s \in I : H!Settled(s) => s.arr \in Goal
  PROVE  \A s \in I : H!SiftDown[s] \in Goal
<1> DEFINE Stop == {s \in H!Loop : H!Settled(s)}
           out == [s \in H!Loop |-> s.arr]
           step == [s \in H!Loop |-> H!Down(s)]
           rank == [s \in H!Loop |-> IF s.index \in DOMAIN s.arr THEN Len(s.arr) - s.index ELSE 0]
<1>1. \A s \in H!Loop \ Stop : step[s] \in H!Loop
  BY DownIs
<1>2. PICK g : IsLoop(g, H!Loop, Stop, out, step)
  <2> HIDE DEF Stop, out, step
  <2> QED BY <1>1, LoopDefined
<1>3. \A f : IsLoop(f, H!Loop, Stop, out, step) <=>
              f = [s \in H!Loop |-> IF H!Settled(s) THEN s.arr ELSE f[H!Down(s)]]
  <2> SUFFICES ASSUME NEW f
               PROVE  [s \in H!Loop |-> IF s \in Stop THEN out[s] ELSE f[step[s]]] =
                      [s \in H!Loop |-> IF H!Settled(s) THEN s.arr ELSE f[H!Down(s)]]
    <3> HIDE DEF Stop, out, step
    <3> QED BY DEF IsLoop
  <2> QED OBVIOUS
<1>4. IsLoop(H!SiftDown, H!Loop, Stop, out, step)
  <2>1. H!SiftDown = [s \in H!Loop |-> IF H!Settled(s) THEN s.arr ELSE H!SiftDown[H!Down(s)]]
    <3> HIDE DEF Stop, out, step
    <3> QED BY <1>2, <1>3 DEF H!SiftDown
  <2> HIDE DEF Stop, out, step
  <2> QED BY <1>3, <2>1
<1>5. \A s \in H!Loop : rank[s] \in Nat
  BY DEF H!Loop
<1>6. \A s \in I \cap Stop : out[s] \in Goal
  OBVIOUS
<1>7. ASSUME NEW s \in I, s \notin Stop PROVE step[s] \in I /\ rank[step[s]] < rank[s]
  <2>1. /\ s \in H!Loop /\ s.arr \in Seq(Lease) /\ s.index \in Nat
        /\ H!Down(s) \in H!Loop
    BY <1>7, DownIs DEF H!Loop
  <2>2. /\ H!Down(s).index \in DOMAIN s.arr /\ s.index \in DOMAIN s.arr
        /\ H!Down(s).index \in Nat /\ s.index < H!Down(s).index
        /\ Rearranged(s.arr, H!Down(s).arr)
    BY <1>7, <2>1, DownIs
  <2>3. H!Down(s).arr \in Seq(Lease) /\ Len(H!Down(s).arr) = Len(s.arr)
    BY <2>2 DEF Rearranged
  <2>4. rank[s] = Len(s.arr) - s.index /\ rank[H!Down(s)] = Len(s.arr) - H!Down(s).index
    BY <2>1, <2>2, <2>3
  <2>5. rank[H!Down(s)] < rank[s]
    BY <2>1, <2>2, <2>4
  <2> HIDE DEF rank
  <2> QED BY <1>7, <2>1, <2>5
<1>8. LoopInvariant(H!Loop, Stop, out, step, I, rank, Goal)
  <2> HIDE DEF Stop, out, step, rank
  <2> QED BY <1>5, <1>6, <1>7 DEF LoopInvariant
<1> HIDE DEF Stop, out, step, rank
<1> QED BY <1>4, <1>8, LoopKeeps

\* No loop loses or doubles an element.
LEMMA SiftUpRearranges ==
  ASSUME NEW arr \in Seq(Lease), NEW i \in DOMAIN arr
  PROVE  Rearranged(arr, H!SiftUp[[arr |-> arr, index |-> i]])
<1> DEFINE I == {s \in H!Loop : Rearranged(arr, s.arr)}
           Goal == {b \in Seq(Lease) : Rearranged(arr, b)}
           s0 == [arr |-> arr, index |-> i]
<1>1. s0 \in I
  BY DEF H!Loop, Rearranged
<1>2. \A s \in I : H!Misplaced(s) => H!Up(s) \in I
  BY UpIs, RearrangedTwice
<1>3. \A s \in I : ~H!Misplaced(s) => s.arr \in Goal
  BY DEF H!Loop
<1>4. \A s \in I : H!SiftUp[s] \in Goal
  <2>1. I \in SUBSET H!Loop
    OBVIOUS
  <2> HIDE DEF I, Goal
  <2> QED BY <1>2, <1>3, <2>1, SiftUpKeeps
<1> QED BY <1>1, <1>4

LEMMA SiftDownRearranges ==
  ASSUME NEW arr \in Seq(Lease), NEW i \in Nat \ {0}
  PROVE  Rearranged(arr, H!SiftDown[[arr |-> arr, index |-> i]])
<1> DEFINE I == {s \in H!Loop : Rearranged(arr, s.arr)}
           Goal == {b \in Seq(Lease) : Rearranged(arr, b)}
           s0 == [arr |-> arr, index |-> i]
<1>1. s0 \in I
  BY DEF H!Loop, Rearranged
<1>2. \A s \in I : ~H!Settled(s) => H!Down(s) \in I
  BY DownIs, RearrangedTwice
<1>3. \A s \in I : H!Settled(s) => s.arr \in Goal
  BY DEF H!Loop
<1>4. \A s \in I : H!SiftDown[s] \in Goal
  <2>1. I \in SUBSET H!Loop
    OBVIOUS
  <2> HIDE DEF I, Goal
  <2> QED BY <1>2, <1>3, <2>1, SiftDownKeeps
<1> QED BY <1>1, <1>4

-----------------------------------------------------------------------------
(* What the heap's operations do to the set of leases in it.               *)

\* insert adds its element.
LEMMA InsertAdds ==
  ASSUME NEW arr \in Seq(Lease), NEW e \in Lease
  PROVE  /\ H!HeapInsert(arr, e) \in Seq(Lease)
         /\ Len(H!HeapInsert(arr, e)) = Len(arr) + 1
         /\ Range(H!HeapInsert(arr, e)) = Range(arr) \cup {e}
         /\ IsInjective(arr) /\ e \notin Range(arr) => IsInjective(H!HeapInsert(arr, e))
<1> DEFINE a == Append(arr, e)
           b == H!HeapInsert(arr, e)
<1>1. /\ a \in Seq(Lease) /\ Len(a) = Len(arr) + 1 /\ Len(arr) \in Nat
      /\ DOMAIN a = 1..Len(arr) + 1 /\ DOMAIN arr = 1..Len(arr)
      /\ a[Len(arr) + 1] = e /\ \A n \in DOMAIN arr : a[n] = arr[n]
  OBVIOUS
<1> HIDE DEF a
<1>2. b = H!SiftUp[[arr |-> a, index |-> Len(arr) + 1]]
  BY DEF H!HeapInsert, a
<1> HIDE DEF b
<1>3. Rearranged(a, b)
  <2>1. Len(arr) + 1 \in DOMAIN a
    BY <1>1
  <2> QED BY <1>1, <1>2, <2>1, SiftUpRearranges
<1>4. Range(a) = Range(arr) \cup {e}
  <2>1. Range(a) = {a[n] : n \in 1..Len(arr) + 1} /\ Range(arr) = {arr[n] : n \in 1..Len(arr)}
    BY <1>1 DEF Range
  <2>2. \A n \in 1..Len(arr) + 1 : n = Len(arr) + 1 \/ n \in 1..Len(arr)
    BY <1>1
  <2>3. \A n \in 1..Len(arr) : n \in 1..Len(arr) + 1
    BY <1>1
  <2>4. Len(arr) + 1 \in 1..Len(arr) + 1
    BY <1>1
  <2> QED BY <1>1, <2>1, <2>2, <2>3, <2>4
<1>5. IsInjective(arr) /\ e \notin Range(arr) => IsInjective(a)
  <2>1. \A n \in DOMAIN arr : arr[n] \in Range(arr)
    BY DEF Range
  <2> QED BY <1>1, <2>1 DEF IsInjective
<1> QED BY <1>1, <1>3, <1>4, <1>5 DEF Rearranged, b

\* The array remove's loop starts with.
Filled(arr, i) == H!Front([arr EXCEPT ![i] = H!Last(arr)])

LEMMA FilledIs ==
  ASSUME NEW arr \in Seq(Lease), NEW i \in DOMAIN arr
  PROVE  LET n == Len(arr)
             a == Filled(arr, i)
         IN  /\ a \in Seq(Lease) /\ Len(a) = n - 1 /\ n \in Nat /\ i \in 1..n
             /\ DOMAIN a = 1..(n - 1) /\ DOMAIN arr = 1..n
             /\ \A m \in 1..(n - 1) : a[m] = IF m = i THEN arr[n] ELSE arr[m]
<1> DEFINE n == Len(arr)
           a == Filled(arr, i)
           c == [arr EXCEPT ![i] = H!Last(arr)]
<1>1. n \in Nat /\ i \in 1..n /\ DOMAIN arr = 1..n /\ n \in 1..n
  OBVIOUS
<1>2. c \in Seq(Lease) /\ Len(c) = n /\ \A m \in 1..n : c[m] = IF m = i THEN arr[n] ELSE arr[m]
  BY <1>1 DEF H!Last
<1> HIDE DEF c
<1>3. a = SubSeq(c, 1, n - 1)
  BY <1>2 DEF H!Front, Filled, c
<1>4. SubSeq(c, 1, n - 1) \in Seq(Lease) /\ Len(SubSeq(c, 1, n - 1)) = n - 1
  BY <1>1, <1>2
<1>5. \A m \in 1..(n - 1) : SubSeq(c, 1, n - 1)[m] = c[m] /\ m \in 1..n
  BY <1>1, <1>2
<1> HIDE DEF a, n
<1>6. /\ a \in Seq(Lease) /\ Len(a) = n - 1 /\ DOMAIN a = 1..(n - 1)
      /\ \A m \in 1..(n - 1) : a[m] = IF m = i THEN arr[n] ELSE arr[m]
  BY <1>1, <1>2, <1>3, <1>4, <1>5
<1> QED BY <1>1, <1>6 DEF a, n

\* remove takes off what it found at i and nothing else.
LEMMA RemoveAtTakes ==
  ASSUME NEW arr \in Seq(Lease), NEW i \in DOMAIN arr
  PROVE  /\ H!HeapRemoveAt(arr, i) \in Seq(Lease)
         /\ Len(H!HeapRemoveAt(arr, i)) = Len(arr) - 1
         /\ Range(H!HeapRemoveAt(arr, i)) \subseteq Range(arr)
         /\ Range(arr) \subseteq Range(H!HeapRemoveAt(arr, i)) \cup {arr[i]}
         /\ IsInjective(arr) => /\ IsInjective(H!HeapRemoveAt(arr, i))
                                /\ arr[i] \notin Range(H!HeapRemoveAt(arr, i))
<1> DEFINE n == Len(arr)
           a == Filled(arr, i)
           b == H!HeapRemoveAt(arr, i)
<1>1. /\ a \in Seq(Lease) /\ Len(a) = n - 1 /\ n \in Nat /\ i \in 1..n
      /\ DOMAIN a = 1..(n - 1) /\ DOMAIN arr = 1..n
      /\ \A m \in 1..(n - 1) : a[m] = IF m = i THEN arr[n] ELSE arr[m]
  BY FilledIs
<1>2. b = H!SiftDown[[arr |-> a, index |-> i]]
  BY DEF H!HeapRemoveAt, Filled
<1> HIDE DEF a, b, n
<1>3. Rearranged(a, b)
  BY <1>1, <1>2, SiftDownRearranges
<1>4. Range(a) \subseteq Range(arr)
  <2>1. \A m \in DOMAIN a : a[m] \in Range(arr)
    BY <1>1 DEF Range
  <2> QED BY <2>1 DEF Range
<1>5. Range(arr) \subseteq Range(a) \cup {arr[i]}
  <2>1. ASSUME NEW m \in DOMAIN arr, m # i PROVE \E k \in DOMAIN a : a[k] = arr[m]
    <3>1. CASE m = n
      BY <1>1, <2>1, <3>1
    <3>2. CASE m # n
      BY <1>1, <2>1, <3>2
    <3> QED BY <3>1, <3>2
  <2> QED BY <2>1 DEF Range
<1>6. IsInjective(arr) => IsInjective(a) /\ arr[i] \notin Range(a)
  <2> SUFFICES ASSUME IsInjective(arr) PROVE IsInjective(a) /\ arr[i] \notin Range(a)
    OBVIOUS
  <2>1. \A j, k \in 1..n : arr[j] = arr[k] => j = k
    BY <1>1 DEF IsInjective
  <2>2. \A k \in 1..(n - 1) : \E m \in 1..n : m # i /\ a[k] = arr[m]
    BY <1>1
  <2>3. arr[i] \notin Range(a)
    BY <1>1, <2>1, <2>2 DEF Range
  <2>4. IsInjective(a)
    BY <1>1, <2>1 DEF IsInjective
  <2> QED BY <2>3, <2>4
<1> QED BY <1>1, <1>3, <1>4, <1>5, <1>6 DEF Rearranged, b, n

\* pop takes the first place; remove the first place that has a lease of the job.
LEMMA PopIs ==
  ASSUME NEW arr \in Seq(Lease), arr # <<>>
  PROVE  1 \in DOMAIN arr /\ H!Top(arr) = arr[1] /\ H!HeapPop(arr) = H!HeapRemoveAt(arr, 1)
<1>1. 1 \in DOMAIN arr /\ H!Top(arr) = arr[1] /\ DOMAIN arr \subseteq Nat \ {0}
  BY DEF H!Top
<1>2. 1 \in H!Holes(arr, H!Top(arr)) /\ H!Holes(arr, H!Top(arr)) \subseteq Nat \ {0}
  BY <1>1 DEF H!Holes, SameJob
<1> DEFINE holes == H!Holes(arr, H!Top(arr))
<1>3. H!Min(holes) = 1
  <2> HIDE DEF holes
  <2>1. \A y \in holes : 1 <= y
    BY <1>2 DEF holes
  <2>2. \A x \in holes : (\A y \in holes : x <= y) => x = 1
    BY <1>2, <2>1 DEF holes
  <2>3. 1 \in holes
    BY <1>2 DEF holes
  <2> QED BY <2>1, <2>2, <2>3 DEF H!Min
<1> QED BY <1>1, <1>2, <1>3 DEF H!HeapPop, H!HeapRemove

LEMMA RemoveIs ==
  ASSUME NEW arr \in Seq(Lease), NEW j
  PROVE  \/ /\ \A l \in Range(arr) : l.jobID # j
            /\ H!HeapRemove(arr, ByJob(j)) = arr
         \/ \E i \in DOMAIN arr : /\ arr[i].jobID = j
                                  /\ H!HeapRemove(arr, ByJob(j)) = H!HeapRemoveAt(arr, i)
<1> DEFINE holes == H!Holes(arr, ByJob(j))
<1>1. holes = {i \in DOMAIN arr : arr[i].jobID = j} /\ holes \in SUBSET Nat
  BY DEF H!Holes, SameJob, ByJob
<1>2. CASE holes = {}
  BY <1>1, <1>2 DEF H!HeapRemove, Range
<1>3. CASE holes # {}
  <2>1. H!Min(holes) \in holes
    <3> HIDE DEF holes
    <3>1. \E m \in holes : \A t \in holes : m <= t
      BY <1>1, <1>3, LeastNatural
    <3> QED BY <3>1 DEF H!Min
  <2>2. H!HeapRemove(arr, ByJob(j)) = H!HeapRemoveAt(arr, H!Min(holes))
    BY <1>3 DEF H!HeapRemove
  <2> HIDE DEF holes
  <2> QED BY <1>1, <2>1, <2>2
<1> QED BY <1>2, <1>3

-----------------------------------------------------------------------------
(* What they do to its order.                                              *)

LEMMA BehindIs ==
  /\ \A l \in Lease : Due(l) \in Int
  /\ \A k, l \in Lease : Behind(k, l) <=> ~(Due(k) <= Due(l))
<1>1. ASSUME NEW l \in Lease PROVE Due(l) \in Int
  <2>1. l.startedAt \in Int /\ l.leaseTime \in Int
    <3>1. l.startedAt \in 0..MaxStart /\ l.leaseTime \in LeaseTimes
      BY DEF Lease
    <3>2. (\A t \in LeaseTimes : t \in Int) /\ MaxStart \in Int
      BY LeaseAssumptions
    <3> QED BY <3>1, <3>2
  <2> QED BY <2>1 DEF Due
<1>2. ASSUME NEW k \in Lease, NEW l \in Lease PROVE Behind(k, l) <=> ~(Due(k) <= Due(l))
  <2>1. Due(k) \in Int /\ Due(l) \in Int
    BY <1>1
  <2> QED BY <2>1 DEF Behind
<1> QED BY <1>1, <1>2

\* In order, but for what is at s.index: insert's loop has its parent to look at, and
\* remove's its children.  The places on both sides of it are in order.
AroundIndex(s) ==
  \A c \in 2..Len(s.arr) :
    H!Parent(c) = s.index /\ s.index > 1 => Due(s.arr[H!Parent(s.index)]) <= Due(s.arr[c])

OrderedButAbove(s) ==
  /\ s.index \in DOMAIN s.arr
  /\ \A i \in 2..Len(s.arr) : i = s.index \/ Due(s.arr[H!Parent(i)]) <= Due(s.arr[i])
  /\ AroundIndex(s)

OrderedButBelow(s) ==
  /\ \A i \in 2..Len(s.arr) : H!Parent(i) = s.index \/ Due(s.arr[H!Parent(i)]) <= Due(s.arr[i])
  /\ AroundIndex(s)

LEMMA OrderedIs ==
  ASSUME NEW arr \in Seq(Lease)
  PROVE  /\ \A i \in 2..Len(arr) : i \in DOMAIN arr /\ H!Parent(i) \in DOMAIN arr
         /\ H!Ordered(arr) <=> \A i \in 2..Len(arr) : Due(arr[H!Parent(i)]) <= Due(arr[i])
<1>1. ASSUME NEW i \in 2..Len(arr) PROVE i \in DOMAIN arr /\ H!Parent(i) \in DOMAIN arr
  <2>1. H!Parent(i) \in Nat \ {0} /\ H!Parent(i) < i
    BY ParentIs
  <2> QED BY <2>1
<1>2. \A i \in 2..Len(arr) : Behind(arr[H!Parent(i)], arr[i]) <=> ~(Due(arr[H!Parent(i)]) <= Due(arr[i]))
  <2>1. \A i \in DOMAIN arr : arr[i] \in Lease
    OBVIOUS
  <2> QED BY <1>1, <2>1, BehindIs
<1> QED BY <1>1, <1>2 DEF H!Ordered

\* A step up leaves the place below in order.
LEMMA UpKeepsOrder ==
  ASSUME NEW s \in H!Loop, H!Misplaced(s), OrderedButAbove(s)
  PROVE  OrderedButAbove(H!Up(s))
<1> DEFINE x == s.index
           p == H!Parent(x)
           a == s.arr
           b == H!Up(s).arr
           d(i) == Due(a[i])
<1>1. /\ a \in Seq(Lease) /\ p \in DOMAIN a /\ x \in DOMAIN a
      /\ p \in Nat \ {0} /\ p < x /\ x \in Nat \ {0, 1}
      /\ H!Up(s).index = p /\ b = H!Exchange(a, x, p)
      /\ Behind(a[p], a[x])
  BY UpIs DEF H!Loop
<1>2. b \in Seq(Lease) /\ Len(b) = Len(a) /\ DOMAIN b = DOMAIN a
  BY <1>1, Exchanged DEF Rearranged
<1>3. \A i \in DOMAIN a : Due(b[i]) = IF i = p THEN d(x) ELSE IF i = x THEN d(p) ELSE d(i)
  BY <1>1, Exchanged
<1>4. \A i \in DOMAIN a : d(i) \in Int
  BY <1>1, BehindIs
<1>5. ~(d(p) <= d(x))
  BY <1>1, BehindIs
<1>6. /\ \A i \in 2..Len(a) : i = x \/ d(H!Parent(i)) <= d(i)
      /\ \A c \in 2..Len(a) : H!Parent(c) = x => d(p) <= d(c)
  BY <1>1 DEF OrderedButAbove, AroundIndex
<1>7. \A i \in 2..Len(a) : i \in DOMAIN a /\ H!Parent(i) \in DOMAIN a /\ H!Parent(i) # i
  BY <1>1, OrderedIs, ParentIs
<1> HIDE DEF x, p, a, b, d
<1>8. ASSUME NEW i \in 2..Len(b), i # p PROVE Due(b[H!Parent(i)]) <= Due(b[i])
  <2>1. i \in 2..Len(a) /\ i \in DOMAIN a /\ H!Parent(i) \in DOMAIN a /\ H!Parent(i) # i
    BY <1>2, <1>7
  <2>2. CASE i = x
    BY <1>1, <1>3, <1>4, <1>5, <2>1, <2>2 DEF p
  <2>3. CASE i # x /\ H!Parent(i) = p
    BY <1>1, <1>3, <1>4, <1>5, <1>6, <1>8, <2>1, <2>3
  <2>4. CASE i # x /\ H!Parent(i) = x
    BY <1>1, <1>3, <1>6, <1>8, <2>1, <2>4
  <2>5. CASE i # x /\ H!Parent(i) # p /\ H!Parent(i) # x
    BY <1>3, <1>6, <1>8, <2>1, <2>5
  <2> QED BY <2>2, <2>3, <2>4, <2>5
<1>9. ASSUME NEW c \in 2..Len(b), H!Parent(c) = p, p > 1 PROVE Due(b[H!Parent(p)]) <= Due(b[c])
  <2>1. p \in 2..Len(a) /\ p # x /\ H!Parent(p) \in DOMAIN a /\ H!Parent(p) # p /\ H!Parent(p) # x
    <3>1. p \in 2..Len(a) /\ p # x
      BY <1>1, <1>9
    <3>2. H!Parent(p) < p
      BY <3>1, ParentIs
    <3>3. H!Parent(p) \in Nat
      BY <3>1, ParentIs
    <3> QED BY <1>1, <1>7, <3>1, <3>2, <3>3
  <2>2. d(H!Parent(p)) <= d(p) /\ Due(b[H!Parent(p)]) = d(H!Parent(p))
    BY <1>3, <1>6, <2>1
  <2>3. c \in 2..Len(a) /\ c \in DOMAIN a /\ c # p
    BY <1>2, <1>7, <1>9
  <2>4. d(p) <= Due(b[c]) /\ Due(b[c]) \in Int
    <3>1. CASE c = x
      BY <1>1, <1>3, <1>4, <2>3, <3>1
    <3>2. CASE c # x
      BY <1>3, <1>4, <1>6, <1>9, <2>3, <3>2
    <3> QED BY <3>1, <3>2
  <2>5. d(H!Parent(p)) \in Int /\ d(p) \in Int
    BY <1>1, <1>4, <2>1
  <2> QED BY <2>2, <2>4, <2>5
<1> QED BY <1>1, <1>2, <1>8, <1>9 DEF OrderedButAbove, AroundIndex, b

\* insert keeps an ordered heap in order.
LEMMA InsertKeepsOrder ==
  ASSUME NEW arr \in Seq(Lease), NEW e \in Lease, H!Ordered(arr)
  PROVE  H!Ordered(H!HeapInsert(arr, e))
<1> DEFINE I == {s \in H!Loop : OrderedButAbove(s)}
           Goal == {b \in Seq(Lease) : H!Ordered(b)}
           a == Append(arr, e)
           s0 == [arr |-> a, index |-> Len(arr) + 1]
<1>1. /\ a \in Seq(Lease) /\ Len(a) = Len(arr) + 1 /\ Len(arr) \in Nat
      /\ \A i \in 1..Len(arr) : a[i] = arr[i]
  OBVIOUS
<1> HIDE DEF a
<1>2. s0 \in I
  <2>1. s0 \in H!Loop /\ s0.index \in DOMAIN a
    BY <1>1 DEF H!Loop
  <2>2. \A i \in 2..Len(a) : i = s0.index \/ Due(a[H!Parent(i)]) <= Due(a[i])
    <3> SUFFICES ASSUME NEW i \in 2..Len(a), i # s0.index PROVE Due(a[H!Parent(i)]) <= Due(a[i])
      OBVIOUS
    <3>1. i \in 2..Len(arr) /\ i \in 1..Len(arr) /\ H!Parent(i) \in 1..Len(arr)
      BY <1>1, OrderedIs
    <3> QED BY <1>1, <3>1, OrderedIs
  <2>3. \A c \in 2..Len(a) : H!Parent(c) # s0.index
    BY <1>1, ParentIs
  <2> QED BY <2>1, <2>2, <2>3 DEF OrderedButAbove, AroundIndex
<1>3. \A s \in I : H!Misplaced(s) => H!Up(s) \in I
  BY UpKeepsOrder, UpIs
<1>4. ASSUME NEW s \in I, ~H!Misplaced(s) PROVE s.arr \in Goal
  <2>1. s.arr \in Seq(Lease) /\ s.index \in DOMAIN s.arr
    BY DEF H!Loop, OrderedButAbove
  <2>2. s.index \in 2..Len(s.arr) => Due(s.arr[H!Parent(s.index)]) <= Due(s.arr[s.index])
    <3>1. \A i \in DOMAIN s.arr : s.arr[i] \in Lease
      BY <2>1
    <3> QED BY <1>4, <2>1, <3>1, OrderedIs, BehindIs DEF H!Misplaced
  <2>3. \A i \in 2..Len(s.arr) : Due(s.arr[H!Parent(i)]) <= Due(s.arr[i])
    BY <2>2 DEF OrderedButAbove
  <2> QED BY <2>1, <2>3, OrderedIs
<1>5. \A s \in I : H!SiftUp[s] \in Goal
  <2>1. I \in SUBSET H!Loop
    OBVIOUS
  <2>2. \A s \in I : ~H!Misplaced(s) => s.arr \in Goal
    BY <1>4
  <2> HIDE DEF I, Goal
  <2> QED BY <1>3, <2>1, <2>2, SiftUpKeeps
<1> QED BY <1>2, <1>5 DEF H!HeapInsert, a

\* A step down leaves the place above in order.
LEMMA PriorityChildIs ==
  ASSUME NEW arr \in Seq(Lease), NEW i \in Nat \ {0}
  PROVE  LET c == H!PriorityChild(arr, i)
         IN  /\ c # i => /\ c \in DOMAIN arr /\ i \in DOMAIN arr
                         /\ ~(Due(arr[i]) <= Due(arr[c]))
             /\ c = i \/ c \in DOMAIN arr
             /\ c \in DOMAIN arr => \A k \in DOMAIN arr : H!Parent(k) = i => Due(arr[c]) <= Due(arr[k])
<1> DEFINE l == H!Better(arr, i, 2 * i)
           c == H!PriorityChild(arr, i)
<1>1. \A k \in DOMAIN arr : k \in Nat \ {0} /\ Due(arr[k]) \in Int
  BY BehindIs
<1>2. \A k, m \in DOMAIN arr : Behind(arr[k], arr[m]) <=> ~(Due(arr[k]) <= Due(arr[m]))
  BY BehindIs
<1>3. \A k \in DOMAIN arr : H!Parent(k) = i <=> k \in {2 * i, 2 * i + 1}
  BY <1>1, ParentIs
<1>4. 2 * i \in DOMAIN arr \/ 2 * i + 1 \in DOMAIN arr => i \in DOMAIN arr
  OBVIOUS
<1>5. /\ l \in {i, 2 * i}
      /\ l = 2 * i /\ l # i => l \in DOMAIN arr /\ ~(Due(arr[i]) <= Due(arr[l]))
      /\ 2 * i \in DOMAIN arr => Due(arr[l]) <= Due(arr[2 * i]) /\ Due(arr[l]) <= Due(arr[i])
  BY <1>1, <1>2, <1>4 DEF H!Better
<1>6. /\ c \in {l, 2 * i + 1}
      /\ c # l => c \in DOMAIN arr /\ ~(Due(arr[l]) <= Due(arr[c]))
      /\ 2 * i + 1 \in DOMAIN arr => Due(arr[c]) <= Due(arr[2 * i + 1]) /\ Due(arr[c]) <= Due(arr[l])
  <2>1. 2 * i + 1 \in DOMAIN arr => l \in DOMAIN arr
    BY <1>4, <1>5
  <2>2. c = H!Better(arr, l, 2 * i + 1)
    BY DEF H!PriorityChild
  <2> HIDE DEF l, c
  <2> QED BY <1>1, <1>2, <2>1, <2>2 DEF H!Better
<1>7. l \in DOMAIN arr \/ l = i
  BY <1>5
<1> HIDE DEF l, c
<1>8. c # i => c \in DOMAIN arr /\ i \in DOMAIN arr /\ ~(Due(arr[i]) <= Due(arr[c]))
  BY <1>1, <1>4, <1>5, <1>6, <1>7
<1>9. ASSUME c \in DOMAIN arr, NEW k \in DOMAIN arr, H!Parent(k) = i PROVE Due(arr[c]) <= Due(arr[k])
  <2>1. k \in {2 * i, 2 * i + 1} /\ i \in DOMAIN arr /\ l \in DOMAIN arr
    BY <1>3, <1>4, <1>7, <1>9
  <2>2. CASE k = 2 * i + 1
    BY <1>6, <2>2
  <2>3. CASE k = 2 * i
    BY <1>1, <1>5, <1>6, <1>9, <2>1, <2>3
  <2> QED BY <2>1, <2>2, <2>3
<1> QED BY <1>8, <1>9 DEF c

LEMMA DownKeepsOrder ==
  ASSUME NEW s \in H!Loop, ~H!Settled(s), OrderedButBelow(s)
  PROVE  OrderedButBelow(H!Down(s))
<1> DEFINE x == s.index
           c == H!PriorityChild(s.arr, s.index)
           a == s.arr
           b == H!Down(s).arr
           d(i) == Due(a[i])
<1>1. /\ a \in Seq(Lease) /\ c \in DOMAIN a /\ x \in DOMAIN a
      /\ c \in Nat \ {0} /\ x < c /\ H!Parent(c) = x /\ x \in Nat \ {0} /\ c # x
      /\ H!Down(s).index = c /\ b = H!Exchange(a, x, c)
  BY DownIs DEF H!Loop
<1>2. b \in Seq(Lease) /\ Len(b) = Len(a) /\ DOMAIN b = DOMAIN a
  BY <1>1, Exchanged DEF Rearranged
<1>3. \A i \in DOMAIN a : Due(b[i]) = IF i = c THEN d(x) ELSE IF i = x THEN d(c) ELSE d(i)
  BY <1>1, Exchanged
<1>4. \A i \in DOMAIN a : d(i) \in Int
  BY <1>1, BehindIs
<1>5. ~(d(x) <= d(c)) /\ \A k \in DOMAIN a : H!Parent(k) = x => d(c) <= d(k)
  BY <1>1, PriorityChildIs
<1>6. /\ \A i \in 2..Len(a) : H!Parent(i) = x \/ d(H!Parent(i)) <= d(i)
      /\ \A k \in 2..Len(a) : H!Parent(k) = x /\ x > 1 => d(H!Parent(x)) <= d(k)
  BY DEF OrderedButBelow, AroundIndex
<1>7. \A i \in 2..Len(a) : i \in DOMAIN a /\ H!Parent(i) \in DOMAIN a /\ H!Parent(i) < i /\ H!Parent(i) # i
  <2> SUFFICES ASSUME NEW i \in 2..Len(a)
               PROVE  i \in DOMAIN a /\ H!Parent(i) \in DOMAIN a /\ H!Parent(i) < i /\ H!Parent(i) # i
    OBVIOUS
  <2>1. i \in Nat \ {0, 1} /\ H!Parent(i) \in Nat /\ H!Parent(i) < i
    BY ParentIs
  <2> QED BY <1>1, <2>1, OrderedIs
<1> HIDE DEF x, c, a, b, d
<1>8. ASSUME NEW i \in 2..Len(b), H!Parent(i) # c PROVE Due(b[H!Parent(i)]) <= Due(b[i])
  <2>1. i \in 2..Len(a) /\ i \in DOMAIN a /\ H!Parent(i) \in DOMAIN a /\ H!Parent(i) # i
    BY <1>2, <1>7
  <2>2. CASE i = c
    BY <1>1, <1>3, <1>4, <1>5, <2>1, <2>2
  <2>3. CASE i # c /\ H!Parent(i) = x
    BY <1>1, <1>3, <1>5, <2>1, <2>3
  <2>4. CASE i = x
    <3>1. x > 1 /\ c \in 2..Len(a)
      BY <1>1, <2>1, <2>4
    <3> QED BY <1>1, <1>3, <1>6, <1>8, <2>1, <2>4, <3>1
  <2>5. CASE i # c /\ i # x /\ H!Parent(i) # x
    BY <1>3, <1>6, <1>8, <2>1, <2>5
  <2> QED BY <2>2, <2>3, <2>4, <2>5
<1>9. ASSUME NEW k \in 2..Len(b), H!Parent(k) = c PROVE Due(b[H!Parent(c)]) <= Due(b[k])
  <2>1. k \in 2..Len(a) /\ k \in DOMAIN a /\ k # c /\ k # x
    <3>1. k \in 2..Len(a) /\ k \in DOMAIN a /\ c < k /\ k \in Nat
      BY <1>2, <1>7, <1>9
    <3> QED BY <1>1, <3>1
  <2>2. d(c) <= d(k)
    BY <1>1, <1>6, <1>9, <2>1
  <2> QED BY <1>1, <1>3, <2>1, <2>2
<1> QED BY <1>1, <1>2, <1>8, <1>9 DEF OrderedButBelow, AroundIndex, b

\* remove keeps an ordered heap in order unless the last element belongs above the hole.
LEMMA RemoveAtKeepsOrder ==
  ASSUME NEW arr \in Seq(Lease), NEW i \in DOMAIN arr, H!Ordered(arr),
         i = 1 \/ i = Len(arr) \/ Due(arr[H!Parent(i)]) <= Due(arr[Len(arr)])
  PROVE  H!Ordered(H!HeapRemoveAt(arr, i))
<1> DEFINE I == {s \in H!Loop : OrderedButBelow(s)}
           Goal == {b \in Seq(Lease) : H!Ordered(b)}
           n == Len(arr)
           a == Filled(arr, i)
           s0 == [arr |-> a, index |-> i]
           d(k) == Due(arr[k])
<1>1. /\ a \in Seq(Lease) /\ Len(a) = n - 1 /\ n \in Nat /\ i \in 1..n
      /\ DOMAIN arr = 1..n
      /\ \A m \in 1..(n - 1) : a[m] = IF m = i THEN arr[n] ELSE arr[m]
  BY FilledIs
<1>2. /\ \A k \in 2..n : k \in 1..n /\ H!Parent(k) \in 1..n /\ H!Parent(k) < k /\ d(H!Parent(k)) <= d(k)
      /\ \A k \in 1..n : d(k) \in Int
  <2>1. ASSUME NEW k \in 2..n
        PROVE  k \in 1..n /\ H!Parent(k) \in 1..n /\ H!Parent(k) < k /\ d(H!Parent(k)) <= d(k)
    <3>1. k \in Nat \ {0, 1}
      BY <1>1
    <3> QED BY <1>1, <3>1, OrderedIs, ParentIs
  <2> QED BY <1>1, <2>1, BehindIs
<1> HIDE DEF a, n, d
<1>3. s0 \in I
  <2>1. s0 \in H!Loop
    BY <1>1 DEF H!Loop
  <2>2. ASSUME NEW k \in 2..Len(a), H!Parent(k) # i PROVE Due(a[H!Parent(k)]) <= Due(a[k])
    <3>1. k \in 2..n /\ k \in 1..(n - 1) /\ H!Parent(k) \in 1..(n - 1) /\ d(H!Parent(k)) <= d(k)
      BY <1>1, <1>2
    <3>2. a[H!Parent(k)] = arr[H!Parent(k)]
      BY <1>1, <2>2, <3>1
    <3>3. CASE k = i
      BY <1>1, <3>1, <3>2, <3>3 DEF d, n
    <3>4. CASE k # i
      BY <1>1, <3>1, <3>2, <3>4 DEF d
    <3> QED BY <3>3, <3>4
  <2>3. ASSUME NEW c \in 2..Len(a), H!Parent(c) = i, i > 1 PROVE Due(a[H!Parent(i)]) <= Due(a[c])
    <3>0. c \in 2..n /\ c \in 1..(n - 1) /\ i \in 2..n
      BY <1>1, <2>3
    <3>1. i < c /\ H!Parent(i) \in 1..(n - 1) /\ H!Parent(i) # i
      <4>1. i < c /\ H!Parent(i) \in 1..n /\ H!Parent(i) < i
        BY <1>2, <2>3, <3>0
      <4> QED BY <1>1, <3>0, <4>1
    <3>2. d(H!Parent(i)) <= d(i) /\ d(i) <= d(c) /\ d(i) \in Int /\ d(c) \in Int /\ d(H!Parent(i)) \in Int
      BY <1>1, <1>2, <2>3, <3>0, <3>1
    <3>3. a[H!Parent(i)] = arr[H!Parent(i)] /\ a[c] = arr[c]
      BY <1>1, <3>0, <3>1
    <3> QED BY <3>2, <3>3 DEF d
  <2> QED BY <2>1, <2>2, <2>3 DEF OrderedButBelow, AroundIndex
<1>4. \A s \in I : ~H!Settled(s) => H!Down(s) \in I
  BY DownKeepsOrder, DownIs
<1>5. ASSUME NEW s \in I, H!Settled(s) PROVE s.arr \in Goal
  <2>1. s.arr \in Seq(Lease) /\ s.index \in Nat \ {0}
    BY DEF H!Loop
  <2>2. ASSUME NEW k \in 2..Len(s.arr), H!Parent(k) = s.index
        PROVE  Due(s.arr[H!Parent(k)]) <= Due(s.arr[k])
    <3>1. k \in DOMAIN s.arr /\ s.index \in DOMAIN s.arr
      BY <2>1, <2>2, OrderedIs
    <3> QED BY <1>5, <2>1, <2>2, <3>1, PriorityChildIs DEF H!Settled
  <2>3. \A k \in 2..Len(s.arr) : Due(s.arr[H!Parent(k)]) <= Due(s.arr[k])
    BY <2>2 DEF OrderedButBelow
  <2> QED BY <2>1, <2>3, OrderedIs
<1>6. \A s \in I : H!SiftDown[s] \in Goal
  <2>1. I \in SUBSET H!Loop
    OBVIOUS
  <2>2. \A s \in I : H!Settled(s) => s.arr \in Goal
    BY <1>5
  <2> HIDE DEF I, Goal
  <2> QED BY <1>4, <2>1, <2>2, SiftDownKeeps
<1> QED BY <1>3, <1>6 DEF H!HeapRemoveAt, Filled, a

\* And it breaks the order then: the last element stays in the hole.
LEMMA RemoveAtBreaksOrder ==
  ASSUME NEW arr \in Seq(Lease), NEW i \in DOMAIN arr, H!Ordered(arr),
         i # 1, i # Len(arr), ~(Due(arr[H!Parent(i)]) <= Due(arr[Len(arr)]))
  PROVE  ~H!Ordered(H!HeapRemoveAt(arr, i))
<1> DEFINE n == Len(arr)
           a == Filled(arr, i)
           s0 == [arr |-> a, index |-> i]
           d(k) == Due(arr[k])
<1>1. /\ a \in Seq(Lease) /\ Len(a) = n - 1 /\ n \in Nat /\ i \in 2..(n - 1) /\ i \in Nat \ {0, 1}
      /\ DOMAIN arr = 1..n /\ DOMAIN a = 1..(n - 1)
      /\ \A m \in 1..(n - 1) : a[m] = IF m = i THEN arr[n] ELSE arr[m]
  <2>1. i \in 1..n /\ n \in Nat /\ i # 1 /\ i # n
    OBVIOUS
  <2> QED BY <2>1, FilledIs
<1>2. /\ \A k \in 2..n : d(H!Parent(k)) <= d(k)
      /\ \A k \in 1..n : d(k) \in Int
  <2>1. \A k \in 1..n : arr[k] \in Lease
    BY <1>1
  <2>2. \A k \in 2..n : d(H!Parent(k)) <= d(k)
    BY OrderedIs
  <2> QED BY <2>1, <2>2, BehindIs
<1>3. H!Parent(i) \in 1..(n - 1) /\ H!Parent(i) # i
  BY <1>1, ParentIs
<1>4. ~(d(H!Parent(i)) <= d(n)) /\ d(H!Parent(i)) <= d(i)
  BY <1>1, <1>2
<1> HIDE DEF a, n, d
<1>5. H!Settled(s0)
  <2> SUFFICES ASSUME H!PriorityChild(a, i) # i PROVE FALSE
    BY DEF H!Settled
  <2> DEFINE c == H!PriorityChild(a, i)
  <2>1. s0 \in H!Loop /\ ~H!Settled(s0)
    BY <1>1 DEF H!Loop, H!Settled
  <2>2. c \in DOMAIN a /\ H!Parent(c) = i /\ i < c
    BY <2>1, DownIs
  <2>3. ~(Due(a[i]) <= Due(a[c]))
    BY <1>1, PriorityChildIs
  <2> HIDE DEF c
  <2>4. c \in 2..n /\ c \in 1..(n - 1) /\ c # i
    BY <1>1, <2>2
  <2>5. d(i) <= d(c) /\ ~(d(n) <= d(c))
    BY <1>1, <1>2, <2>2, <2>3, <2>4 DEF d
  <2> QED BY <1>1, <1>2, <1>3, <1>4, <2>4, <2>5
<1>6. H!SiftDown[s0] \in {a}
  <2>1. {s0} \in SUBSET H!Loop
    BY <1>1 DEF H!Loop
  <2>2. \A s \in {s0} : ~H!Settled(s) => H!Down(s) \in {s0}
    BY <1>5
  <2>3. \A s \in {s0} : H!Settled(s) => s.arr \in {a}
    OBVIOUS
  <2> HIDE DEF s0
  <2> QED BY <2>1, <2>2, <2>3, SiftDownKeeps
<1>7. H!HeapRemoveAt(arr, i) = a
  BY <1>6 DEF H!HeapRemoveAt, Filled, a
<1>8. i \in 2..Len(a) /\ a[H!Parent(i)] = arr[H!Parent(i)] /\ a[i] = arr[n]
  BY <1>1, <1>3
<1>9. ~(Due(a[H!Parent(i)]) <= Due(a[i]))
  BY <1>4, <1>8 DEF d
<1> QED BY <1>1, <1>7, <1>8, <1>9, OrderedIs

\* The first place of an ordered heap has a lease no other is due before.
LEMMA TopIsFirst ==
  ASSUME NEW arr \in Seq(Lease), H!Ordered(arr)
  PROVE  \A l \in Range(arr) : Due(arr[1]) <= Due(l)
<1> DEFINE Later == {k \in DOMAIN arr : ~(Due(arr[1]) <= Due(arr[k]))}
<1>1. SUFFICES ASSUME Later # {} PROVE FALSE
  BY DEF Range
<1>2. PICK m \in Later : \A k \in Later : m <= k
  <2>1. Later \in SUBSET Nat
    OBVIOUS
  <2> QED BY <1>1, <2>1, LeastNatural
<1>3. m \in DOMAIN arr /\ m \in Nat \ {0} /\ ~(Due(arr[1]) <= Due(arr[m])) /\ 1 \in DOMAIN arr
  OBVIOUS
<1>4. \A k \in DOMAIN arr : Due(arr[k]) \in Int
  BY BehindIs
<1>5. m \in 2..Len(arr) /\ m \in Nat \ {0, 1}
  BY <1>3, <1>4
<1>6. H!Parent(m) \in DOMAIN arr /\ H!Parent(m) < m /\ H!Parent(m) \in Nat /\ Due(arr[H!Parent(m)]) <= Due(arr[m])
  BY <1>5, OrderedIs, ParentIs
<1>7. H!Parent(m) \notin Later
  BY <1>2, <1>3, <1>6
<1>8. Due(arr[1]) <= Due(arr[H!Parent(m)])
  BY <1>6, <1>7
<1> QED BY <1>3, <1>4, <1>6, <1>8

-----------------------------------------------------------------------------
(* The heap under the supervisor's calls.                                  *)

\* What one invariant needs of the other: as long as no lease was removed since the
\* heap was empty, it is in order.
HeapInv ==
  /\ jobHeap \in Seq(Lease) /\ held \subseteq Used
  /\ intact \in BOOLEAN
  /\ Range(jobHeap) = held /\ IsInjective(jobHeap)
  /\ intact => H!Ordered(jobHeap)

LEMMA EmptyIsOrdered ==
  ASSUME NEW arr \in Seq(Lease)
  PROVE  /\ Range(arr) = {} <=> arr = <<>>
         /\ arr = <<>> => H!Ordered(arr)
<1>1. arr # <<>> => arr[1] \in Range(arr)
  BY DEF Range
<1>2. arr = <<>> => Range(arr) = {} /\ H!Ordered(arr)
  BY DEF Range, H!Ordered
<1> QED BY <1>1, <1>2

LEMMA UsedAreLeases == Used \subseteq Lease /\ \A k, l \in Used : k.jobID = l.jobID => k = l
BY HeapAssumptions

LEMMA InsertStep ==
  ASSUME HeapInv, NEW e \in Used, InsertLease(e)
  PROVE  HeapInv'
<1>1. /\ e \notin held /\ jobHeap' = H!HeapInsert(jobHeap, e) /\ held' = held \cup {e}
      /\ UNCHANGED intact /\ e \in Lease
  BY UsedAreLeases DEF InsertLease
<1>2. jobHeap' \in Seq(Lease) /\ Range(jobHeap') = held' /\ IsInjective(jobHeap')
  BY <1>1, InsertAdds DEF HeapInv
<1>3. intact' => H!Ordered(jobHeap')
  <2>1. H!Ordered(jobHeap) => H!Ordered(H!HeapInsert(jobHeap, e))
    BY <1>1, InsertKeepsOrder DEF HeapInv
  <2> QED BY <1>1, <2>1 DEF HeapInv
<1> QED BY <1>1, <1>2, <1>3 DEF HeapInv

\* What a pop returns: the first place, and a first lease while the heap is in order.
LEMMA PopStep ==
  ASSUME HeapInv, PopLease
  PROVE  /\ HeapInv'
         /\ taken' \in held /\ held' = held \ {taken'} /\ intact' = (intact \/ held' = {})
         /\ intact => \A l \in held : ~Behind(taken', l)
<1>1. /\ jobHeap \in Seq(Lease) /\ jobHeap # <<>> /\ held \subseteq Lease
      /\ Range(jobHeap) = held /\ IsInjective(jobHeap) /\ held \subseteq Used /\ intact \in BOOLEAN
  BY UsedAreLeases DEF HeapInv, PopLease, H!Empty
<1>2. /\ 1 \in DOMAIN jobHeap /\ taken' = jobHeap[1]
      /\ jobHeap' = H!HeapRemoveAt(jobHeap, 1)
      /\ held' = held \ {taken'} /\ intact' = (intact \/ held' = {})
  BY <1>1, PopIs DEF PopLease
<1>3. taken' \in held
  BY <1>1, <1>2 DEF Range
<1>4. jobHeap' \in Seq(Lease) /\ Range(jobHeap') = held' /\ IsInjective(jobHeap')
  BY <1>1, <1>2, RemoveAtTakes
<1>5. ASSUME intact' PROVE H!Ordered(jobHeap')
  <2>1. CASE intact
    BY <1>1, <1>2, <2>1, RemoveAtKeepsOrder DEF HeapInv
  <2>2. CASE held' = {}
    BY <1>4, <2>2, EmptyIsOrdered
  <2> QED BY <1>2, <1>5, <2>1, <2>2
<1>6. ASSUME intact, NEW l \in held PROVE ~Behind(taken', l)
  <2>1. Due(jobHeap[1]) <= Due(l)
    BY <1>1, <1>6, TopIsFirst DEF HeapInv
  <2> QED BY <1>1, <1>2, <1>3, <2>1, BehindIs
<1>7. held' \subseteq Used /\ intact' \in BOOLEAN
  BY <1>1, <1>2
<1> QED BY <1>2, <1>3, <1>4, <1>5, <1>6, <1>7 DEF HeapInv

\* Which place a removal empties: that of the job's one lease, if it is there.
LEMMA RemovedPlace ==
  ASSUME HeapInv, NEW e \in Used, RemoveLease(e)
  PROVE  \/ e \notin held /\ jobHeap' = jobHeap
         \/ \E i \in DOMAIN jobHeap : /\ e \in held /\ jobHeap[i] = e
                                      /\ jobHeap' = H!HeapRemoveAt(jobHeap, i)
<1>1. jobHeap \in Seq(Lease) /\ Range(jobHeap) = held /\ held \subseteq Used
  BY DEF HeapInv
<1>2. jobHeap' = H!HeapRemove(jobHeap, ByJob(e.jobID))
  BY DEF RemoveLease
<1>3. CASE (\A l \in Range(jobHeap) : l.jobID # e.jobID) /\ jobHeap' = jobHeap
  BY <1>1, <1>3
<1>4. CASE \E i \in DOMAIN jobHeap : jobHeap[i].jobID = e.jobID /\ jobHeap' = H!HeapRemoveAt(jobHeap, i)
  <2>1. PICK i \in DOMAIN jobHeap : jobHeap[i].jobID = e.jobID /\ jobHeap' = H!HeapRemoveAt(jobHeap, i)
    BY <1>4
  <2>2. jobHeap[i] \in held
    BY <1>1 DEF Range
  <2>3. jobHeap[i] = e
    BY <1>1, <2>1, <2>2, UsedAreLeases
  <2> QED BY <2>1, <2>2, <2>3
<1> QED BY <1>1, <1>2, <1>3, <1>4, RemoveIs

LEMMA RemoveStep ==
  ASSUME HeapInv, NEW e \in Used, RemoveLease(e)
  PROVE  HeapInv'
<1>1. /\ jobHeap \in Seq(Lease) /\ Range(jobHeap) = held /\ IsInjective(jobHeap)
      /\ held \subseteq Used /\ intact \in BOOLEAN
      /\ held' = held \ {e} /\ intact' = (held' = {} \/ (intact /\ e \notin held))
  BY DEF HeapInv, RemoveLease
<1>2. jobHeap' \in Seq(Lease) /\ Range(jobHeap') = held' /\ IsInjective(jobHeap')
  <2>1. CASE e \notin held /\ jobHeap' = jobHeap
    BY <1>1, <2>1
  <2>2. ASSUME NEW i \in DOMAIN jobHeap, jobHeap[i] = e, jobHeap' = H!HeapRemoveAt(jobHeap, i)
        PROVE  jobHeap' \in Seq(Lease) /\ Range(jobHeap') = held' /\ IsInjective(jobHeap')
    BY <1>1, <2>2, RemoveAtTakes
  <2> QED BY <2>1, <2>2, RemovedPlace
<1>3. ASSUME intact' PROVE H!Ordered(jobHeap')
  <2>1. CASE held' = {}
    BY <1>2, <2>1, EmptyIsOrdered
  <2>2. CASE intact /\ e \notin held
    <3>1. jobHeap' = jobHeap
      BY <2>2, RemovedPlace
    <3> QED BY <2>2, <3>1 DEF HeapInv
  <2> QED BY <1>1, <1>3, <2>1, <2>2
<1>4. held' \subseteq Used /\ intact' \in BOOLEAN
  BY <1>1
<1> QED BY <1>2, <1>3, <1>4 DEF HeapInv

LEMMA HeapInvariant == HeapSpec => []HeapInv
<1>1. HeapInit => HeapInv
  <2> SUFFICES ASSUME HeapInit PROVE HeapInv
    OBVIOUS
  <2>1. jobHeap = <<>> /\ held = {} /\ intact = TRUE /\ <<>> \in Seq(Lease)
    BY DEF HeapInit
  <2>2. Range(jobHeap) = {} /\ H!Ordered(jobHeap)
    BY <2>1, EmptyIsOrdered
  <2>3. DOMAIN jobHeap = {}
    BY <2>1
  <2>4. IsInjective(jobHeap)
    BY <2>3 DEF IsInjective
  <2> QED BY <2>1, <2>2, <2>4 DEF HeapInv
<1>2. HeapInv /\ [HeapNext]_heapVars => HeapInv'
  <2> SUFFICES ASSUME HeapInv, [HeapNext]_heapVars PROVE HeapInv'
    OBVIOUS
  <2>1. CASE PopLease
    BY <2>1, PopStep
  <2>2. ASSUME NEW e \in Used, InsertLease(e) PROVE HeapInv'
    BY <2>2, InsertStep
  <2>3. ASSUME NEW e \in Used, RemoveLease(e) PROVE HeapInv'
    BY <2>3, RemoveStep
  <2>4. CASE UNCHANGED heapVars
    BY <2>4 DEF HeapInv, heapVars
  <2> QED BY <2>1, <2>2, <2>3, <2>4 DEF HeapNext
<1> QED BY <1>1, <1>2, PTL DEF HeapSpec

\* The heap has what was put in and not taken out, each lease once, however its loops
\* move the elements and whichever removal broke its order.
THEOREM HeapHolds == HeapSpec => []HoldsExactly
<1>1. HeapInv => HoldsExactly
  BY DEF HeapInv, HoldsExactly, IsInjective
<1> QED BY <1>1, HeapInvariant, PTL

\* As long as leases leave by pop alone, each pop returns one no other is due before:
\* the array implements a priority queue.
THEOREM HeapIsPriorityQueue == HeapSpec => IsPriorityQueue
<1>1. HeapInit => Queue!Init
  BY DEF HeapInit, Queue!Init
<1>2. HeapInv /\ [HeapNext]_heapVars => [Queue!Next]_(Queue!vars)
  <2> SUFFICES ASSUME HeapInv, [HeapNext]_heapVars PROVE [Queue!Next]_(Queue!vars)
    OBVIOUS
  <2>1. CASE PopLease
    <3>1. /\ taken' \in held /\ held' = held \ {taken'} /\ intact' = (intact \/ held' = {})
          /\ intact => \A l \in held : ~Behind(taken', l)
      BY <2>1, PopStep
    <3>2. Queue!Pop(taken') /\ taken' \in Used
      BY <3>1 DEF Queue!Pop, Queue!First, HeapInv
    <3> QED BY <3>2 DEF Queue!Next
  <2>2. ASSUME NEW e \in Used, InsertLease(e) PROVE Queue!Next
    BY <2>2 DEF InsertLease, Queue!Insert, Queue!Next
  <2>3. ASSUME NEW e \in Used, RemoveLease(e) PROVE Queue!Next
    BY <2>3 DEF RemoveLease, Queue!Remove, Queue!Next
  <2>4. CASE UNCHANGED heapVars
    BY <2>4 DEF heapVars, Queue!vars
  <2> QED BY <2>1, <2>2, <2>3, <2>4 DEF HeapNext
<1> QED BY <1>1, <1>2, HeapInvariant, PTL DEF HeapSpec, IsPriorityQueue, Queue!Spec

\* A removal breaks the order of an ordered heap exactly when the element that fills the
\* hole belongs above the hole's parent: the price of sifting down only.
THEOREM HeapRemovals == HeapSpec => RemovalBreaksOrderOnlyAbove
<1> DEFINE Broken(e) ==
      RemoveLease(e) /\ e \in held /\ H!Ordered(jobHeap) =>
        LET i == CHOOSE i \in DOMAIN jobHeap : jobHeap[i] = e
        IN  H!Ordered(jobHeap') <=>
              \/ i \in {1, Len(jobHeap)}
              \/ ~Behind(jobHeap[H!Parent(i)], jobHeap[Len(jobHeap)])
<1>1. ASSUME HeapInv, NEW e \in Used PROVE Broken(e)
  <2> SUFFICES ASSUME RemoveLease(e), e \in held, H!Ordered(jobHeap)
               PROVE  LET i == CHOOSE i \in DOMAIN jobHeap : jobHeap[i] = e
                      IN  H!Ordered(jobHeap') <=>
                            \/ i \in {1, Len(jobHeap)}
                            \/ ~Behind(jobHeap[H!Parent(i)], jobHeap[Len(jobHeap)])
    OBVIOUS
  <2>1. PICK i \in DOMAIN jobHeap : jobHeap[i] = e /\ jobHeap' = H!HeapRemoveAt(jobHeap, i)
    BY <1>1, RemovedPlace
  <2>2. (CHOOSE k \in DOMAIN jobHeap : jobHeap[k] = e) = i
    BY <1>1, <2>1 DEF HeapInv, IsInjective
  <2>3. jobHeap \in Seq(Lease)
    BY <1>1 DEF HeapInv
  <2>4. CASE i \in {1, Len(jobHeap)}
    BY <2>1, <2>2, <2>3, <2>4, RemoveAtKeepsOrder
  <2>5. CASE i \notin {1, Len(jobHeap)}
    <3>1. i \in 2..Len(jobHeap) /\ Len(jobHeap) \in DOMAIN jobHeap
      BY <2>3, <2>5
    <3>2. H!Parent(i) \in DOMAIN jobHeap
      BY <2>3, <3>1, OrderedIs
    <3>3. Behind(jobHeap[H!Parent(i)], jobHeap[Len(jobHeap)]) <=>
            ~(Due(jobHeap[H!Parent(i)]) <= Due(jobHeap[Len(jobHeap)]))
      BY <2>3, <3>1, <3>2, BehindIs
    <3>4. H!Ordered(jobHeap') <=> Due(jobHeap[H!Parent(i)]) <= Due(jobHeap[Len(jobHeap)])
      BY <2>1, <2>3, <2>5, RemoveAtKeepsOrder, RemoveAtBreaksOrder
    <3> QED BY <2>2, <2>5, <3>3, <3>4
  <2> QED BY <2>4, <2>5
<1>2. HeapInv => [\A e \in Used : Broken(e)]_heapVars
  BY <1>1
<1> QED BY <1>2, HeapInvariant, PTL DEF HeapSpec, RemovalBreaksOrderOnlyAbove

-----------------------------------------------------------------------------
(* The supervisor: one call of sleepForCurrentJob.                         *)

LEMMA LeaseNotNone == NoLease \notin Lease
BY LeaseAssumptions

LEMMA SupervisorFields ==
  ASSUME NEW s \in Supervisor
  PROVE  /\ s.jobHeap \in Seq(Lease)
         /\ s.currentJob \in Lease \cup {NoLease} /\ s.timeout \in Lease \cup {NoLease}
         /\ s.wakes \in 0..MaxLeases /\ s.registered \in 0..MaxLeases
         /\ s = [jobHeap |-> s.jobHeap, currentJob |-> s.currentJob, timeout |-> s.timeout,
                 wakes |-> s.wakes, registered |-> s.registered]
BY DEF Supervisor

\* Its four outcomes: nothing to pop, the popped lease goes back, it is reported, or it
\* is slept for.  The last two put the current one back.
Slept(s, t) ==
  /\ s.jobHeap = <<>> /\ t = s /\ ReportedBy(s) = {}

GivesWay(s, t) ==
  /\ s.jobHeap # <<>> /\ CurrentStays(s) /\ ReportedBy(s) = {}
  /\ t.jobHeap = H!HeapInsert(Rest(s), Popped(s))
  /\ t.currentJob = s.currentJob /\ t.timeout = s.timeout
  /\ t.wakes = s.wakes

TakesOver(s, t) ==
  /\ s.jobHeap # <<>> /\ ~CurrentStays(s)
  /\ t.jobHeap = IF s.currentJob = NoLease THEN Rest(s) ELSE H!HeapInsert(Rest(s), s.currentJob)
  /\ \/ /\ Overdue(s) /\ ReportedBy(s) = {Popped(s)}
        /\ t.wakes = s.wakes + 1 /\ t.timeout = s.timeout
        /\ t.currentJob = IF s.currentJob = NoLease THEN NoLease ELSE Popped(s)
     \/ /\ ~Overdue(s) /\ ReportedBy(s) = {}
        /\ t.wakes = s.wakes /\ t.timeout = Popped(s) /\ t.currentJob = Popped(s)

LEMMA SleepIs ==
  ASSUME NEW s \in Supervisor
  PROVE  LET t == SleepForCurrentJob(s)
         IN  /\ Slept(s, t) \/ GivesWay(s, t) \/ TakesOver(s, t)
             /\ t.registered = s.registered
             /\ t = [jobHeap |-> t.jobHeap, currentJob |-> t.currentJob, timeout |-> t.timeout,
                     wakes |-> t.wakes, registered |-> t.registered]
<1>1. CASE s.jobHeap = <<>>
  BY <1>1, SupervisorFields DEF SleepForCurrentJob, ReportedBy, Slept, H!Empty
<1>2. CASE s.jobHeap # <<>> /\ CurrentStays(s)
  <2>1. SleepForCurrentJob(s) = [s EXCEPT !.jobHeap = PutBack(Rest(s), Popped(s))]
    BY <1>2 DEF SleepForCurrentJob, H!Empty
  <2> QED BY <1>2, <2>1, SupervisorFields DEF ReportedBy, GivesWay, H!Empty, PutBack
<1>3. CASE s.jobHeap # <<>> /\ ~CurrentStays(s) /\ Overdue(s)
  <2>1. SleepForCurrentJob(s) =
          [s EXCEPT !.jobHeap = Others(s), !.wakes = @ + 1, !.timeout = ArmedAfterReport(s),
                    !.currentJob = IF @ = NoLease THEN NoLease ELSE Popped(s)]
    BY <1>3 DEF SleepForCurrentJob, H!Empty
  <2> QED BY <1>3, <2>1, SupervisorFields
          DEF ReportedBy, TakesOver, H!Empty, Others, PutBack, ArmedAfterReport
<1>4. CASE s.jobHeap # <<>> /\ ~CurrentStays(s) /\ ~Overdue(s)
  <2>1. SleepForCurrentJob(s) =
          [s EXCEPT !.jobHeap = Others(s), !.currentJob = Popped(s), !.timeout = Popped(s)]
    BY <1>4 DEF SleepForCurrentJob, H!Empty
  <2> QED BY <1>4, <2>1, SupervisorFields DEF ReportedBy, TakesOver, H!Empty, Others, PutBack
<1> QED BY <1>1, <1>2, <1>3, <1>4

\* The lease popped, and the heap without it.
LEMMA PoppedIs ==
  ASSUME NEW s \in Supervisor, s.jobHeap # <<>>
  PROVE  /\ Popped(s) \in HeldBy(s) /\ Popped(s) \in Lease /\ HeldBy(s) \subseteq Lease
         /\ Rest(s) \in Seq(Lease)
         /\ Range(Rest(s)) \subseteq HeldBy(s) /\ HeldBy(s) \subseteq Range(Rest(s)) \cup {Popped(s)}
         /\ IsInjective(s.jobHeap) => IsInjective(Rest(s)) /\ Popped(s) \notin Range(Rest(s))
         /\ H!Ordered(s.jobHeap) => /\ H!Ordered(Rest(s))
                                    /\ \A l \in HeldBy(s) : Due(Popped(s)) <= Due(l)
<1> DEFINE arr == s.jobHeap
<1>1. arr \in Seq(Lease) /\ arr # <<>>
  BY SupervisorFields
<1>2. 1 \in DOMAIN arr /\ Popped(s) = arr[1] /\ Rest(s) = H!HeapRemoveAt(arr, 1) /\ HeldBy(s) = Range(arr)
  BY <1>1, PopIs DEF Popped, Rest, HeldBy
<1> HIDE DEF arr
<1>3. Range(arr) \subseteq Lease /\ arr[1] \in Range(arr)
  BY <1>1, <1>2 DEF Range
<1>4. H!Ordered(arr) => H!Ordered(H!HeapRemoveAt(arr, 1)) /\ \A l \in Range(arr) : Due(arr[1]) <= Due(l)
  BY <1>1, <1>2, RemoveAtKeepsOrder, TopIsFirst
<1> QED BY <1>1, <1>2, <1>3, <1>4, RemoveAtTakes DEF arr

\* Types, and the leases it has afterwards it had before.
LEMMA SleepTypes ==
  ASSUME NEW s \in Supervisor, s.wakes < s.registered
  PROVE  LET t == SleepForCurrentJob(s)
         IN  /\ t \in Supervisor /\ t.wakes <= t.registered
             /\ ReportedBy(s) \subseteq HeldBy(s)
             /\ HeldBy(t) \cup CurrentOf(t) \subseteq HeldBy(s) \cup CurrentOf(s)
<1> DEFINE t == SleepForCurrentJob(s)
<1>1. /\ Slept(s, t) \/ GivesWay(s, t) \/ TakesOver(s, t)
      /\ t.registered = s.registered
      /\ t = [jobHeap |-> t.jobHeap, currentJob |-> t.currentJob, timeout |-> t.timeout,
              wakes |-> t.wakes, registered |-> t.registered]
  BY SleepIs
<1> HIDE DEF t
<1>a. /\ s.jobHeap \in Seq(Lease) /\ s.currentJob \in Lease \cup {NoLease}
      /\ s.timeout \in Lease \cup {NoLease} /\ s.registered \in 0..MaxLeases
      /\ s.wakes \in Nat /\ s.registered \in Nat /\ s.wakes < s.registered
      /\ MaxLeases \in Nat
  <2>1. MaxLeases \in Nat
    BY LeaseBounds
  <2> QED BY <2>1, SupervisorFields
<1>b. ASSUME NEW h \in Seq(Lease), t.jobHeap = h, t.currentJob \in Lease \cup {NoLease},
             t.timeout \in Lease \cup {NoLease}, t.wakes \in Nat, t.wakes <= s.registered
      PROVE  t \in Supervisor /\ t.wakes <= t.registered
  <2>1. t.wakes \in 0..MaxLeases
    BY <1>a, <1>b
  <2> QED BY <1>1, <1>a, <1>b, <2>1 DEF Supervisor
<1>2. CASE Slept(s, t)
  <2>1. t = s /\ ReportedBy(s) = {} /\ s.wakes <= s.registered
    BY <1>2, <1>a DEF Slept
  <2> QED BY <2>1 DEF t
<1>3. CASE GivesWay(s, t)
  <2>1. /\ Popped(s) \in HeldBy(s) /\ Popped(s) \in Lease
        /\ Rest(s) \in Seq(Lease) /\ Range(Rest(s)) \subseteq HeldBy(s)
    BY <1>3, PoppedIs DEF GivesWay
  <2>2. t.jobHeap \in Seq(Lease) /\ HeldBy(t) \subseteq HeldBy(s)
    BY <1>3, <2>1, InsertAdds DEF GivesWay, HeldBy
  <2>3. t \in Supervisor /\ t.wakes <= t.registered
    BY <1>3, <1>a, <1>b, <2>2 DEF GivesWay
  <2> QED BY <1>3, <2>2, <2>3 DEF GivesWay, CurrentOf, t
<1>4. CASE TakesOver(s, t)
  <2>1. /\ Popped(s) \in HeldBy(s) /\ Popped(s) \in Lease
        /\ Rest(s) \in Seq(Lease) /\ Range(Rest(s)) \subseteq HeldBy(s)
    BY <1>4, PoppedIs DEF TakesOver
  <2>2. t.jobHeap \in Seq(Lease) /\ HeldBy(t) \subseteq HeldBy(s) \cup CurrentOf(s)
    <3>1. CASE s.currentJob = NoLease
      BY <1>4, <2>1, <3>1 DEF TakesOver, HeldBy
    <3>2. CASE s.currentJob # NoLease
      <4>1. s.currentJob \in Lease
        BY <1>a, <3>2
      <4>2. t.jobHeap = H!HeapInsert(Rest(s), s.currentJob)
        BY <1>4, <3>2 DEF TakesOver
      <4>3. t.jobHeap \in Seq(Lease) /\ Range(t.jobHeap) = Range(Rest(s)) \cup {s.currentJob}
        BY <2>1, <4>1, <4>2, InsertAdds
      <4> QED BY <2>1, <3>2, <4>3 DEF HeldBy, CurrentOf
    <3> QED BY <3>1, <3>2
  <2>3. t \in Supervisor /\ t.wakes <= t.registered
    <3>1. t.currentJob \in Lease \cup {NoLease} /\ t.timeout \in Lease \cup {NoLease}
      BY <1>4, <1>a, <2>1 DEF TakesOver
    <3>2. t.wakes \in Nat /\ t.wakes <= s.registered
      BY <1>4, <1>a DEF TakesOver
    <3> QED BY <1>b, <2>2, <3>1, <3>2
  <2>4. CurrentOf(t) \subseteq HeldBy(s) /\ ReportedBy(s) \subseteq HeldBy(s)
    BY <1>4, <2>1 DEF TakesOver, CurrentOf
  <2> QED BY <2>2, <2>3, <2>4 DEF t
<1> QED BY <1>1, <1>2, <1>3, <1>4 DEF t

\* A lease that was kept is kept, or it is the one reported.
Keeps(s, l) == l \in HeldBy(s) \/ (l = s.currentJob /\ l = s.timeout)

LEMMA SleepLosesNothing ==
  ASSUME NEW s \in Supervisor, NEW l \in Lease, Keeps(s, l)
  PROVE  l \in ReportedBy(s) \/ Keeps(SleepForCurrentJob(s), l)
<1> DEFINE t == SleepForCurrentJob(s)
<1>1. Slept(s, t) \/ GivesWay(s, t) \/ TakesOver(s, t)
  BY SleepIs
<1> HIDE DEF t
<1>2. CASE Slept(s, t)
  BY <1>2 DEF Slept, t
<1>3. CASE GivesWay(s, t)
  <2>1. /\ Popped(s) \in Lease /\ Rest(s) \in Seq(Lease)
        /\ HeldBy(s) \subseteq Range(Rest(s)) \cup {Popped(s)}
    BY <1>3, PoppedIs DEF GivesWay
  <2>2. HeldBy(s) \subseteq HeldBy(t)
    BY <1>3, <2>1, InsertAdds DEF GivesWay, HeldBy
  <2> QED BY <1>3, <2>2 DEF GivesWay, Keeps, t
<1>4. CASE TakesOver(s, t)
  <2>1. /\ Popped(s) \in Lease /\ Rest(s) \in Seq(Lease)
        /\ HeldBy(s) \subseteq Range(Rest(s)) \cup {Popped(s)}
    BY <1>4, PoppedIs DEF TakesOver
  <2>2. Range(Rest(s)) \cup CurrentOf(s) \subseteq HeldBy(t)
    <3>1. CASE s.currentJob = NoLease
      BY <1>4, <3>1 DEF TakesOver, HeldBy, CurrentOf
    <3>2. CASE s.currentJob # NoLease
      <4>1. s.currentJob \in Lease
        BY <3>2, SupervisorFields
      <4> QED BY <1>4, <2>1, <3>2, <4>1, InsertAdds DEF TakesOver, HeldBy, CurrentOf
    <3> QED BY <3>1, <3>2
  <2>3. Popped(s) \in ReportedBy(s) \/ Keeps(t, Popped(s))
    BY <1>4 DEF TakesOver, Keeps
  <2>4. l \in HeldBy(s) \/ l \in CurrentOf(s)
    BY LeaseNotNone DEF Keeps, CurrentOf
  <2>5. l = Popped(s) \/ l \in HeldBy(t)
    BY <2>1, <2>2, <2>4
  <2> QED BY <2>3, <2>5 DEF Keeps, t
<1> QED BY <1>1, <1>2, <1>3, <1>4

\* Of leases of one length the one due first is the one that started first.
LEMMA DueByStart ==
  ASSUME NEW k \in Lease, NEW l \in Lease, k.leaseTime = l.leaseTime
  PROVE  /\ Due(k) <= Due(l) <=> k.startedAt <= l.startedAt
         /\ k.startedAt \in Int /\ l.startedAt \in Int
<1>1. k.startedAt \in 0..MaxStart /\ l.startedAt \in 0..MaxStart /\ k.leaseTime \in LeaseTimes
  BY DEF Lease
<1>2. (\A n \in LeaseTimes : n \in Int) /\ MaxStart \in Int
  BY LeaseAssumptions
<1>3. k.startedAt \in Int /\ l.startedAt \in Int /\ k.leaseTime \in Int
  BY <1>1, <1>2
<1> QED BY <1>3 DEF Due

\* So the current lease of a supervisor in order started first of all, and stays so.
LEMMA SleepKeepsOrder ==
  ASSUME NEW s \in Supervisor, InOrder(s)
  PROVE  InOrder(SleepForCurrentJob(s))
<1> DEFINE t == SleepForCurrentJob(s)
<1>1. Slept(s, t) \/ GivesWay(s, t) \/ TakesOver(s, t)
  BY SleepIs
<1> HIDE DEF t
<1>2. /\ H!Ordered(s.jobHeap) /\ s.jobHeap \in Seq(Lease)
      /\ \A k, l \in HeldBy(s) \cup CurrentOf(s) : k.leaseTime = l.leaseTime
      /\ \A k \in CurrentOf(s), l \in HeldBy(s) : k.startedAt <= l.startedAt
      /\ CurrentOf(s) \subseteq Lease
  BY SupervisorFields DEF InOrder, CurrentOf
<1>3. CASE Slept(s, t)
  BY <1>3 DEF Slept, t
<1>4. CASE GivesWay(s, t)
  <2>1. /\ Popped(s) \in HeldBy(s) /\ Popped(s) \in Lease
        /\ Rest(s) \in Seq(Lease) /\ Range(Rest(s)) \subseteq HeldBy(s) /\ H!Ordered(Rest(s))
    BY <1>2, <1>4, PoppedIs DEF GivesWay
  <2>2. H!Ordered(t.jobHeap) /\ HeldBy(t) \subseteq HeldBy(s) /\ CurrentOf(t) = CurrentOf(s)
    BY <1>4, <2>1, InsertAdds, InsertKeepsOrder DEF GivesWay, HeldBy, CurrentOf
  <2> QED BY <1>2, <2>2 DEF InOrder, t
<1>5. CASE TakesOver(s, t)
  <2>1. /\ Popped(s) \in HeldBy(s) /\ Popped(s) \in Lease /\ HeldBy(s) \subseteq Lease
        /\ Rest(s) \in Seq(Lease) /\ Range(Rest(s)) \subseteq HeldBy(s) /\ H!Ordered(Rest(s))
        /\ \A l \in HeldBy(s) : Due(Popped(s)) <= Due(l)
    BY <1>2, <1>5, PoppedIs DEF TakesOver
  <2>2. \A l \in HeldBy(s) : Popped(s).startedAt <= l.startedAt
    BY <1>2, <2>1, DueByStart
  <2>3. \A l \in CurrentOf(s) : Popped(s).startedAt <= l.startedAt
    <3> SUFFICES ASSUME NEW l \in CurrentOf(s) PROVE Popped(s).startedAt <= l.startedAt
      OBVIOUS
    <3>1. l \in Lease /\ l.leaseTime = Popped(s).leaseTime
      BY <1>2, <2>1
    <3>2. ~(l.startedAt < Popped(s).startedAt)
      BY <1>5 DEF TakesOver, CurrentStays, CurrentOf
    <3> QED BY <2>1, <3>1, <3>2, DueByStart
  <2>4. H!Ordered(t.jobHeap) /\ HeldBy(t) \subseteq HeldBy(s) \cup CurrentOf(s)
    <3>1. CASE s.currentJob = NoLease
      BY <1>5, <2>1, <3>1 DEF TakesOver, HeldBy
    <3>2. CASE s.currentJob # NoLease
      <4>1. s.currentJob \in Lease
        BY <3>2, SupervisorFields
      <4>2. t.jobHeap = H!HeapInsert(Rest(s), s.currentJob)
        BY <1>5, <3>2 DEF TakesOver
      <4>3. H!Ordered(t.jobHeap) /\ Range(t.jobHeap) = Range(Rest(s)) \cup {s.currentJob}
        BY <2>1, <4>1, <4>2, InsertAdds, InsertKeepsOrder
      <4> QED BY <2>1, <3>2, <4>3 DEF HeldBy, CurrentOf
    <3> QED BY <3>1, <3>2
  <2>5. CurrentOf(t) \subseteq {Popped(s)}
    BY <1>5 DEF TakesOver, CurrentOf
  <2>6. HeldBy(t) \cup CurrentOf(t) \subseteq HeldBy(s) \cup CurrentOf(s)
    BY <2>1, <2>4, <2>5
  <2> QED BY <1>2, <2>2, <2>3, <2>4, <2>5, <2>6 DEF InOrder, t
<1> QED BY <1>1, <1>3, <1>4, <1>5

\* And in plain use, where starts differ, the current lease never gives way: it is
\* reported by its timer alone.
LEMMA SleepKnows ==
  ASSUME NEW s \in Supervisor, InOrder(s), NEW L, Knows(s, L)
  PROVE  /\ ReportedBy(s) \subseteq L
         /\ Knows(SleepForCurrentJob(s), L \ ReportedBy(s))
<1> DEFINE t == SleepForCurrentJob(s)
<1>1. Slept(s, t) \/ GivesWay(s, t) \/ TakesOver(s, t)
  BY SleepIs
<1> HIDE DEF t
<1>2. /\ s.timeout = s.currentJob
      /\ HeldBy(s) \cup CurrentOf(s) = L /\ HeldBy(s) \cap CurrentOf(s) = {}
      /\ IsInjective(s.jobHeap)
      /\ \A k, l \in L : k = l \/ (k.jobID # l.jobID /\ k.startedAt # l.startedAt)
  BY DEF Knows
<1>3. CASE Slept(s, t)
  <2>1. t = s /\ L \ ReportedBy(s) = L /\ ReportedBy(s) \subseteq L
    BY <1>3 DEF Slept
  <2> QED BY <2>1 DEF t
<1>4. CASE GivesWay(s, t)
  <2>1. /\ Popped(s) \in HeldBy(s) /\ Popped(s) \in Lease /\ Rest(s) \in Seq(Lease)
        /\ Range(Rest(s)) \subseteq HeldBy(s) /\ HeldBy(s) \subseteq Range(Rest(s)) \cup {Popped(s)}
        /\ IsInjective(Rest(s)) /\ Popped(s) \notin Range(Rest(s))
    BY <1>2, <1>4, PoppedIs DEF GivesWay
  <2>2. t.jobHeap = H!HeapInsert(Rest(s), Popped(s))
    BY <1>4 DEF GivesWay
  <2>3. HeldBy(t) = HeldBy(s) /\ IsInjective(t.jobHeap)
    <3>1. /\ Range(t.jobHeap) = Range(Rest(s)) \cup {Popped(s)}
          /\ IsInjective(t.jobHeap)
      BY <2>1, <2>2, InsertAdds
    <3> QED BY <2>1, <3>1 DEF HeldBy
  <2>4. /\ CurrentOf(t) = CurrentOf(s) /\ t.timeout = t.currentJob
        /\ L \ ReportedBy(s) = L /\ ReportedBy(s) \subseteq L
    BY <1>2, <1>4 DEF GivesWay, CurrentOf
  <2> QED BY <1>2, <2>3, <2>4 DEF Knows, t
<1>5. CASE TakesOver(s, t)
  <2>1. /\ Popped(s) \in HeldBy(s) /\ Popped(s) \in Lease /\ Rest(s) \in Seq(Lease)
        /\ Range(Rest(s)) = HeldBy(s) \ {Popped(s)}
        /\ IsInjective(Rest(s))
    BY <1>2, <1>5, PoppedIs DEF TakesOver
  <2>2. s.currentJob = NoLease
    <3> SUFFICES ASSUME s.currentJob # NoLease PROVE FALSE
      OBVIOUS
    <3>1. s.currentJob \in CurrentOf(s) /\ s.currentJob \in Lease
      BY SupervisorFields DEF CurrentOf
    <3>2. s.currentJob.startedAt <= Popped(s).startedAt
      BY <2>1, <3>1 DEF InOrder
    <3>3. s.currentJob.leaseTime = Popped(s).leaseTime
      BY <2>1, <3>1 DEF InOrder
    <3>4. s.currentJob.startedAt # Popped(s).startedAt
      BY <1>2, <2>1, <3>1
    <3>5. s.currentJob.startedAt < Popped(s).startedAt
      BY <2>1, <3>1, <3>2, <3>3, <3>4, DueByStart
    <3> QED BY <1>5, <3>5 DEF TakesOver, CurrentStays
  <2>3. t.jobHeap = Rest(s) /\ CurrentOf(s) = {} /\ L = HeldBy(s)
    BY <1>2, <1>5, <2>2 DEF TakesOver, CurrentOf
  <2>4. HeldBy(t) = L \ {Popped(s)} /\ IsInjective(t.jobHeap)
    BY <2>1, <2>3 DEF HeldBy
  <2>5. CASE ReportedBy(s) = {Popped(s)} /\ t.timeout = NoLease /\ t.currentJob = NoLease
    <3>1. CurrentOf(t) = {}
      BY <2>5 DEF CurrentOf
    <3>2. L \ ReportedBy(s) = L \ {Popped(s)} /\ ReportedBy(s) \subseteq L
      BY <2>1, <2>3, <2>5
    <3> QED BY <1>2, <2>4, <2>5, <3>1, <3>2 DEF Knows, t
  <2>6. CASE ReportedBy(s) = {} /\ t.timeout = Popped(s) /\ t.currentJob = Popped(s)
    <3>1. CurrentOf(t) = {Popped(s)}
      BY <2>1, <2>6, LeaseNotNone DEF CurrentOf
    <3>2. L \ ReportedBy(s) = L /\ ReportedBy(s) \subseteq L
      BY <2>6
    <3>3. HeldBy(t) \cup CurrentOf(t) = L /\ HeldBy(t) \cap CurrentOf(t) = {}
      BY <2>1, <2>3, <2>4, <3>1
    <3> QED BY <1>2, <2>4, <2>6, <3>2, <3>3 DEF Knows, t
  <2> QED BY <1>2, <1>5, <2>2, <2>5, <2>6 DEF TakesOver
<1> QED BY <1>1, <1>3, <1>4, <1>5

-----------------------------------------------------------------------------
(* The supervisor: its invariants.                                         *)

LeaseInv ==
  /\ TypeOK /\ SupervisorKnows
  /\ \A l \in owed : Keeps(supervisor, l)

LEMMA KeptIs == TypeOK => (LeaseKept <=> \A l \in owed : Keeps(supervisor, l))
BY LeaseNotNone DEF TypeOK, LeaseKept, Keeps, HeldBy

\* What both callers of sleepForCurrentJob need: from a supervisor state s it is called
\* in, with the leases L to be kept, to the state the step leaves.
LEMMA SleepStep ==
  ASSUME NEW s \in Supervisor, s.wakes < s.registered, NEW L \in SUBSET Lease,
         TypeOK,
         now' \in 0..MaxTime, plain' \in BOOLEAN, inOrder' \in BOOLEAN,
         \A l \in HeldBy(s) \cup CurrentOf(s) : l.startedAt <= now',
         \A l \in L : Keeps(s, l),
         inOrder' => InOrder(s),
         plain' /\ inOrder' => stray = {} /\ Knows(s, L),
         supervisor' = SleepForCurrentJob(s), Report(ReportedBy(s), L)
  PROVE  LeaseInv'
<1>1. /\ supervisor' \in Supervisor /\ supervisor'.wakes <= supervisor'.registered
      /\ ReportedBy(s) \subseteq HeldBy(s)
      /\ HeldBy(supervisor') \cup CurrentOf(supervisor') \subseteq HeldBy(s) \cup CurrentOf(s)
  BY SleepTypes
<1>2. owed' = L \ ReportedBy(s) /\ stray' = stray \cup (ReportedBy(s) \ L)
  BY DEF Report
<1>3. HeldBy(s) \subseteq Lease
  BY SupervisorFields DEF HeldBy, Range
<1>4. TypeOK'
  BY <1>1, <1>2, <1>3 DEF TypeOK
<1>5. \A l \in owed' : Keeps(supervisor', l)
  BY <1>2, SleepLosesNothing
<1>6. inOrder' => InOrder(supervisor')
  BY SleepKeepsOrder
<1>7. plain' /\ inOrder' => stray' = {} /\ Knows(supervisor', owed')
  BY <1>2, SleepKnows
<1> QED BY <1>1, <1>4, <1>5, <1>6, <1>7 DEF LeaseInv, SupervisorKnows

LEMMA RegisterStep ==
  ASSUME LeaseInv, NEW j \in Jobs, NEW seconds \in LeaseTimes, RegisterLeasedJob(j, seconds)
  PROVE  LeaseInv'
<1> DEFINE lease == [jobID |-> j, leaseTime |-> seconds, startedAt |-> now]
           s == [supervisor EXCEPT !.jobHeap = H!HeapInsert(@, lease), !.registered = @ + 1]
           L == owed \cup {lease}
<1>1. /\ now <= MaxStart /\ supervisor.registered < MaxLeases
      /\ supervisor' = SleepForCurrentJob(s) /\ Report(ReportedBy(s), L)
      /\ plain' = (plain /\ \A l \in Known : l.jobID # j /\ l.startedAt # now)
      /\ inOrder' = (inOrder /\ \A l \in Known : l.leaseTime = seconds)
      /\ UNCHANGED now
  BY DEF RegisterLeasedJob
<1>2. /\ TypeOK /\ supervisor \in Supervisor /\ now \in Nat /\ now \in 0..MaxTime
      /\ owed \subseteq Lease /\ plain \in BOOLEAN /\ inOrder \in BOOLEAN
      /\ supervisor.jobHeap \in Seq(Lease)
      /\ supervisor.wakes \in Nat /\ supervisor.registered \in Nat
      /\ supervisor.wakes <= supervisor.registered
  BY SupervisorFields DEF LeaseInv, TypeOK, SupervisorKnows
<1>3. lease \in Lease /\ lease.startedAt = now /\ lease.leaseTime = seconds /\ lease.jobID = j
  <2>1. now \in 0..MaxStart
    BY <1>1, <1>2, LeaseAssumptions
  <2> QED BY <2>1 DEF Lease
<1> HIDE DEF lease
<1>4. /\ H!HeapInsert(supervisor.jobHeap, lease) \in Seq(Lease)
      /\ Range(H!HeapInsert(supervisor.jobHeap, lease)) = HeldBy(supervisor) \cup {lease}
      /\ IsInjective(supervisor.jobHeap) /\ lease \notin HeldBy(supervisor)
           => IsInjective(H!HeapInsert(supervisor.jobHeap, lease))
      /\ H!Ordered(supervisor.jobHeap) => H!Ordered(H!HeapInsert(supervisor.jobHeap, lease))
  BY <1>2, <1>3, InsertAdds, InsertKeepsOrder DEF HeldBy
<1>5. /\ s.jobHeap = H!HeapInsert(supervisor.jobHeap, lease)
      /\ s.currentJob = supervisor.currentJob /\ s.timeout = supervisor.timeout
      /\ s.wakes = supervisor.wakes /\ s.registered = supervisor.registered + 1
      /\ s = [jobHeap |-> s.jobHeap, currentJob |-> s.currentJob, timeout |-> s.timeout,
              wakes |-> s.wakes, registered |-> s.registered]
  <2> DEFINE h == H!HeapInsert(supervisor.jobHeap, lease)
  <2>1. s = [supervisor EXCEPT !.jobHeap = h, !.registered = supervisor.registered + 1]
    OBVIOUS
  <2> HIDE DEF h, s
  <2>2. supervisor = [jobHeap |-> supervisor.jobHeap, currentJob |-> supervisor.currentJob,
                      timeout |-> supervisor.timeout, wakes |-> supervisor.wakes,
                      registered |-> supervisor.registered]
    BY <1>2, SupervisorFields
  <2>3. s = [jobHeap |-> h, currentJob |-> supervisor.currentJob,
             timeout |-> supervisor.timeout, wakes |-> supervisor.wakes,
             registered |-> supervisor.registered + 1]
    BY <2>1, <2>2
  <2> QED BY <2>3 DEF h
<1> HIDE DEF s
<1>6. s \in Supervisor /\ s.wakes < s.registered
  <2>1. s.registered \in 0..MaxLeases /\ s.wakes < s.registered
    BY <1>1, <1>2, <1>5, LeaseBounds
  <2> QED BY <1>2, <1>4, <1>5, <2>1, SupervisorFields DEF Supervisor
<1>7. HeldBy(s) = HeldBy(supervisor) \cup {lease} /\ CurrentOf(s) = CurrentOf(supervisor)
  BY <1>4, <1>5 DEF HeldBy, CurrentOf
<1>8. HeldBy(supervisor) \cup CurrentOf(supervisor) \subseteq Known
  BY <1>2, LeaseNotNone DEF Known, HeldBy, CurrentOf, Range
<1>9. L \in SUBSET Lease
  BY <1>2, <1>3
<1>10. \A l \in HeldBy(s) \cup CurrentOf(s) : l.startedAt <= now'
  <2>1. \A l \in HeldBy(supervisor) \cup CurrentOf(supervisor) : l.startedAt <= now
    BY DEF LeaseInv, SupervisorKnows
  <2> QED BY <1>1, <1>2, <1>3, <1>7, <2>1
<1>11. \A l \in L : Keeps(s, l)
  BY <1>5, <1>7 DEF LeaseInv, Keeps
<1>12. inOrder' => InOrder(s)
  <2> SUFFICES ASSUME inOrder' PROVE InOrder(s)
    OBVIOUS
  <2>1. InOrder(supervisor) /\ \A l \in Known : l.leaseTime = seconds
    BY <1>1 DEF LeaseInv, SupervisorKnows
  <2>2. \A l \in HeldBy(s) \cup CurrentOf(s) : l.leaseTime = seconds
    BY <1>3, <1>7, <1>8, <2>1
  <2>3. \A k \in CurrentOf(s), l \in HeldBy(s) : k.startedAt <= l.startedAt
    BY <1>1, <1>3, <1>7, <1>10, <2>1 DEF InOrder
  <2> QED BY <1>4, <1>5, <2>1, <2>2, <2>3 DEF InOrder
<1>13. plain' /\ inOrder' => stray = {} /\ Knows(s, L)
  <2> SUFFICES ASSUME plain', inOrder' PROVE stray = {} /\ Knows(s, L)
    OBVIOUS
  <2>1. stray = {} /\ Knows(supervisor, owed) /\ \A l \in Known : l.jobID # j /\ l.startedAt # now
    BY <1>1 DEF LeaseInv, SupervisorKnows
  <2>2. owed = HeldBy(supervisor) \cup CurrentOf(supervisor)
    BY <2>1 DEF Knows
  <2>3. lease \notin owed /\ \A l \in owed : l.jobID # j /\ l.startedAt # now
    BY <1>3, <1>8, <2>1, <2>2
  <2>4. HeldBy(s) \cup CurrentOf(s) = L /\ HeldBy(s) \cap CurrentOf(s) = {}
    BY <1>7, <2>1, <2>2, <2>3 DEF Knows
  <2>5. IsInjective(s.jobHeap)
    BY <1>4, <1>5, <2>1, <2>2, <2>3 DEF Knows
  <2>6. \A k, l \in L : k = l \/ (k.jobID # l.jobID /\ k.startedAt # l.startedAt)
    BY <1>3, <2>1, <2>3 DEF Knows
  <2> QED BY <1>5, <2>1, <2>4, <2>5, <2>6 DEF Knows
<1>14. plain' \in BOOLEAN /\ inOrder' \in BOOLEAN /\ now' \in 0..MaxTime
  BY <1>1, <1>2
<1> HIDE DEF L
<1> QED BY <1>1, <1>2, <1>6, <1>9, <1>10, <1>11, <1>12, <1>13, <1>14, SleepStep

LEMMA WakeStep ==
  ASSUME LeaseInv, Wake
  PROVE  LeaseInv'
<1> DEFINE s == Woken(supervisor)
<1>1. /\ supervisor.wakes > 0 /\ supervisor' = SleepForCurrentJob(s) /\ Report(ReportedBy(s), owed)
      /\ UNCHANGED <<now, plain, inOrder>>
  BY DEF Wake
<1>2. /\ TypeOK /\ supervisor \in Supervisor /\ owed \in SUBSET Lease
      /\ supervisor.wakes \in 0..MaxLeases /\ supervisor.registered \in Nat /\ MaxLeases \in Nat
      /\ supervisor.wakes <= supervisor.registered
      /\ now \in 0..MaxTime /\ plain \in BOOLEAN /\ inOrder \in BOOLEAN
  BY SupervisorFields, LeaseBounds DEF LeaseInv, TypeOK, SupervisorKnows
<1>3. /\ s.jobHeap = supervisor.jobHeap /\ s.currentJob = supervisor.currentJob
      /\ s.timeout = supervisor.timeout /\ s.registered = supervisor.registered
      /\ s.wakes = supervisor.wakes - 1
      /\ s = [jobHeap |-> s.jobHeap, currentJob |-> s.currentJob, timeout |-> s.timeout,
              wakes |-> s.wakes, registered |-> s.registered]
  BY <1>2, SupervisorFields DEF Woken
<1> HIDE DEF s
<1>4. s \in Supervisor /\ s.wakes < s.registered
  <2>1. s.wakes \in 0..MaxLeases /\ s.wakes < s.registered
    BY <1>1, <1>2, <1>3
  <2> QED BY <1>2, <1>3, <2>1, SupervisorFields DEF Supervisor
<1>5. HeldBy(s) = HeldBy(supervisor) /\ CurrentOf(s) = CurrentOf(supervisor)
  BY <1>3 DEF HeldBy, CurrentOf
<1>6. /\ \A l \in HeldBy(s) \cup CurrentOf(s) : l.startedAt <= now'
      /\ \A l \in owed : Keeps(s, l)
      /\ inOrder' => InOrder(s)
      /\ plain' /\ inOrder' => stray = {} /\ Knows(s, owed)
  BY <1>1, <1>3, <1>5 DEF LeaseInv, SupervisorKnows, Keeps, InOrder, Knows
<1>7. now' \in 0..MaxTime /\ plain' \in BOOLEAN /\ inOrder' \in BOOLEAN
  BY <1>1, <1>2
<1> QED BY <1>1, <1>2, <1>4, <1>6, <1>7, SleepStep

\* An ack takes the leases of its job, wherever they are, and no other.
LEMMA AckStep ==
  ASSUME LeaseInv, NEW j \in Jobs, Remove(j)
  PROVE  LeaseInv'
<1> DEFINE arr == supervisor.jobHeap
           left == H!HeapRemove(arr, ByJob(j))
           acked == supervisor.currentJob # NoLease /\ supervisor.currentJob.jobID = j
<1>1. /\ supervisor' = [ClearedFor(supervisor, j) EXCEPT !.jobHeap = H!HeapRemove(@, ByJob(j))]
      /\ owed' = {l \in owed : l.jobID # j}
      /\ inOrder' = (inOrder /\ H!Ordered(supervisor'.jobHeap))
      /\ UNCHANGED <<now, stray, plain>>
  BY DEF Remove
<1>2. /\ TypeOK /\ supervisor \in Supervisor /\ owed \subseteq Lease
      /\ inOrder \in BOOLEAN /\ arr \in Seq(Lease)
      /\ supervisor.wakes <= supervisor.registered
      /\ \A l \in HeldBy(supervisor) \cup CurrentOf(supervisor) : l.startedAt <= now
      /\ HeldBy(supervisor) = Range(arr)
  BY SupervisorFields DEF LeaseInv, TypeOK, SupervisorKnows, HeldBy
<1>3. supervisor' =
        [jobHeap |-> left,
         currentJob |-> IF acked THEN NoLease ELSE supervisor.currentJob,
         timeout |-> IF acked THEN NoLease ELSE supervisor.timeout,
         wakes |-> supervisor.wakes, registered |-> supervisor.registered]
  <2>1. supervisor = [jobHeap |-> arr, currentJob |-> supervisor.currentJob,
                      timeout |-> supervisor.timeout, wakes |-> supervisor.wakes,
                      registered |-> supervisor.registered]
    BY <1>2, SupervisorFields
  <2>2. CASE acked
    <3>1. ClearedFor(supervisor, j) = [supervisor EXCEPT !.currentJob = NoLease, !.timeout = NoLease]
      BY <2>2 DEF ClearedFor
    <3>2. supervisor' = [supervisor EXCEPT !.currentJob = NoLease, !.timeout = NoLease, !.jobHeap = left]
      BY <1>1, <2>1, <3>1
    <3> HIDE DEF left
    <3> QED BY <2>1, <2>2, <3>2
  <2>3. CASE ~acked
    <3>1. ClearedFor(supervisor, j) = supervisor
      BY <2>3 DEF ClearedFor
    <3>2. supervisor' = [supervisor EXCEPT !.jobHeap = left]
      BY <1>1, <3>1
    <3> HIDE DEF left
    <3> QED BY <2>1, <2>3, <3>2
  <2> QED BY <2>2, <2>3
<1>4. /\ left \in Seq(Lease) /\ Range(left) \subseteq Range(arr)
      /\ \A l \in Range(arr) : l.jobID # j => l \in Range(left)
      /\ IsInjective(arr) => IsInjective(left)
  <2>1. CASE left = arr
    BY <1>2, <2>1
  <2>2. ASSUME NEW i \in DOMAIN arr, arr[i].jobID = j, left = H!HeapRemoveAt(arr, i)
        PROVE  /\ left \in Seq(Lease) /\ Range(left) \subseteq Range(arr)
               /\ \A l \in Range(arr) : l.jobID # j => l \in Range(left)
               /\ IsInjective(arr) => IsInjective(left)
    BY <1>2, <2>2, RemoveAtTakes
  <2> QED BY <1>2, <2>1, <2>2, RemoveIs
\* What is left of the job, if no job has two leases.
<1>5. ASSUME IsInjective(arr),
             \A k, l \in Range(arr) : k = l \/ k.jobID # l.jobID
      PROVE  \A l \in Range(left) : l.jobID # j
  <2>1. CASE (\A l \in Range(arr) : l.jobID # j) /\ left = arr
    BY <2>1
  <2>2. ASSUME NEW i \in DOMAIN arr, arr[i].jobID = j, left = H!HeapRemoveAt(arr, i)
        PROVE  \A l \in Range(left) : l.jobID # j
    <3>1. arr[i] \notin Range(left) /\ arr[i] \in Range(arr)
      BY <1>2, <1>5, <2>2, RemoveAtTakes DEF Range
    <3> QED BY <1>4, <1>5, <2>2, <3>1
  <2> QED BY <1>2, <2>1, <2>2, RemoveIs
<1> HIDE DEF left
<1>6. /\ supervisor'.jobHeap = left
      /\ supervisor'.currentJob = IF acked THEN NoLease ELSE supervisor.currentJob
      /\ supervisor'.timeout = IF acked THEN NoLease ELSE supervisor.timeout
      /\ supervisor'.wakes = supervisor.wakes /\ supervisor'.registered = supervisor.registered
  BY <1>3
<1>7. HeldBy(supervisor') = Range(left) /\ HeldBy(supervisor') \subseteq HeldBy(supervisor)
  BY <1>2, <1>4, <1>6 DEF HeldBy
<1>8. CurrentOf(supervisor') = {l \in CurrentOf(supervisor) : l.jobID # j}
  BY <1>6 DEF CurrentOf
<1>9. TypeOK'
  <2>1. supervisor' \in Supervisor
    BY <1>2, <1>3, <1>4, SupervisorFields DEF Supervisor
  <2> QED BY <1>1, <1>2, <2>1 DEF TypeOK
<1>10. \A l \in owed' : Keeps(supervisor', l)
  <2> SUFFICES ASSUME NEW l \in owed' PROVE Keeps(supervisor', l)
    OBVIOUS
  <2>1. l \in Lease /\ l.jobID # j /\ Keeps(supervisor, l)
    BY <1>1, <1>2 DEF LeaseInv
  <2>2. CASE l \in HeldBy(supervisor)
    BY <1>2, <1>4, <1>7, <2>1, <2>2 DEF Keeps
  <2>3. CASE l = supervisor.currentJob /\ l = supervisor.timeout
    BY <1>6, <2>1, <2>3 DEF Keeps
  <2> QED BY <2>1, <2>2, <2>3 DEF Keeps
<1>11. inOrder' => InOrder(supervisor')
  BY <1>1, <1>7, <1>8 DEF LeaseInv, SupervisorKnows, InOrder
<1>12. ASSUME plain', inOrder' PROVE stray' = {} /\ Knows(supervisor', owed')
  <2>1. stray = {} /\ Knows(supervisor, owed)
    BY <1>1, <1>12 DEF LeaseInv, SupervisorKnows
  <2>2. /\ supervisor.timeout = supervisor.currentJob
        /\ HeldBy(supervisor) \cup CurrentOf(supervisor) = owed
        /\ HeldBy(supervisor) \cap CurrentOf(supervisor) = {}
        /\ IsInjective(arr)
        /\ \A k, l \in owed : k = l \/ (k.jobID # l.jobID /\ k.startedAt # l.startedAt)
    BY <2>1 DEF Knows
  <2>3. HeldBy(supervisor') = {l \in HeldBy(supervisor) : l.jobID # j}
    <3>1. \A k, l \in Range(arr) : k = l \/ k.jobID # l.jobID
      BY <1>2, <2>2
    <3>2. \A l \in Range(left) : l.jobID # j
      BY <1>5, <2>2, <3>1
    <3> QED BY <1>2, <1>4, <1>7, <3>2
  <2>4. HeldBy(supervisor') \cup CurrentOf(supervisor') = owed'
    BY <1>1, <1>8, <2>2, <2>3
  <2>5. HeldBy(supervisor') \cap CurrentOf(supervisor') = {}
    BY <1>8, <2>2, <2>3
  <2>6. supervisor'.timeout = supervisor'.currentJob /\ IsInjective(supervisor'.jobHeap)
    BY <1>4, <1>6, <2>2
  <2>7. \A k, l \in owed' : k = l \/ (k.jobID # l.jobID /\ k.startedAt # l.startedAt)
    BY <1>1, <2>2
  <2> QED BY <1>1, <2>1, <2>4, <2>5, <2>6, <2>7 DEF Knows
<1>13. /\ supervisor'.wakes <= supervisor'.registered
       /\ \A l \in HeldBy(supervisor') \cup CurrentOf(supervisor') : l.startedAt <= now'
  BY <1>1, <1>2, <1>6, <1>7, <1>8
<1> QED BY <1>9, <1>10, <1>11, <1>12, <1>13 DEF LeaseInv, SupervisorKnows

\* In plain use the timer that fires is the current lease's, so forgetting the current
\* lease forgets the reported one and no other.
LEMMA TimerStep ==
  ASSUME LeaseInv, TimerFires
  PROVE  LeaseInv'
<1> DEFINE fired == supervisor.timeout
<1>1. /\ fired # NoLease
      /\ supervisor' = [supervisor EXCEPT !.currentJob = NoLease, !.timeout = NoLease]
      /\ owed' = owed \ {fired} /\ stray' = stray \cup ({fired} \ owed)
      /\ UNCHANGED <<now, plain, inOrder>>
  BY DEF TimerFires, Report
<1>2. /\ TypeOK /\ supervisor \in Supervisor /\ owed \subseteq Lease /\ fired \in Lease
      /\ supervisor.wakes <= supervisor.registered
      /\ \A l \in HeldBy(supervisor) \cup CurrentOf(supervisor) : l.startedAt <= now
  BY <1>1, SupervisorFields DEF LeaseInv, TypeOK, SupervisorKnows
<1>3. /\ supervisor'.jobHeap = supervisor.jobHeap
      /\ supervisor'.currentJob = NoLease /\ supervisor'.timeout = NoLease
      /\ supervisor'.wakes = supervisor.wakes /\ supervisor'.registered = supervisor.registered
      /\ supervisor' \in Supervisor
  BY <1>1, <1>2, SupervisorFields DEF Supervisor
<1>4. HeldBy(supervisor') = HeldBy(supervisor) /\ CurrentOf(supervisor') = {}
  BY <1>3 DEF HeldBy, CurrentOf
<1>5. TypeOK'
  BY <1>1, <1>2, <1>3 DEF TypeOK
<1>6. \A l \in owed' : Keeps(supervisor', l)
  BY <1>1, <1>4 DEF LeaseInv, Keeps
<1>7. inOrder' => InOrder(supervisor')
  BY <1>1, <1>3, <1>4 DEF LeaseInv, SupervisorKnows, InOrder
<1>8. ASSUME plain', inOrder' PROVE stray' = {} /\ Knows(supervisor', owed')
  <2>1. stray = {} /\ Knows(supervisor, owed)
    BY <1>1, <1>8 DEF LeaseInv, SupervisorKnows
  <2>2. CurrentOf(supervisor) = {fired}
    BY <1>1, <2>1 DEF Knows, CurrentOf
  <2>3. fired \in owed /\ HeldBy(supervisor) = owed'
    BY <1>1, <2>1, <2>2 DEF Knows
  <2> QED BY <1>1, <1>3, <1>4, <2>1, <2>3 DEF Knows
<1>9. /\ supervisor'.wakes <= supervisor'.registered
      /\ \A l \in HeldBy(supervisor') \cup CurrentOf(supervisor') : l.startedAt <= now'
  BY <1>1, <1>2, <1>3, <1>4
<1> QED BY <1>5, <1>6, <1>7, <1>8, <1>9 DEF LeaseInv, SupervisorKnows

LEMMA TickStep ==
  ASSUME LeaseInv, Tick
  PROVE  LeaseInv'
<1>1. now' = now + 1 /\ now < MaxTime /\ UNCHANGED <<supervisor, owed, stray, plain, inOrder>>
  BY DEF Tick
<1>2. now \in 0..MaxTime /\ MaxTime \in Nat /\ supervisor \in Supervisor
  BY LeaseBounds DEF LeaseInv, TypeOK
<1>3. TypeOK'
  BY <1>1, <1>2 DEF LeaseInv, TypeOK
<1>4. \A l \in HeldBy(supervisor) \cup CurrentOf(supervisor) : l.startedAt <= now'
  <2> SUFFICES ASSUME NEW l \in HeldBy(supervisor) \cup CurrentOf(supervisor)
               PROVE  l.startedAt <= now'
    OBVIOUS
  <2>1. l \in Lease
    BY <1>2, SupervisorFields DEF HeldBy, CurrentOf, Range
  <2>2. l.startedAt \in Int
    BY <2>1, DueByStart
  <2>3. l.startedAt <= now
    BY DEF LeaseInv, SupervisorKnows
  <2> QED BY <1>1, <1>2, <2>2, <2>3
<1> QED BY <1>1, <1>3, <1>4 DEF LeaseInv, SupervisorKnows

LEMMA LeaseInit == Init => LeaseInv
<1> SUFFICES ASSUME Init PROVE LeaseInv
  OBVIOUS
<1>1. /\ supervisor.jobHeap = <<>> /\ supervisor.currentJob = NoLease
      /\ supervisor.timeout = NoLease /\ supervisor.wakes = 0 /\ supervisor.registered = 0
      /\ now = 0 /\ owed = {} /\ stray = {} /\ plain = TRUE /\ inOrder = TRUE
  BY DEF Init
<1>2. HeldBy(supervisor) = {} /\ CurrentOf(supervisor) = {}
  BY <1>1 DEF HeldBy, CurrentOf, Range
<1>3. TypeOK
  <2>1. supervisor \in Supervisor
    BY LeaseBounds DEF Init, Supervisor
  <2> QED BY <1>1, <2>1, LeaseBounds DEF TypeOK
<1>4. InOrder(supervisor)
  <2>1. H!Ordered(<<>>)
    BY DEF H!Ordered
  <2> QED BY <1>1, <1>2, <2>1 DEF InOrder
<1>5. Knows(supervisor, owed)
  BY <1>1, <1>2 DEF Knows, IsInjective
<1> QED BY <1>1, <1>2, <1>3, <1>4, <1>5 DEF LeaseInv, SupervisorKnows

LEMMA LeaseInvariant == Spec => []LeaseInv
<1>1. LeaseInv /\ [Next]_vars => LeaseInv'
  <2> SUFFICES ASSUME LeaseInv, [Next]_vars PROVE LeaseInv'
    OBVIOUS
  <2>1. ASSUME NEW j \in Jobs, Remove(j) PROVE LeaseInv'
    BY <2>1, AckStep
  <2>2. ASSUME NEW j \in Jobs, NEW t \in LeaseTimes, RegisterLeasedJob(j, t) PROVE LeaseInv'
    BY <2>2, RegisterStep
  <2>3. CASE UNCHANGED vars
    BY <2>3 DEF vars, LeaseInv, TypeOK, SupervisorKnows
  <2> QED BY <2>1, <2>2, <2>3, TimerStep, WakeStep, TickStep DEF Next
<1> QED BY <1>1, LeaseInit, PTL DEF Spec

-----------------------------------------------------------------------------
(* The supervisor: what it promises.                                       *)

\* The supervisor's fields have their types whatever is registered and acked, and the
\* timers sleepForCurrentJob arms to call itself at once are never more than the
\* registrations.
THEOREM LeasesTypeCorrect == Spec => []TypeOK
BY LeaseInvariant, PTL DEF LeaseInv

\* A lease that was registered, not reported and not acked is never lost: it is in the
\* heap, or it is the current one and the armed timer is its own, however the leases
\* push each other out of the one timer.
THEOREM LeasesAreKept == Spec => []LeaseKept
<1>1. LeaseInv => LeaseKept
  BY KeptIs DEF LeaseInv
<1> QED BY <1>1, LeaseInvariant, PTL

\* As long as no job has two leases, no two start together, all have one length and no
\* ack breaks the heap's order, triggerEvent is called for no job that was acked or
\* reported before.
THEOREM NoStrayReports == Spec => []NoStrayReport
<1>1. LeaseInv => NoStrayReport
  BY DEF LeaseInv, SupervisorKnows, NoStrayReport
<1> QED BY <1>1, LeaseInvariant, PTL

\* As long as the leases have one length and no ack breaks the heap's order, the one
\* timer sleeps for the first deadline of all leases that are owed.
THEOREM EarliestIsSleptFor == Spec => []SleepsForEarliest
<1>1. ASSUME LeaseInv, inOrder, supervisor.currentJob \in owed, NEW l \in owed
      PROVE  Deadline(supervisor.currentJob) <= Deadline(l)
  <2> DEFINE k == supervisor.currentJob
             length == k.leaseTime * Second
  <2>1. k \in Lease /\ l \in Lease /\ InOrder(supervisor) /\ Keeps(supervisor, l)
    BY <1>1 DEF LeaseInv, TypeOK, SupervisorKnows
  <2>2. k \in CurrentOf(supervisor) /\ l \in HeldBy(supervisor) \cup CurrentOf(supervisor)
    BY <2>1, LeaseNotNone DEF CurrentOf, Keeps
  <2>3. k.leaseTime = l.leaseTime
    BY <2>1, <2>2 DEF InOrder
  <2>4. k.startedAt \in Int /\ l.startedAt \in Int
    BY <2>1, <2>3, DueByStart
  <2>5. k.startedAt <= l.startedAt
    BY <2>1, <2>2, <2>4 DEF InOrder, CurrentOf
  <2>6. length \in Int
    <3>1. k.leaseTime \in LeaseTimes
      BY <2>1 DEF Lease
    <3>2. (\A n \in LeaseTimes : n \in Int) /\ Second \in Int
      BY LeaseAssumptions, LeaseBounds
    <3>3. k.leaseTime \in Int
      BY <3>1, <3>2
    <3> QED BY <3>2, <3>3
  <2>7. Deadline(k) = k.startedAt + length /\ Deadline(l) = l.startedAt + length
    BY <2>3 DEF Deadline
  <2> HIDE DEF k, length
  <2>8. k.startedAt + length <= l.startedAt + length
    BY <2>4, <2>5, <2>6
  <2> QED BY <2>7, <2>8 DEF k
<1>2. LeaseInv => SleepsForEarliest
  BY <1>1 DEF SleepsForEarliest
<1> QED BY <1>2, LeaseInvariant, PTL

=============================================================================
