-------------------------- MODULE GrpcCallsProofs --------------------------
(***************************************************************************)
(* Theorems about the codec of the gRPC messages and about the messages on *)
(* their way, for any keys, any nesting and any recursion limit.           *)
(***************************************************************************)
EXTENDS GrpcCalls, FiniteSetTheorems, WellFoundedInduction, TLAPS

-----------------------------------------------------------------------------
(* Induction, stated with a set so that it can be cited.                   *)

\* A set with 0 and the successors of its members has every natural.
LEMMA NaturalsAreReached ==
  ASSUME NEW T, 0 \in T, \A n \in Nat : n \in T => n + 1 \in T
  PROVE  \A n \in Nat : n \in T
<1> DEFINE Below == OpToRel(<, Nat)
           Left == Nat \ T
<1>1. SUFFICES ASSUME Left # {} PROVE FALSE
  OBVIOUS
<1>2. PICK m \in Left : \A t \in Left : ~(<<t, m>> \in Below)
  <2>1. Left \in SUBSET Nat
    OBVIOUS
  <2> HIDE DEF Left
  <2> QED BY <1>1, <2>1, NatLessThanWellFounded, WFMin
<1>3. m # 0 /\ m - 1 \in Nat /\ m - 1 + 1 = m
  <2>1. m \in Nat /\ m \notin T
    BY <1>2
  <2>2. m # 0
    BY <2>1
  <2> QED BY <2>1, <2>2
<1>4. m - 1 \in Left
  BY <1>2, <1>3
<1>5. <<m - 1, m>> \in Below
  BY <1>2, <1>3 DEF OpToRel
<1> HIDE DEF Below, Left
<1> QED BY <1>2, <1>4, <1>5

-----------------------------------------------------------------------------
(* The functions of the model that are defined by recursion on the natural *)
(* numbers exist.  All of them are taken together, as one function that    *)
(* gives a record, and each is a field of it.                              *)

DeeperValues(inner) ==
  Scalars \cup {Undef, Null, Date} \cup Objects(inner) \cup Lists(inner)

DeeperWires(inner) == Seq(TaggedFields(Scalars \cup ({"bytes"} \X inner)))

DeeperEncode(enc) ==
  [kv \in Types \X Held |-> Fields(kv[1], Wrap(kv[1], kv[2]), enc)]

DeeperDecode(dec) ==
  [tw \in Types \X Wires[Levels] |-> ReadAll(tw[1], dec, tw[2])]

Kept(f) == {k \in Keys : f[k] \notin {Absent, Undef}}

Deep(inner, extra, S) == Max({1} \cup {extra + inner[x].depth : x \in S})

CrossedOne(inner, v) ==
  CASE Type(v) = "date"   -> [value |-> Obj(NoKeys), depth |-> 1]
    [] Type(v) = "object" ->
         [value |-> Obj([k \in Keys |-> IF k \in Kept(v[2]) THEN inner[v[2][k]].value ELSE Absent]),
          depth |-> Deep(inner, 3, {v[2][k] : k \in Kept(v[2])})]
    [] Type(v) = "array"  ->
         [value |-> List([i \in DOMAIN v[2] |-> inner[v[2][i]].value]),
          depth |-> Deep(inner, 2, {v[2][i] : i \in DOMAIN v[2]})]
    [] OTHER -> [value |-> v, depth |-> 0]

FirstCrossed == [v \in AnyValue |-> [value |-> v, depth |-> 0]]

DeeperCrossed(inner) == [v \in AnyValue |-> CrossedOne(inner, v)]

JsonOne(inner, v) ==
  CASE Type(v) = "object" ->
         Obj([k \in Keys |-> IF v[2][k] \in {Absent, Undef} THEN Absent ELSE inner[v[2][k]]])
    [] Type(v) = "array"  ->
         List([i \in DOMAIN v[2] |-> IF v[2][i] = Undef THEN Null ELSE inner[v[2][i]]])
    [] OTHER -> v

DeeperJson(inner) == [v \in AnyValue |-> JsonOne(inner, v)]

First ==
  [values  |-> Scalars \cup {Undef, Null},
   wires   |-> Seq(TaggedFields(Scalars)),
   encode  |-> [kv \in Types \X Held |-> <<>>],
   decode  |-> [tw \in Types \X Wires[Levels] |-> Failed(tw[1])],
   crossed |-> FirstCrossed,
   json    |-> [v \in AnyValue |-> v],
   power   |-> 1]

Deeper(r) ==
  [values  |-> DeeperValues(r.values),
   wires   |-> DeeperWires(r.wires),
   encode  |-> DeeperEncode(r.encode),
   decode  |-> DeeperDecode(r.decode),
   crossed |-> DeeperCrossed(r.crossed),
   json    |-> DeeperJson(r.json),
   power   |-> 2 * r.power]

UpTo(f, n) == f = [i \in 0..n |-> IF i = 0 THEN First ELSE Deeper(f[i - 1])]

\* The first n levels exist, for every n.
LEMMA UpToEach == \A n \in Nat : \E f : UpTo(f, n)
<1> DEFINE T == {n \in Nat : \E f : UpTo(f, n)}
<1>1. 0 \in T
  <2> DEFINE f == [i \in 0..0 |-> First]
  <2>1. UpTo(f, 0)
    BY DEF UpTo
  <2> QED BY <2>1
<1>2. ASSUME NEW n \in Nat, n \in T PROVE n + 1 \in T
  <2>1. PICK f : UpTo(f, n)
    BY <1>2
  <2> DEFINE g == [i \in 0..(n + 1) |-> IF i = n + 1 THEN Deeper(f[n]) ELSE f[i]]
  <2>2. \A i \in 0..n : f[i] = IF i = 0 THEN First ELSE Deeper(f[i - 1])
    BY <2>1 DEF UpTo
  <2>3. \A i \in 0..(n + 1) : g[i] = IF i = 0 THEN First ELSE Deeper(g[i - 1])
    <3> SUFFICES ASSUME NEW i \in 0..(n + 1)
                 PROVE  g[i] = IF i = 0 THEN First ELSE Deeper(g[i - 1])
      OBVIOUS
    <3>1. i - 1 \in 0..(n + 1) \/ i = 0
      OBVIOUS
    <3>2. CASE i = n + 1
      BY <3>2
    <3>3. CASE i # n + 1
      BY <3>1, <3>3, <2>2
    <3> QED BY <3>2, <3>3
  <2>4. UpTo(g, n + 1)
    <3>1. g = [i \in 0..(n + 1) |-> g[i]]
      OBVIOUS
    <3> HIDE DEF g
    <3> QED BY <2>3, <3>1 DEF UpTo
  <2> QED BY <2>4
<1> HIDE DEF T
<1>3. \A n \in Nat : n \in T
  BY <1>1, <1>2, NaturalsAreReached
<1> QED BY <1>3 DEF T

\* Two towers agree on the levels they share.
LEMMA UpToAgree ==
  ASSUME NEW f, NEW g, NEW n \in Nat, NEW m \in Nat, UpTo(f, n), UpTo(g, m)
  PROVE  \A i \in Nat : i <= n /\ i <= m => f[i] = g[i]
<1> DEFINE T == {i \in Nat : i <= n /\ i <= m => f[i] = g[i]}
<1>1. 0 \in T
  BY DEF UpTo
<1>2. ASSUME NEW i \in Nat, i \in T PROVE i + 1 \in T
  BY <1>2 DEF UpTo
<1> HIDE DEF T
<1>3. \A i \in Nat : i \in T
  BY <1>1, <1>2, NaturalsAreReached
<1> QED BY <1>3 DEF T

IsTower(h) == h = [n \in Nat |-> IF n = 0 THEN First ELSE Deeper(h[n - 1])]

\* All levels exist at once: one tower of the functions of the codec and its reference.
LEMMA TowerExists == \E h : IsTower(h)
<1> DEFINE upTo(n) == CHOOSE f : UpTo(f, n)
           h == [n \in Nat |-> upTo(n)[n]]
<1>1. \A n \in Nat : UpTo(upTo(n), n)
  BY UpToEach
<1> HIDE DEF upTo
<1>2. \A n \in Nat : h[n] = IF n = 0 THEN First ELSE Deeper(h[n - 1])
  <2> SUFFICES ASSUME NEW n \in Nat PROVE h[n] = IF n = 0 THEN First ELSE Deeper(h[n - 1])
    OBVIOUS
  <2>1. upTo(n)[n] = IF n = 0 THEN First ELSE Deeper(upTo(n)[n - 1])
    BY <1>1 DEF UpTo
  <2>2. CASE n = 0
    BY <2>1, <2>2
  <2>3. CASE n # 0
    <3>1. n - 1 \in Nat /\ n - 1 <= n
      BY <2>3
    <3>2. upTo(n)[n - 1] = upTo(n - 1)[n - 1]
      BY <1>1, <3>1, UpToAgree
    <3> QED BY <2>1, <2>3, <3>1, <3>2
  <2> QED BY <2>2, <2>3
<1>3. h = [n \in Nat |-> h[n]]
  OBVIOUS
<1> HIDE DEF h
<1> QED BY <1>2, <1>3 DEF IsTower

IsValues(f) == f = [n \in Nat |-> IF n = 0 THEN First.values ELSE DeeperValues(f[n - 1])]

\* Values satisfies its recursive equation.
LEMMA ValuesIs ==
  /\ Values[0] = Scalars \cup {Undef, Null}
  /\ \A n \in Nat : n # 0 => Values[n] = DeeperValues(Values[n - 1])
<1>1. PICK h : IsTower(h)
  BY TowerExists
<1> DEFINE g == [n \in Nat |-> h[n].values]
<1>2. IsValues(g)
  <2>1. \A n \in Nat : g[n] = IF n = 0 THEN First.values ELSE DeeperValues(g[n - 1])
    <3> SUFFICES ASSUME NEW n \in Nat PROVE g[n] = IF n = 0 THEN First.values ELSE DeeperValues(g[n - 1])
      OBVIOUS
    <3>1. h[n] = IF n = 0 THEN First ELSE Deeper(h[n - 1])
      BY <1>1 DEF IsTower
    <3>2. \A r : Deeper(r).values = DeeperValues(r.values)
      BY DEF Deeper
    <3>3. n = 0 \/ n - 1 \in Nat
      OBVIOUS
    <3> QED BY <3>1, <3>2, <3>3
  <2>2. g = [n \in Nat |-> g[n]]
    OBVIOUS
  <2> HIDE DEF g
  <2> QED BY <2>1, <2>2 DEF IsValues
<1>3. Values = CHOOSE f : IsValues(f)
  BY DEF Values, IsValues, First, DeeperValues
<1>4. IsValues(Values)
  <2> HIDE DEF g
  <2> QED BY <1>2, <1>3
<1>5. First.values = Scalars \cup {Undef, Null}
  BY DEF First
<1> QED BY <1>4, <1>5 DEF IsValues

IsWires(f) == f = [n \in Nat |-> IF n = 0 THEN First.wires ELSE DeeperWires(f[n - 1])]

\* Wires satisfies its recursive equation.
LEMMA WiresIs ==
  /\ Wires[0] = Seq(TaggedFields(Scalars))
  /\ \A n \in Nat : n # 0 => Wires[n] = DeeperWires(Wires[n - 1])
<1>1. PICK h : IsTower(h)
  BY TowerExists
<1> DEFINE g == [n \in Nat |-> h[n].wires]
<1>2. IsWires(g)
  <2>1. \A n \in Nat : g[n] = IF n = 0 THEN First.wires ELSE DeeperWires(g[n - 1])
    <3> SUFFICES ASSUME NEW n \in Nat PROVE g[n] = IF n = 0 THEN First.wires ELSE DeeperWires(g[n - 1])
      OBVIOUS
    <3>1. h[n] = IF n = 0 THEN First ELSE Deeper(h[n - 1])
      BY <1>1 DEF IsTower
    <3>2. \A r : Deeper(r).wires = DeeperWires(r.wires)
      BY DEF Deeper
    <3>3. n = 0 \/ n - 1 \in Nat
      OBVIOUS
    <3> QED BY <3>1, <3>2, <3>3
  <2>2. g = [n \in Nat |-> g[n]]
    OBVIOUS
  <2> HIDE DEF g
  <2> QED BY <2>1, <2>2 DEF IsWires
<1>3. Wires = CHOOSE f : IsWires(f)
  BY DEF Wires, IsWires, First, DeeperWires
<1>4. IsWires(Wires)
  <2> HIDE DEF g
  <2> QED BY <1>2, <1>3
<1>5. First.wires = Seq(TaggedFields(Scalars))
  BY DEF First
<1> QED BY <1>4, <1>5 DEF IsWires

IsEncodeAt(f) == f = [n \in Nat |-> IF n = 0 THEN First.encode ELSE DeeperEncode(f[n - 1])]

\* EncodeAt satisfies its recursive equation.
LEMMA EncodeAtIs ==
  /\ EncodeAt[0] = [kv \in Types \X Held |-> <<>>]
  /\ \A n \in Nat : n # 0 => EncodeAt[n] = DeeperEncode(EncodeAt[n - 1])
<1>1. PICK h : IsTower(h)
  BY TowerExists
<1> DEFINE g == [n \in Nat |-> h[n].encode]
<1>2. IsEncodeAt(g)
  <2>1. \A n \in Nat : g[n] = IF n = 0 THEN First.encode ELSE DeeperEncode(g[n - 1])
    <3> SUFFICES ASSUME NEW n \in Nat PROVE g[n] = IF n = 0 THEN First.encode ELSE DeeperEncode(g[n - 1])
      OBVIOUS
    <3>1. h[n] = IF n = 0 THEN First ELSE Deeper(h[n - 1])
      BY <1>1 DEF IsTower
    <3>2. \A r : Deeper(r).encode = DeeperEncode(r.encode)
      BY DEF Deeper
    <3>3. n = 0 \/ n - 1 \in Nat
      OBVIOUS
    <3> QED BY <3>1, <3>2, <3>3
  <2>2. g = [n \in Nat |-> g[n]]
    OBVIOUS
  <2> HIDE DEF g
  <2> QED BY <2>1, <2>2 DEF IsEncodeAt
<1>3. EncodeAt = CHOOSE f : IsEncodeAt(f)
  BY DEF EncodeAt, IsEncodeAt, First, DeeperEncode
<1>4. IsEncodeAt(EncodeAt)
  <2> HIDE DEF g
  <2> QED BY <1>2, <1>3
<1>5. First.encode = [kv \in Types \X Held |-> <<>>]
  BY DEF First
<1> QED BY <1>4, <1>5 DEF IsEncodeAt

IsDecodeAt(f) == f = [n \in Nat |-> IF n = 0 THEN First.decode ELSE DeeperDecode(f[n - 1])]

\* DecodeAt satisfies its recursive equation.
LEMMA DecodeAtIs ==
  /\ DecodeAt[0] = [tw \in Types \X Wires[Levels] |-> Failed(tw[1])]
  /\ \A n \in Nat : n # 0 => DecodeAt[n] = DeeperDecode(DecodeAt[n - 1])
<1>1. PICK h : IsTower(h)
  BY TowerExists
<1> DEFINE g == [n \in Nat |-> h[n].decode]
<1>2. IsDecodeAt(g)
  <2>1. \A n \in Nat : g[n] = IF n = 0 THEN First.decode ELSE DeeperDecode(g[n - 1])
    <3> SUFFICES ASSUME NEW n \in Nat PROVE g[n] = IF n = 0 THEN First.decode ELSE DeeperDecode(g[n - 1])
      OBVIOUS
    <3>1. h[n] = IF n = 0 THEN First ELSE Deeper(h[n - 1])
      BY <1>1 DEF IsTower
    <3>2. \A r : Deeper(r).decode = DeeperDecode(r.decode)
      BY DEF Deeper
    <3>3. n = 0 \/ n - 1 \in Nat
      OBVIOUS
    <3> QED BY <3>1, <3>2, <3>3
  <2>2. g = [n \in Nat |-> g[n]]
    OBVIOUS
  <2> HIDE DEF g
  <2> QED BY <2>1, <2>2 DEF IsDecodeAt
<1>3. DecodeAt = CHOOSE f : IsDecodeAt(f)
  BY DEF DecodeAt, IsDecodeAt, First, DeeperDecode
<1>4. IsDecodeAt(DecodeAt)
  <2> HIDE DEF g
  <2> QED BY <1>2, <1>3
<1>5. First.decode = [tw \in Types \X Wires[Levels] |-> Failed(tw[1])]
  BY DEF First
<1> QED BY <1>4, <1>5 DEF IsDecodeAt

IsCrossedAt(f) == f = [n \in Nat |-> IF n = 0 THEN FirstCrossed ELSE DeeperCrossed(f[n - 1])]

\* CrossedAt satisfies its recursive equation.
LEMMA CrossedAtIs ==
  /\ CrossedAt[0] = [v \in AnyValue |-> [value |-> v, depth |-> 0]]
  /\ \A n \in Nat : n # 0 => CrossedAt[n] = DeeperCrossed(CrossedAt[n - 1])
<1>1. PICK h : IsTower(h)
  BY TowerExists
<1> DEFINE g == [n \in Nat |-> h[n].crossed]
<1>2. IsCrossedAt(g)
  <2>1. \A n \in Nat : g[n] = IF n = 0 THEN FirstCrossed ELSE DeeperCrossed(g[n - 1])
    <3> SUFFICES ASSUME NEW n \in Nat PROVE g[n] = IF n = 0 THEN FirstCrossed ELSE DeeperCrossed(g[n - 1])
      OBVIOUS
    <3>1. h[n] = IF n = 0 THEN First ELSE Deeper(h[n - 1])
      BY <1>1 DEF IsTower
    <3>2. \A r : Deeper(r).crossed = DeeperCrossed(r.crossed)
      BY DEF Deeper
    <3>3. n = 0 \/ n - 1 \in Nat
      OBVIOUS
    <3>4. First.crossed = FirstCrossed
      BY DEF First
    <3> QED BY <3>1, <3>2, <3>3, <3>4
  <2>2. g = [n \in Nat |-> g[n]]
    OBVIOUS
  <2> HIDE DEF g
  <2> QED BY <2>1, <2>2 DEF IsCrossedAt
<1>3. CrossedAt = CHOOSE f : IsCrossedAt(f)
  BY DEF CrossedAt, IsCrossedAt, FirstCrossed, DeeperCrossed, CrossedOne, Deep, Kept
<1>4. IsCrossedAt(CrossedAt)
  <2> HIDE DEF g
  <2> QED BY <1>2, <1>3
<1> QED BY <1>4 DEF IsCrossedAt, FirstCrossed

IsJsonAt(f) == f = [n \in Nat |-> IF n = 0 THEN First.json ELSE DeeperJson(f[n - 1])]

\* JsonAt satisfies its recursive equation.
LEMMA JsonAtIs ==
  /\ JsonAt[0] = [v \in AnyValue |-> v]
  /\ \A n \in Nat : n # 0 => JsonAt[n] = DeeperJson(JsonAt[n - 1])
<1>1. PICK h : IsTower(h)
  BY TowerExists
<1> DEFINE g == [n \in Nat |-> h[n].json]
<1>2. IsJsonAt(g)
  <2>1. \A n \in Nat : g[n] = IF n = 0 THEN First.json ELSE DeeperJson(g[n - 1])
    <3> SUFFICES ASSUME NEW n \in Nat PROVE g[n] = IF n = 0 THEN First.json ELSE DeeperJson(g[n - 1])
      OBVIOUS
    <3>1. h[n] = IF n = 0 THEN First ELSE Deeper(h[n - 1])
      BY <1>1 DEF IsTower
    <3>2. \A r : Deeper(r).json = DeeperJson(r.json)
      BY DEF Deeper
    <3>3. n = 0 \/ n - 1 \in Nat
      OBVIOUS
    <3> QED BY <3>1, <3>2, <3>3
  <2>2. g = [n \in Nat |-> g[n]]
    OBVIOUS
  <2> HIDE DEF g
  <2> QED BY <2>1, <2>2 DEF IsJsonAt
<1>3. JsonAt = CHOOSE f : IsJsonAt(f)
  BY DEF JsonAt, IsJsonAt, First, DeeperJson, JsonOne
<1>4. IsJsonAt(JsonAt)
  <2> HIDE DEF g
  <2> QED BY <1>2, <1>3
<1>5. First.json = [v \in AnyValue |-> v]
  BY DEF First
<1> QED BY <1>4, <1>5 DEF IsJsonAt

Doubled(x) == 2 * x

IsTwoTo(f) == f = [n \in Nat |-> IF n = 0 THEN First.power ELSE Doubled(f[n - 1])]

\* TwoTo satisfies its recursive equation.
LEMMA TwoToIs ==
  /\ TwoTo[0] = 1
  /\ \A n \in Nat : n # 0 => TwoTo[n] = Doubled(TwoTo[n - 1])
<1>1. PICK h : IsTower(h)
  BY TowerExists
<1> DEFINE g == [n \in Nat |-> h[n].power]
<1>2. IsTwoTo(g)
  <2>1. \A n \in Nat : g[n] = IF n = 0 THEN First.power ELSE Doubled(g[n - 1])
    <3> SUFFICES ASSUME NEW n \in Nat PROVE g[n] = IF n = 0 THEN First.power ELSE Doubled(g[n - 1])
      OBVIOUS
    <3>1. h[n] = IF n = 0 THEN First ELSE Deeper(h[n - 1])
      BY <1>1 DEF IsTower
    <3>2. \A r : Deeper(r).power = Doubled(r.power)
      BY DEF Deeper, Doubled
    <3>3. n = 0 \/ n - 1 \in Nat
      OBVIOUS
    <3> QED BY <3>1, <3>2, <3>3
  <2>2. g = [n \in Nat |-> g[n]]
    OBVIOUS
  <2> HIDE DEF g
  <2> QED BY <2>1, <2>2 DEF IsTwoTo
<1>3. TwoTo = CHOOSE f : IsTwoTo(f)
  BY DEF TwoTo, IsTwoTo, First, Doubled
<1>4. IsTwoTo(TwoTo)
  <2> HIDE DEF g
  <2> QED BY <1>2, <1>3
<1>5. First.power = 1
  BY DEF First
<1> QED BY <1>4, <1>5 DEF IsTwoTo

-----------------------------------------------------------------------------
(* The loop of decode, one turn at a time.                                 *)

Start(type) == [ok |-> TRUE, message |-> CreateBase(type)]

Turns(f, type, dec, w, n) ==
  f = [i \in 0..n |-> IF i = 0 THEN Start(type) ELSE Read(type, dec, f[i - 1], w[i])]

\* The states of the loop exist, for any wire and any number of turns.
LEMMA TurnsExist ==
  ASSUME NEW type, NEW dec, NEW w
  PROVE  \A n \in Nat : \E f : Turns(f, type, dec, w, n)
<1> DEFINE T == {n \in Nat : \E f : Turns(f, type, dec, w, n)}
           next(f, i) == Read(type, dec, f[i - 1], w[i])
<1>1. 0 \in T
  <2> DEFINE f == [i \in 0..0 |-> Start(type)]
  <2>1. Turns(f, type, dec, w, 0)
    BY DEF Turns
  <2> QED BY <2>1
<1>2. ASSUME NEW n \in Nat, n \in T PROVE n + 1 \in T
  <2>1. PICK f : Turns(f, type, dec, w, n)
    BY <1>2
  <2> DEFINE g == [i \in 0..(n + 1) |-> IF i = n + 1 THEN Read(type, dec, f[n], w[n + 1]) ELSE f[i]]
  <2>2. \A i \in 0..n : f[i] = IF i = 0 THEN Start(type) ELSE Read(type, dec, f[i - 1], w[i])
    BY <2>1 DEF Turns
  <2>3. \A i \in 0..(n + 1) : g[i] = IF i = 0 THEN Start(type) ELSE Read(type, dec, g[i - 1], w[i])
    <3> SUFFICES ASSUME NEW i \in 0..(n + 1)
                 PROVE  g[i] = IF i = 0 THEN Start(type) ELSE Read(type, dec, g[i - 1], w[i])
      OBVIOUS
    <3>1. i - 1 \in 0..(n + 1) \/ i = 0
      OBVIOUS
    <3>2. CASE i = n + 1
      BY <3>2
    <3>3. CASE i # n + 1
      BY <3>1, <3>3, <2>2
    <3> QED BY <3>2, <3>3
  <2>4. Turns(g, type, dec, w, n + 1)
    <3>1. g = [i \in 0..(n + 1) |-> g[i]]
      OBVIOUS
    <3> HIDE DEF g
    <3> QED BY <2>3, <3>1 DEF Turns
  <2> QED BY <2>4
<1> HIDE DEF T
<1>3. \A n \in Nat : n \in T
  BY <1>1, <1>2, NaturalsAreReached
<1> QED BY <1>3 DEF T

\* The loop goes the same way through wires that start the same.
LEMMA TurnsAgree ==
  ASSUME NEW type, NEW dec, NEW w, NEW x, NEW f, NEW g, NEW n \in Nat, NEW m \in Nat, n <= m,
         Turns(f, type, dec, w, n), Turns(g, type, dec, x, m), \A i \in 1..n : w[i] = x[i]
  PROVE  \A i \in 0..n : f[i] = g[i]
<1> DEFINE T == {i \in Nat : i <= n => f[i] = g[i]}
<1>1. 0 \in T
  BY DEF Turns
<1>2. ASSUME NEW i \in Nat, i \in T PROVE i + 1 \in T
  <2> SUFFICES ASSUME i + 1 <= n PROVE f[i + 1] = g[i + 1]
    OBVIOUS
  <2>1. i + 1 \in 0..n /\ i + 1 \in 0..m /\ i + 1 # 0 /\ i + 1 - 1 = i /\ i <= n
    OBVIOUS
  <2>2. f[i + 1] = Read(type, dec, f[i], w[i + 1])
    BY <2>1 DEF Turns
  <2>3. g[i + 1] = Read(type, dec, g[i], x[i + 1])
    BY <2>1 DEF Turns
  <2> QED BY <1>2, <2>1, <2>2, <2>3
<1> HIDE DEF T
<1>3. \A i \in Nat : i \in T
  BY <1>1, <1>2, NaturalsAreReached
<1> QED BY <1>3 DEF T

\* What ReadAll returns is the last state of the loop.
LEMMA ReadAllIs ==
  ASSUME NEW type, NEW dec, NEW w, NEW f, Len(w) \in Nat,
         Turns(f, type, dec, w, Len(w))
  PROVE  ReadAll(type, dec, w) = f[Len(w)]
<1> DEFINE g == CHOOSE g : Turns(g, type, dec, w, Len(w))
<1>1. ReadAll(type, dec, w) = g[Len(w)]
  BY DEF ReadAll, Turns, Start
<1>2. Turns(g, type, dec, w, Len(w))
  OBVIOUS
<1> HIDE DEF g
<1>3. \A i \in 0..Len(w) : g[i] = f[i]
  BY <1>2, TurnsAgree
<1> QED BY <1>1, <1>3

\* The loop over an empty wire leaves every field at its default.
LEMMA ReadNothing ==
  ASSUME NEW type, NEW dec
  PROVE  ReadAll(type, dec, <<>>) = Start(type)
<1>1. Len(<<>>) = 0
  OBVIOUS
<1>2. PICK f : Turns(f, type, dec, <<>>, 0)
  BY TurnsExist
<1>3. f[0] = Start(type)
  BY <1>2 DEF Turns
<1> QED BY <1>1, <1>2, <1>3, ReadAllIs

\* One field more on the wire is one turn more of the loop.
LEMMA ReadOneMore ==
  ASSUME NEW S, NEW type, NEW dec, NEW w \in Seq(S), NEW x \in S
  PROVE  ReadAll(type, dec, Append(w, x)) = Read(type, dec, ReadAll(type, dec, w), x)
<1> DEFINE n == Len(w)
           v == Append(w, x)
<1>1. n \in Nat /\ Len(v) = n + 1 /\ v[n + 1] = x /\ \A i \in 1..n : v[i] = w[i]
  OBVIOUS
<1> HIDE DEF n, v
<1>2. PICK f : Turns(f, type, dec, v, n + 1)
  <2>1. n + 1 \in Nat
    BY <1>1
  <2> QED BY <2>1, TurnsExist
<1>3. PICK g : Turns(g, type, dec, w, n)
  BY <1>1, TurnsExist
<1>4. g[n] = f[n]
  BY <1>1, <1>2, <1>3, TurnsAgree
<1>5. f[n + 1] = Read(type, dec, f[n], v[n + 1])
  BY <1>1, <1>2 DEF Turns
<1>6. ReadAll(type, dec, v) = f[n + 1]
  BY <1>1, <1>2, ReadAllIs
<1>7. ReadAll(type, dec, w) = g[n]
  BY <1>1, <1>3, ReadAllIs DEF n
<1> QED BY <1>1, <1>4, <1>5, <1>6, <1>7 DEF v

-----------------------------------------------------------------------------
(* The retries of a Job object.                                            *)

IsAfterCalls(f, meta) == f = [n \in Nat |-> IF n = 0 THEN meta ELSE AfterRetry(f[n - 1])]

\* The counter after n calls: it goes up from where it started by what was asked for.
Counted(retry, n) == retry.currentAttempt + (IF n < Asked(retry) THEN n ELSE Asked(retry))

\* What the metadata is after n calls.
CalledTimes(retry, n) == [form |-> "object", retry |-> [retry EXCEPT !.currentAttempt = Counted(retry, n)]]

\* What a sender may ask for: nothing, or one attempt at least, some of them made before.
CountedRetry ==
  {r \in RetryEntry : r = NoRetry \/ (r.defined /\ r.attempts >= 1 /\ r.currentAttempt >= 0)}

\* The powers of two are naturals, each twice the one before it.
LEMMA PowersOfTwo ==
  /\ TwoTo[0] = 1
  /\ \A n \in Nat : n # 0 => TwoTo[n] = 2 * TwoTo[n - 1]
  /\ \A n \in Nat : TwoTo[n] \in Nat
<1> DEFINE T == {n \in Nat : TwoTo[n] \in Nat}
<1>1. TwoTo[0] = 1 /\ \A n \in Nat : n # 0 => TwoTo[n] = 2 * TwoTo[n - 1]
  BY TwoToIs DEF Doubled
<1>2. 0 \in T
  BY <1>1
<1>3. ASSUME NEW n \in Nat, n \in T PROVE n + 1 \in T
  <2>1. n + 1 \in Nat /\ n + 1 # 0 /\ n + 1 - 1 = n
    OBVIOUS
  <2>2. TwoTo[n + 1] = 2 * TwoTo[n]
    BY <1>1, <2>1
  <2> QED BY <1>3, <2>1, <2>2
<1> HIDE DEF T
<1>4. \A n \in Nat : n \in T
  BY <1>2, <1>3, NaturalsAreReached
<1> QED BY <1>1, <1>4 DEF T

\* A call of retry is granted, and raises the counter, until that is at what was asked for.
LEMMA OneMoreCall ==
  ASSUME NEW r \in CountedRetry, NEW n \in Nat
  PROVE  /\ AfterRetry(CalledTimes(r, n)) = CalledTimes(r, n + 1)
         /\ RetryAllowed(CalledTimes(r, n)) <=> n < Asked(r)
<1>1. /\ r.attempts \in Int /\ r.defined \in BOOLEAN /\ Asked(r) \in Nat
      /\ r.currentAttempt \in Nat /\ (r.defined => r.attempts >= 1)
  BY DEF CountedRetry, RetryEntry, Asked, NoRetry
<1>2. CalledTimes(r, n).retry.currentAttempt = Counted(r, n)
  BY DEF CalledTimes, CountedRetry, RetryEntry
<1>3. /\ CalledTimes(r, n).retry.attempts = r.attempts
      /\ CalledTimes(r, n).retry.defined = r.defined
      /\ CalledTimes(r, n).form = "object"
  BY DEF CalledTimes, CountedRetry, RetryEntry
<1>4. RetryAllowed(CalledTimes(r, n)) <=> n < Asked(r)
  BY <1>1, <1>2, <1>3 DEF RetryAllowed, RetryField, Counted, Asked
<1>5. Counted(r, n + 1) = IF n < Asked(r) THEN Counted(r, n) + 1 ELSE Counted(r, n)
  BY <1>1 DEF Counted
<1>6. CalledTimes(r, n + 1) = [CalledTimes(r, n) EXCEPT !.retry.currentAttempt = Counted(r, n + 1)]
  <2> DEFINE x == [r EXCEPT !.currentAttempt = Counted(r, n)]
             b == Counted(r, n + 1)
  <2>1. [x EXCEPT !.currentAttempt = b] = [r EXCEPT !.currentAttempt = b]
    BY DEF CountedRetry, RetryEntry
  <2>2. CalledTimes(r, n) = [form |-> "object", retry |-> x]
    BY DEF CalledTimes
  <2>3. CalledTimes(r, n + 1) = [form |-> "object", retry |-> [r EXCEPT !.currentAttempt = b]]
    BY DEF CalledTimes
  <2> HIDE DEF x, b
  <2>4. [[form |-> "object", retry |-> x] EXCEPT !.retry.currentAttempt = b] =
          [form |-> "object", retry |-> [x EXCEPT !.currentAttempt = b]]
    OBVIOUS
  <2>5. [CalledTimes(r, n) EXCEPT !.retry.currentAttempt = b] = CalledTimes(r, n + 1)
    BY <2>1, <2>2, <2>3, <2>4
  <2> QED BY <2>5 DEF b
<1>7. AfterRetry(CalledTimes(r, n)) = CalledTimes(r, n + 1)
  <2>1. CASE n < Asked(r)
    <3>1. Counted(r, n) \in Nat /\ NextAttempt(Counted(r, n)) = Counted(r, n + 1)
      BY <1>1, <1>5, <2>1 DEF NextAttempt, Counted
    <3> QED BY <2>1, <3>1, <1>2, <1>4, <1>6 DEF AfterRetry, CalledTimes
  <2>2. CASE ~(n < Asked(r))
    BY <2>2, <1>2, <1>4, <1>5, <1>6 DEF AfterRetry, CalledTimes
  <2> QED BY <2>1, <2>2
<1> QED BY <1>4, <1>7

\* The metadata after n calls of retry.
LEMMA AfterCallsIs ==
  ASSUME NEW r \in CountedRetry
  PROVE  \A n \in Nat : AfterCalls(Metadata(r))[n] = CalledTimes(r, n)
<1> DEFINE g == [n \in Nat |-> CalledTimes(r, n)]
           f == AfterCalls(Metadata(r))
           T == {n \in Nat : f[n] = CalledTimes(r, n)}
<1>1. CalledTimes(r, 0) = Metadata(r)
  <2>1. Counted(r, 0) = r.currentAttempt
    BY DEF Counted, Asked, CountedRetry, RetryEntry, NoRetry
  <2> QED BY <2>1 DEF CalledTimes, Metadata, CountedRetry, RetryEntry
<1>2. IsAfterCalls(g, Metadata(r))
  <2>1. \A n \in Nat : g[n] = IF n = 0 THEN Metadata(r) ELSE AfterRetry(g[n - 1])
    <3> SUFFICES ASSUME NEW n \in Nat, n # 0 PROVE g[n] = AfterRetry(g[n - 1])
      BY <1>1
    <3>1. n - 1 \in Nat /\ n - 1 + 1 = n
      OBVIOUS
    <3>2. AfterRetry(CalledTimes(r, n - 1)) = CalledTimes(r, n)
      BY <3>1, OneMoreCall
    <3> QED BY <3>1, <3>2
  <2> HIDE DEF g
  <2>2. g = [n \in Nat |-> g[n]]
    BY DEF g
  <2> QED BY <2>1, <2>2 DEF IsAfterCalls
<1>3. IsAfterCalls(f, Metadata(r))
  <2>1. f = CHOOSE h : IsAfterCalls(h, Metadata(r))
    BY DEF AfterCalls, IsAfterCalls
  <2> HIDE DEF f, g
  <2> QED BY <1>2, <2>1
<1> HIDE DEF f
<1>4. 0 \in T
  BY <1>1, <1>3 DEF IsAfterCalls
<1>5. ASSUME NEW n \in Nat, n \in T PROVE n + 1 \in T
  <2>1. f[n + 1] = AfterRetry(f[n])
    BY <1>3 DEF IsAfterCalls
  <2> QED BY <1>5, <2>1, OneMoreCall
<1>6. \A n \in Nat : n \in T
  <2> HIDE DEF T
  <2> QED BY <1>4, <1>5, NaturalsAreReached
<1> QED BY <1>6 DEF f

\* A Job object whose metadata asks for one attempt or more, some of them made before or
\* none, grants the retries that are left and no more, with the delays asked for, however
\* often retry() is called.
THEOREM RetriesAreGranted == \A r \in CountedRetry : Grants(Metadata(r), r)
<1> SUFFICES ASSUME NEW r \in CountedRetry PROVE Grants(Metadata(r), r)
  OBVIOUS
<1> DEFINE f == AfterCalls(Metadata(r))
<1>1. Asked(r) \in Nat /\ r.currentAttempt \in Nat /\ r.delay \in Nat
  BY DEF CountedRetry, RetryEntry, Asked, NoRetry
<1>2. \A n \in Nat : f[n] = CalledTimes(r, n)
  BY AfterCallsIs
<1>3. ASSUME NEW n \in 0..Asked(r) + 2 PROVE RetryAllowed(f[n]) <=> n < Asked(r)
  BY <1>1, <1>2, OneMoreCall
<1> HIDE DEF f
<1>4. ASSUME NEW n \in 1..Asked(r)
      PROVE  /\ r.type = "fixed" => BackoffTime(f[n]) = r.delay
             /\ r.type # "fixed" => BackoffTime(f[n]) = r.delay * TwoTo[r.currentAttempt + n - 1]
  <2>1. n \in Nat /\ Counted(r, n) = r.currentAttempt + n /\ r.currentAttempt + n # 0
    BY <1>1 DEF Counted
  <2>2. /\ CalledTimes(r, n).retry.currentAttempt = r.currentAttempt + n
        /\ CalledTimes(r, n).retry.type = r.type
        /\ CalledTimes(r, n).retry.delay = r.delay
        /\ CalledTimes(r, n).form = "object"
    BY <2>1 DEF CalledTimes, CountedRetry, RetryEntry
  <2>3. PICK c \in Int : c = r.currentAttempt + n /\ c # 0
    BY <1>1, <2>1
  <2>4. BackoffTime(f[n]) = IF r.type = "fixed" THEN r.delay ELSE r.delay * TwoTo[c - 1]
    BY <1>2, <2>1, <2>2, <2>3 DEF BackoffTime, RetryField
  <2>5. c - 1 = r.currentAttempt + n - 1
    BY <1>1, <2>1, <2>3
  <2> QED BY <2>4, <2>5
<1>5. ASSUME NEW n \in 1..Asked(r)
      PROVE  BackoffTime(f[n]) =
               CASE r.type = "fixed"           -> r.delay
                 [] r.type # "fixed" /\ n = 1 -> r.delay * TwoTo[r.currentAttempt]
                 [] OTHER                      -> 2 * BackoffTime(f[n - 1])
  <2>1. CASE r.type = "fixed"
    BY <2>1, <1>4
  <2>2. CASE r.type # "fixed" /\ n = 1
    <3>1. r.currentAttempt + n - 1 = r.currentAttempt
      BY <2>2, <1>1
    <3>2. BackoffTime(f[n]) = r.delay * TwoTo[r.currentAttempt + n - 1]
      BY <2>2, <1>4
    <3> QED BY <2>2, <3>1, <3>2
  <2>3. CASE r.type # "fixed" /\ n # 1
    <3>1. n - 1 \in 1..Asked(r)
      BY <2>3, <1>1
    <3>2. PICK q \in Nat : q # 0 /\ q = r.currentAttempt + n - 1 /\ q - 1 \in Nat
                           /\ q - 1 = r.currentAttempt + (n - 1) - 1
      BY <2>3, <1>1
    <3>3. TwoTo[q] = 2 * TwoTo[q - 1] /\ TwoTo[q - 1] \in Nat
      BY <3>2, PowersOfTwo
    <3>4. BackoffTime(f[n]) = r.delay * TwoTo[q] /\ BackoffTime(f[n - 1]) = r.delay * TwoTo[q - 1]
      BY <2>3, <3>1, <3>2, <1>4
    <3>5. \A d, t \in Nat : d * (2 * t) = 2 * (d * t)
      OBVIOUS
    <3> QED BY <2>3, <3>3, <3>4, <3>5, <1>1
  <2> QED BY <2>1, <2>2, <2>3
<1> QED BY <1>3, <1>5 DEF f, Grants

-----------------------------------------------------------------------------
(* Values, level by level.                                                 *)

\* The first element of a value tells what it is.
LEMMA Tags ==
  /\ Undef[1] = "undefined" /\ Null[1] = "null" /\ Date[1] = "date" /\ Absent[1] = "absent"
  /\ \A v \in Scalars : v[1] \in {"boolean", "number", "string"}
  /\ \A S : \A v \in Objects(S) :
       v[1] = "object" /\ v[2] \in [Keys -> S \cup {Absent}] /\ v = Obj(v[2])
  /\ \A S : \A v \in Lists(S) : v[1] = "array" /\ v[2] \in Seq(S) /\ v = List(v[2])
BY DEF Undef, Null, Date, Absent, Scalars, Objects, Lists, Obj, List

\* A value of n levels is plain, or an object or an array of values of n - 1 levels.
LEMMA ValueCases ==
  ASSUME NEW n \in Nat, NEW v \in Values[n]
  PROVE  \/ v \in Scalars \cup {Undef, Null}
         \/ n # 0 /\ v \in {Date} \cup Objects(Values[n - 1]) \cup Lists(Values[n - 1])
<1>1. CASE n = 0
  BY <1>1, ValuesIs
<1>2. CASE n # 0
  BY <1>2, ValuesIs DEF DeeperValues
<1> QED BY <1>1, <1>2

\* Objects over more values are more objects.
LEMMA ObjectsGrow ==
  ASSUME NEW S, NEW T, S \subseteq T
  PROVE  Objects(S) \subseteq Objects(T)
BY DEF Objects

\* Arrays over more values are more arrays.
LEMMA ListsGrow ==
  ASSUME NEW S, NEW T, S \subseteq T
  PROVE  Lists(S) \subseteq Lists(T)
<1>1. Seq(S) \subseteq Seq(T)
  <2> SUFFICES ASSUME NEW s \in Seq(S) PROVE s \in Seq(T)
    OBVIOUS
  <2>1. Len(s) \in Nat /\ s = [i \in 1..Len(s) |-> s[i]] /\ \A i \in 1..Len(s) : s[i] \in T
    OBVIOUS
  <2> QED BY <2>1
<1> QED BY <1>1 DEF Lists

\* A level more has at least the values of the level.
LEMMA ValuesGrow == \A n \in Nat : Values[n] \subseteq Values[n + 1]
<1> DEFINE T == {n \in Nat : Values[n] \subseteq Values[n + 1]}
<1>1. \A n \in Nat : Values[n + 1] = DeeperValues(Values[n])
  <2> SUFFICES ASSUME NEW n \in Nat PROVE Values[n + 1] = DeeperValues(Values[n])
    OBVIOUS
  <2>1. n + 1 \in Nat /\ n + 1 # 0 /\ n + 1 - 1 = n
    OBVIOUS
  <2> QED BY <2>1, ValuesIs
<1>2. 0 \in T
  BY <1>1, ValuesIs DEF DeeperValues
<1>3. ASSUME NEW n \in Nat, n \in T PROVE n + 1 \in T
  <2>1. Values[n] \subseteq Values[n + 1]
    BY <1>3
  <2>2. DeeperValues(Values[n]) \subseteq DeeperValues(Values[n + 1])
    <3>1. Objects(Values[n]) \subseteq Objects(Values[n + 1])
      BY <2>1, ObjectsGrow
    <3>2. Lists(Values[n]) \subseteq Lists(Values[n + 1])
      BY <2>1, ListsGrow
    <3> QED BY <3>1, <3>2 DEF DeeperValues
  <2>3. n + 1 \in Nat
    OBVIOUS
  <2> QED BY <1>1, <2>2, <2>3
<1> HIDE DEF T
<1>4. \A n \in Nat : n \in T
  BY <1>2, <1>3, NaturalsAreReached
<1> QED BY <1>4 DEF T

\* A higher level has the values of every lower one.
LEMMA ValuesBelow ==
  ASSUME NEW n \in Nat, NEW m \in Nat, n <= m
  PROVE  Values[n] \subseteq Values[m]
<1> DEFINE T == {d \in Nat : Values[n] \subseteq Values[n + d]}
<1>1. 0 \in T
  OBVIOUS
<1>2. ASSUME NEW d \in Nat, d \in T PROVE d + 1 \in T
  <2>1. n + d \in Nat /\ n + d + 1 = n + (d + 1)
    OBVIOUS
  <2> QED BY <1>2, <2>1, ValuesGrow
<1> HIDE DEF T
<1>3. \A d \in Nat : d \in T
  BY <1>1, <1>2, NaturalsAreReached
<1>4. m - n \in Nat /\ n + (m - n) = m
  OBVIOUS
<1> QED BY <1>3, <1>4 DEF T

\* Wires around more wires are more wires.
LEMMA DeeperWiresGrow ==
  ASSUME NEW S, NEW T, S \subseteq T
  PROVE  DeeperWires(S) \subseteq DeeperWires(T)
<1> DEFINE A == TaggedFields(Scalars \cup ({"bytes"} \X S))
           B == TaggedFields(Scalars \cup ({"bytes"} \X T))
<1>1. A \subseteq B
  BY DEF TaggedFields
<1> HIDE DEF A, B
<1>2. Seq(A) \subseteq Seq(B)
  <2> SUFFICES ASSUME NEW s \in Seq(A) PROVE s \in Seq(B)
    OBVIOUS
  <2>1. Len(s) \in Nat /\ s = [i \in 1..Len(s) |-> s[i]] /\ \A i \in 1..Len(s) : s[i] \in B
    BY <1>1
  <2> QED BY <2>1
<1> QED BY <1>2 DEF DeeperWires, A, B

\* A level more has at least the wires of the level.
LEMMA WiresGrow == \A n \in Nat : Wires[n] \subseteq Wires[n + 1]
<1> DEFINE T == {n \in Nat : Wires[n] \subseteq Wires[n + 1]}
<1>1. \A n \in Nat : Wires[n + 1] = DeeperWires(Wires[n])
  <2> SUFFICES ASSUME NEW n \in Nat PROVE Wires[n + 1] = DeeperWires(Wires[n])
    OBVIOUS
  <2>1. n + 1 \in Nat /\ n + 1 # 0 /\ n + 1 - 1 = n
    OBVIOUS
  <2> QED BY <2>1, WiresIs
<1>2. 0 \in T
  <2>1. Wires[1] = DeeperWires(Wires[0])
    BY <1>1
  <2> DEFINE A == TaggedFields(Scalars)
             B == TaggedFields(Scalars \cup ({"bytes"} \X Wires[0]))
  <2>2. A \subseteq B
    BY DEF TaggedFields
  <2>3. Wires[0] = Seq(A) /\ Wires[1] = Seq(B)
    BY <2>1, WiresIs DEF DeeperWires
  <2> HIDE DEF A, B
  <2>4. Seq(A) \subseteq Seq(B)
    <3> SUFFICES ASSUME NEW s \in Seq(A) PROVE s \in Seq(B)
      OBVIOUS
    <3>1. Len(s) \in Nat /\ s = [i \in 1..Len(s) |-> s[i]] /\ \A i \in 1..Len(s) : s[i] \in B
      BY <2>2
    <3> QED BY <3>1
  <2> QED BY <2>3, <2>4
<1>3. ASSUME NEW n \in Nat, n \in T PROVE n + 1 \in T
  <2>1. Wires[n] \subseteq Wires[n + 1]
    BY <1>3
  <2>2. DeeperWires(Wires[n]) \subseteq DeeperWires(Wires[n + 1])
    BY <2>1, DeeperWiresGrow
  <2>3. n + 1 \in Nat
    OBVIOUS
  <2> QED BY <1>1, <2>2, <2>3
<1> HIDE DEF T
<1>4. \A n \in Nat : n \in T
  BY <1>2, <1>3, NaturalsAreReached
<1> QED BY <1>4 DEF T

\* A higher level has the wires of every lower one.
LEMMA WiresBelow ==
  ASSUME NEW n \in Nat, NEW m \in Nat, n <= m
  PROVE  Wires[n] \subseteq Wires[m]
<1> DEFINE T == {d \in Nat : Wires[n] \subseteq Wires[n + d]}
<1>1. 0 \in T
  OBVIOUS
<1>2. ASSUME NEW d \in Nat, d \in T PROVE d + 1 \in T
  <2>1. n + d \in Nat /\ n + d + 1 = n + (d + 1)
    OBVIOUS
  <2> QED BY <1>2, <2>1, WiresGrow
<1> HIDE DEF T
<1>3. \A d \in Nat : d \in T
  BY <1>1, <1>2, NaturalsAreReached
<1>4. m - n \in Nat /\ n + (m - n) = m
  OBVIOUS
<1> QED BY <1>3, <1>4 DEF T

-----------------------------------------------------------------------------
(* The greatest of a bounded set of numbers.                               *)

\* A bounded set of naturals that is not empty has a greatest element, and Max is it.
LEMMA GreatestOf ==
  ASSUME NEW S, S # {}, \A s \in S : s \in Nat, NEW b \in Nat, \A s \in S : s <= b
  PROVE  Max(S) \in S /\ \A s \in S : s <= Max(S)
<1> DEFINE Bounds == {n \in Nat : \A s \in S : s <= n}
           Below == OpToRel(<, Nat)
<1>1. PICK m \in Bounds : \A t \in Bounds : ~(<<t, m>> \in Below)
  <2>1. Bounds \in SUBSET Nat /\ b \in Bounds
    OBVIOUS
  <2> HIDE DEF Bounds
  <2> QED BY <2>1, NatLessThanWellFounded, WFMin
<1>2. m \in S
  <2> SUFFICES ASSUME m \notin S PROVE FALSE
    OBVIOUS
  <2>1. m # 0
    OBVIOUS
  <2>2. m - 1 \in Bounds
    BY <2>1
  <2>3. <<m - 1, m>> \in Below
    BY <2>1 DEF OpToRel
  <2> QED BY <1>1, <2>2, <2>3
<1>3. \E x \in S : \A y \in S : x >= y
  BY <1>2
<1>4. Max(S) \in S /\ \A y \in S : Max(S) >= y
  <2>1. Max(S) = CHOOSE x \in S : \A y \in S : x >= y
    BY DEF Max
  <2> QED BY <1>3, <2>1
<1> QED BY <1>4

-----------------------------------------------------------------------------
(* The sequences encode goes through.                                      *)

\* SetToSeq lists a finite set.
LEMMA SequenceOfSet ==
  ASSUME NEW S, IsFiniteSet(S)
  PROVE  /\ Len(SetToSeq(S)) \in Nat /\ SetToSeq(S) \in Seq(S)
         /\ DOMAIN SetToSeq(S) = 1..Len(SetToSeq(S))
         /\ S = {SetToSeq(S)[i] : i \in 1..Len(SetToSeq(S))}
<1> DEFINE n == Cardinality(S)
           s == SetToSeq(S)
<1>1. n \in Nat /\ ExistsBijection(1..n, S)
  BY FS_CardinalityType
<1>2. PICK b \in [1..n -> S] : IsInjective(b)
  BY <1>1 DEF ExistsBijection, Bijection, Injection
<1>3. s \in [1..n -> S] /\ IsInjective(s)
  BY <1>2 DEF SetToSeq
<1>4. IsFiniteSet(1..n) /\ Cardinality(1..n) = n
  BY <1>1, FS_Interval
<1>5. s \in Injection(1..n, S)
  BY <1>3 DEF Injection
<1>6. s \in Surjection(1..n, S)
  BY <1>4, <1>5, FS_Injection
<1>7. DOMAIN s = 1..n /\ Len(s) = n /\ s \in Seq(S)
  <2> HIDE DEF s, n
  <2> QED BY <1>1, <1>3
<1>8. S = {s[i] : i \in 1..n}
  <2> HIDE DEF s, n
  <2> QED BY <1>3, <1>6 DEF Surjection
<1> HIDE DEF s, n
<1>9. /\ Len(s) \in Nat /\ s \in Seq(S) /\ DOMAIN s = 1..Len(s)
      /\ S = {s[i] : i \in 1..Len(s)}
  BY <1>1, <1>7, <1>8
<1> QED BY <1>9 DEF s

\* h[i] is what FlattenSeq has put together of the first i parts of s.
FlattensUpTo(h, s, n) == h = [i \in 1..n |-> IF i = 1 THEN s[i] ELSE h[i - 1] \o s[i]]

\* The sequences joined one after the other exist, for every number of them.
LEMMA FlattenExists ==
  ASSUME NEW s
  PROVE  \A n \in Nat : \E h : FlattensUpTo(h, s, n)
<1> DEFINE T == {n \in Nat : \E h : FlattensUpTo(h, s, n)}
<1>1. 0 \in T
  <2> DEFINE h == [i \in 1..0 |-> s[i]]
  <2>1. FlattensUpTo(h, s, 0)
    BY DEF FlattensUpTo
  <2> QED BY <2>1
<1>2. ASSUME NEW n \in Nat, n \in T PROVE n + 1 \in T
  <2>1. PICK h : FlattensUpTo(h, s, n)
    BY <1>2
  <2> DEFINE g == [i \in 1..(n + 1) |-> IF i = n + 1 THEN IF i = 1 THEN s[i] ELSE h[n] \o s[i] ELSE h[i]]
  <2>2. \A i \in 1..n : h[i] = IF i = 1 THEN s[i] ELSE h[i - 1] \o s[i]
    BY <2>1 DEF FlattensUpTo
  <2>3. \A i \in 1..(n + 1) : g[i] = IF i = 1 THEN s[i] ELSE g[i - 1] \o s[i]
    <3> SUFFICES ASSUME NEW i \in 1..(n + 1)
                 PROVE  g[i] = IF i = 1 THEN s[i] ELSE g[i - 1] \o s[i]
      OBVIOUS
    <3>1. (i - 1 \in 1..(n + 1) /\ i - 1 # n + 1) \/ i = 1
      OBVIOUS
    <3>2. CASE i = n + 1
      BY <3>1, <3>2
    <3>3. CASE i # n + 1
      BY <3>1, <3>3, <2>2
    <3> QED BY <3>2, <3>3
  <2>4. FlattensUpTo(g, s, n + 1)
    <3>1. g = [i \in 1..(n + 1) |-> g[i]]
      OBVIOUS
    <3> HIDE DEF g
    <3> QED BY <2>3, <3>1 DEF FlattensUpTo
  <2> QED BY <2>4
<1> HIDE DEF T
<1>3. \A n \in Nat : n \in T
  BY <1>1, <1>2, NaturalsAreReached
<1> QED BY <1>3 DEF T

\* FlattenSeq joins its sequences from left to right.
LEMMA FlattenIs ==
  ASSUME NEW s, Len(s) \in Nat, Len(s) # 0
  PROVE  \E h : /\ FlattenSeq(s) = h[Len(s)]
                /\ h[1] = s[1]
                /\ \A i \in 2..Len(s) : h[i] = h[i - 1] \o s[i]
<1> DEFINE h == CHOOSE f : FlattensUpTo(f, s, Len(s))
<1>1. FlattenSeq(s) = h[Len(s)]
  BY DEF FlattenSeq, FlattensUpTo
<1>2. FlattensUpTo(h, s, Len(s))
  BY FlattenExists
<1> HIDE DEF h
<1>3. 1 \in 1..Len(s) /\ \A i \in 2..Len(s) : i \in 1..Len(s) /\ i # 1
  OBVIOUS
<1>4. h[1] = s[1] /\ \A i \in 2..Len(s) : h[i] = h[i - 1] \o s[i]
  <2>1. \A i \in 1..Len(s) : h[i] = IF i = 1 THEN s[i] ELSE h[i - 1] \o s[i]
    BY <1>2 DEF FlattensUpTo
  <2> QED BY <1>3, <2>1
<1> QED BY <1>1, <1>4

\* Joining one sequence gives that sequence.
LEMMA FlattenOne ==
  ASSUME NEW x
  PROVE  FlattenSeq(<<x>>) = x
<1>1. Len(<<x>>) = 1 /\ <<x>>[1] = x
  OBVIOUS
<1>2. PICK h : FlattenSeq(<<x>>) = h[Len(<<x>>)] /\ h[1] = <<x>>[1]
  <2> DEFINE s == <<x>>
  <2>1. Len(s) \in Nat /\ Len(s) # 0
    OBVIOUS
  <2> HIDE DEF s
  <2>2. \E h : FlattenSeq(s) = h[Len(s)] /\ h[1] = s[1]
    BY <2>1, FlattenIs
  <2> QED BY <2>2 DEF s
<1> QED BY <1>1, <1>2

-----------------------------------------------------------------------------
(* The schema.                                                             *)

Messages15 ==
  {"CreateQueueRequest", "PushRequest", "ListenQueueRequest", "DeleteQueueRequest",
   "ListenQueueStreamResponse", "JobDataResponse", "QueueConnectResponse",
   "SuccessBoolResponse", "HearthbeatRequest", "JobInfoRequest", "Empty", "Struct",
   "Struct_FieldsEntry", "Value", "ListValue"}

\* The schema has these messages and no others.
LEMMA TypesAre == Types = Messages15
BY DEF Types, Schema, Messages15

Place(type, name) == CHOOSE i \in DOMAIN Schema[type] : Schema[type][i].name = name

\* The fields of a message are numbered from 1, and no two have the same name.
LEMMA SchemaLengths ==
  ASSUME NEW type \in Types
  PROVE  /\ Len(Schema[type]) \in Nat /\ DOMAIN Schema[type] = 1..Len(Schema[type])
         /\ \A i, j \in DOMAIN Schema[type] :
              Schema[type][i].name = Schema[type][j].name => i = j
         /\ \A i \in DOMAIN Schema[type] : WireType(Schema[type][i].kind) \in 0..5
<1> USE DEF Schema, Field, Aliased, WireType
<1>1. CASE type = "CreateQueueRequest"
  BY <1>1 DEF CreateQueueRequest
<1>2. CASE type = "PushRequest"
  BY <1>2 DEF PushRequest
<1>3. CASE type = "ListenQueueRequest"
  BY <1>3 DEF ListenQueueRequest
<1>4. CASE type = "DeleteQueueRequest"
  BY <1>4 DEF DeleteQueueRequest
<1>5. CASE type = "ListenQueueStreamResponse"
  BY <1>5 DEF ListenQueueStreamResponse
<1>6. CASE type = "JobDataResponse"
  BY <1>6 DEF JobDataResponse
<1>7. CASE type = "QueueConnectResponse"
  BY <1>7 DEF QueueConnectResponse
<1>8. CASE type = "SuccessBoolResponse"
  BY <1>8 DEF SuccessBoolResponse
<1>9. CASE type = "HearthbeatRequest"
  BY <1>9 DEF HearthbeatRequest
<1>10. CASE type = "JobInfoRequest"
  BY <1>10 DEF JobInfoRequest
<1>11. CASE type = "Empty"
  BY <1>11 DEF Empty
<1>12. CASE type = "Struct"
  BY <1>12 DEF Struct
<1>13. CASE type = "Struct_FieldsEntry"
  BY <1>13 DEF Struct_FieldsEntry
<1>14. CASE type = "Value"
  BY <1>14 DEF Value
<1>15. CASE type = "ListValue"
  BY <1>15 DEF ListValue
<1> QED BY <1>1, <1>2, <1>3, <1>4, <1>5, <1>6, <1>7, <1>8, <1>9, <1>10, <1>11, <1>12,
           <1>13, <1>14, <1>15, TypesAre DEF Messages15

-----------------------------------------------------------------------------
(* A message whose fields occur once at most: encode writes those that are *)
(* not at their default, and decode reads each of them back.               *)

Singular(type) ==
  /\ type \in Types /\ DOMAIN Schema[type] # {}
  /\ \A i \in DOMAIN Schema[type] : Schema[type][i].rule \in {"implicit", "explicit"}

Tagged(i, f, v, enc) == [num |-> i, wt |-> WireType(f.kind), body |-> Body(f.kind, v, enc)]

ValueOf(type, m, i) == m[Schema[type][i].name]

\* The fields that are written.
Pieces(type, m, enc) ==
  {Tagged(i, Schema[type][i], ValueOf(type, m, i), enc) :
     i \in {j \in DOMAIN Schema[type] : ValueOf(type, m, j) # Default(Schema[type][j])}}

\* What is read back of a value: dec opens what enc closed.
Opened(kind, v, enc, dec) == dec[<<kind, enc[<<kind, v>>]>>]

FieldOk(f, v, enc, dec) ==
  v = Default(f) \/ f.kind \notin Types \/ Opened(f.kind, v, enc, dec).ok

FieldGot(f, v, enc, dec) ==
  IF v = Default(f) \/ f.kind \notin Types
  THEN v
  ELSE Unwrap(f.kind, Opened(f.kind, v, enc, dec).message)

\* What the loop of decode has while nothing failed.
Going(M) == [ok |-> TRUE, message |-> M]

\* The state of decode after the first i fields.
StateAfter(type, m, enc, dec, i) ==
  IF \A j \in 1..i : FieldOk(Schema[type][j], ValueOf(type, m, j), enc, dec)
  THEN Going([name \in FieldNames(type) |->
                IF Place(type, name) <= i
                THEN FieldGot(FieldNamed(type, name), m[name], enc, dec)
                ELSE Default(FieldNamed(type, name))])
  ELSE Failed(type)

\* A field is found by its name at its place.
LEMMA Places ==
  ASSUME NEW type \in Types
  PROVE  /\ \A i \in DOMAIN Schema[type] :
              /\ Schema[type][i].name \in FieldNames(type)
              /\ Place(type, Schema[type][i].name) = i
              /\ FieldNamed(type, Schema[type][i].name) = Schema[type][i]
         /\ \A name \in FieldNames(type) :
              /\ Place(type, name) \in DOMAIN Schema[type]
              /\ Schema[type][Place(type, name)].name = name
              /\ FieldNamed(type, name) = Schema[type][Place(type, name)]
<1>1. \A name \in FieldNames(type) :
        /\ Place(type, name) \in DOMAIN Schema[type]
        /\ Schema[type][Place(type, name)].name = name
  BY DEF FieldNames, Place
<1>2. \A name : FieldNamed(type, name) = Schema[type][Place(type, name)]
  BY DEF FieldNamed, Place
<1>3. \A i \in DOMAIN Schema[type] : Schema[type][i].name \in FieldNames(type)
  BY DEF FieldNames
<1>4. \A i \in DOMAIN Schema[type] : Place(type, Schema[type][i].name) = i
  BY <1>1, <1>3, SchemaLengths
<1> QED BY <1>1, <1>2, <1>3, <1>4

\* A field that is not repeated is written once, or not at all at its default.
LEMMA WrittenOnce ==
  ASSUME NEW i, NEW f, NEW v, NEW enc, f.rule \in {"implicit", "explicit"}
  PROVE  Written(i, f, v, enc) = IF v = Default(f) THEN <<>> ELSE <<Tagged(i, f, v, enc)>>
<1>1. Occurrences(f, v) = IF v = Default(f) THEN <<>> ELSE <<v>>
  BY DEF Occurrences
<1>2. CASE v = Default(f)
  BY <1>1, <1>2 DEF Written
<1>3. CASE v # Default(f)
  BY <1>1, <1>3 DEF Written, Tagged
<1> QED BY <1>2, <1>3

AfterField(type, M, f, v, enc, dec) ==
  IF FieldOk(f, v, enc, dec)
  THEN Going([M EXCEPT ![f.name] = FieldGot(f, v, enc, dec)])
  ELSE Failed(type)

\* The fields of the state in which the loop goes on.
LEMMA GoingOn ==
  /\ \A M, y : [Going(M) EXCEPT !.message = y] = Going(y)
  /\ \A M : Going(M).ok /\ Going(M).message = M
<1>1. ASSUME NEW M, NEW y, NEW b
      PROVE  [[ok |-> b, message |-> M] EXCEPT !.message = y] = [ok |-> b, message |-> y]
  BY SMT
<1>2. PICK b : b = TRUE
  OBVIOUS
<1>3. \A M : Going(M) = [ok |-> b, message |-> M]
  BY <1>2 DEF Going
<1>4. ASSUME NEW M, NEW y PROVE [Going(M) EXCEPT !.message = y] = Going(y)
  BY <1>1, <1>3
<1>5. ASSUME NEW M PROVE Going(M).ok /\ Going(M).message = M
  BY DEF Going
<1> QED BY <1>4, <1>5

IsWritten(type, i, v) ==
  /\ type \in Types /\ i \in DOMAIN Schema[type]
  /\ Schema[type][i].rule \in {"implicit", "explicit"} /\ v # Default(Schema[type][i])

\* A field that was written is taken by its case of the switch.
LEMMA ReadKnown ==
  ASSUME NEW type, NEW i, NEW v, IsWritten(type, i, v), NEW enc, NEW dec, NEW M
  PROVE  Read(type, dec, Going(M), Tagged(i, Schema[type][i], v, enc)) =
           AfterField(type, M, Schema[type][i], v, enc, dec)
<1> DEFINE f   == Schema[type][i]
           x   == Tagged(i, f, v, enc)
           acc == Going(M)
<1> USE DEF IsWritten
<1>1. x.num = i /\ x.wt = WireType(f.kind) /\ x.body = Body(f.kind, v, enc) /\ Schema[type][x.num] = f
  BY DEF Tagged
<1>2. Known(type, x)
  BY <1>1 DEF Known
<1>3. \A y : Store(f, M, y) = [M EXCEPT ![f.name] = y]
  BY DEF Store
<1>4. \A y : [acc EXCEPT !.message = y] = Going(y)
  BY GoingOn
<1>5. acc.ok /\ acc.message = M
  BY GoingOn
<1> HIDE DEF x, acc
<1>6. CASE f.kind \notin Types
  <2>1. x.body = v
    BY <1>1, <1>6 DEF Body
  <2>2. Read(type, dec, acc, x) = [acc EXCEPT !.message = Store(f, acc.message, v)]
    BY <1>1, <1>2, <1>5, <1>6, <2>1 DEF Read
  <2>3. FieldOk(f, v, enc, dec) /\ FieldGot(f, v, enc, dec) = v
    BY <1>6 DEF FieldOk, FieldGot
  <2> QED BY <1>3, <1>4, <1>5, <2>2, <2>3 DEF AfterField, x, acc
<1>7. CASE f.kind \in Types
  <2>1. x.body[2] = enc[<<f.kind, v>>]
    BY <1>1, <1>7 DEF Body, Bytes
  <2>2. Read(type, dec, acc, x) =
          IF Opened(f.kind, v, enc, dec).ok
          THEN [acc EXCEPT !.message = Store(f, acc.message,
                                             Unwrap(f.kind, Opened(f.kind, v, enc, dec).message))]
          ELSE Failed(type)
    BY <1>1, <1>2, <1>5, <1>7, <2>1 DEF Read, Opened
  <2>3. /\ FieldOk(f, v, enc, dec) <=> Opened(f.kind, v, enc, dec).ok
        /\ FieldGot(f, v, enc, dec) = Unwrap(f.kind, Opened(f.kind, v, enc, dec).message)
    BY <1>7 DEF FieldOk, FieldGot
  <2> QED BY <1>3, <1>4, <1>5, <2>2, <2>3 DEF AfterField, x, acc
<1> QED BY <1>6, <1>7

\* Once decode has failed it stays failed.
LEMMA ReadFailed ==
  ASSUME NEW type, NEW dec, NEW x
  PROVE  Read(type, dec, Failed(type), x) = Failed(type)
BY DEF Read, Failed

\* One field more is written, and one turn more reads it.
LEMMA SingularStep ==
  ASSUME NEW type, Singular(type), NEW m, NEW enc, NEW dec, NEW i \in DOMAIN Schema[type],
         NEW w \in Seq(Pieces(type, m, enc)),
         ReadAll(type, dec, w) = StateAfter(type, m, enc, dec, i - 1)
  PROVE  LET next == w \o Written(i, Schema[type][i], ValueOf(type, m, i), enc)
         IN  /\ next \in Seq(Pieces(type, m, enc))
             /\ ReadAll(type, dec, next) = StateAfter(type, m, enc, dec, i)
<1> DEFINE f == Schema[type][i]
           v == ValueOf(type, m, i)
           x == Tagged(i, f, v, enc)
           Got(name) == FieldGot(FieldNamed(type, name), m[name], enc, dec)
           M(k) == [name \in FieldNames(type) |-> IF Place(type, name) <= k THEN Got(name)
                                                  ELSE Default(FieldNamed(type, name))]
           Fine(k) == \A j \in 1..k : FieldOk(Schema[type][j], ValueOf(type, m, j), enc, dec)
<1>1. type \in Types /\ f.rule \in {"implicit", "explicit"} /\ i \in Nat /\ i >= 1
  BY SchemaLengths DEF Singular
<1>2. \A k : StateAfter(type, m, enc, dec, k) =
               IF Fine(k) THEN Going(M(k)) ELSE Failed(type)
  BY DEF StateAfter
<1>3. Fine(i) <=> Fine(i - 1) /\ FieldOk(f, v, enc, dec)
  <2>1. 1..i = (1..(i - 1)) \cup {i}
    BY <1>1
  <2> QED BY <2>1
<1>4. M(i) = [M(i - 1) EXCEPT ![f.name] = FieldGot(f, v, enc, dec)]
  <2>1. f.name \in FieldNames(type) /\ Place(type, f.name) = i /\ FieldNamed(type, f.name) = f
    BY <1>1, Places
  <2>2. Got(f.name) = FieldGot(f, v, enc, dec)
    BY <2>1 DEF ValueOf
  <2>3. \A name \in FieldNames(type) : /\ Place(type, name) \in Int
                                       /\ Place(type, name) = i => name = f.name
    <3>1. \A name \in FieldNames(type) :
            Place(type, name) \in DOMAIN Schema[type] /\ Schema[type][Place(type, name)].name = name
      BY <1>1, Places
    <3>2. \A j \in DOMAIN Schema[type] : j \in Int
      BY <1>1, SchemaLengths
    <3> QED BY <3>1, <3>2
  <2>4. \A name \in FieldNames(type) :
          name # f.name => (Place(type, name) <= i <=> Place(type, name) <= i - 1)
    BY <2>3, <1>1
  <2>5. i <= i
    BY <1>1
  <2> HIDE DEF Got
  <2>6. \A name \in FieldNames(type) :
          M(i)[name] = [M(i - 1) EXCEPT ![f.name] = FieldGot(f, v, enc, dec)][name]
    BY <2>1, <2>2, <2>4, <2>5
  <2> QED BY <2>6
<1> HIDE DEF f, v, M, Fine
<1>5. CASE v = Default(f)
  <2>1. Written(i, f, v, enc) = <<>>
    BY <1>1, <1>5, WrittenOnce
  <2>2. w \o <<>> = w
    OBVIOUS
  <2>3. FieldOk(f, v, enc, dec) /\ FieldGot(f, v, enc, dec) = v
    BY <1>5 DEF FieldOk, FieldGot
  <2>4. M(i) = M(i - 1)
    <3>1. f.name \in FieldNames(type) /\ M(i - 1)[f.name] = Default(f)
      <4>1. f.name \in FieldNames(type) /\ Place(type, f.name) = i /\ FieldNamed(type, f.name) = f
        BY <1>1, Places DEF f
      <4>2. ~(i <= i - 1)
        BY <1>1
      <4> QED BY <4>1, <4>2 DEF M
    <3>2. M(i - 1) = [name \in FieldNames(type) |-> M(i - 1)[name]]
      BY DEF M
    <3> QED BY <3>1, <3>2, <1>4, <1>5, <2>3
  <2>5. StateAfter(type, m, enc, dec, i) = StateAfter(type, m, enc, dec, i - 1)
    BY <1>2, <1>3, <2>3, <2>4
  <2> QED BY <2>1, <2>2, <2>5 DEF f, v
<1>6. CASE v # Default(f)
  <2>1. Written(i, f, v, enc) = <<x>>
    BY <1>1, <1>6, WrittenOnce
  <2>2. x \in Pieces(type, m, enc)
    BY <1>6 DEF Pieces, f, v
  <2> HIDE DEF x
  <2>3. w \o <<x>> = Append(w, x) /\ Append(w, x) \in Seq(Pieces(type, m, enc))
    BY <2>2
  <2>4. ReadAll(type, dec, Append(w, x)) = Read(type, dec, StateAfter(type, m, enc, dec, i - 1), x)
    BY <2>2, ReadOneMore
  <2>5. Read(type, dec, StateAfter(type, m, enc, dec, i - 1), x) = StateAfter(type, m, enc, dec, i)
    <3>1. CASE Fine(i - 1)
      <4>1. StateAfter(type, m, enc, dec, i - 1) = Going(M(i - 1))
        BY <3>1, <1>2
      <4>2. Read(type, dec, Going(M(i - 1)), x) = AfterField(type, M(i - 1), f, v, enc, dec)
        <5>1. ASSUME NEW K
              PROVE  Read(type, dec, Going(K), Tagged(i, f, v, enc)) =
                       AfterField(type, K, f, v, enc, dec)
          <6>1. IsWritten(type, i, v)
            BY <1>1, <1>6 DEF IsWritten, f
          <6> QED BY <6>1, ReadKnown DEF f
        <5> QED BY <5>1 DEF x
      <4> QED BY <3>1, <4>1, <4>2, <1>2, <1>3, <1>4 DEF AfterField
    <3>2. CASE ~Fine(i - 1)
      BY <3>2, <1>2, <1>3, ReadFailed
    <3> QED BY <3>1, <3>2
  <2> QED BY <2>1, <2>3, <2>4, <2>5 DEF f, v
<1> QED BY <1>5, <1>6

\* Reading the fields that were written, for a message without repeated fields.
LEMMA SingularRead ==
  ASSUME NEW type, Singular(type), NEW m, NEW enc, NEW dec
  PROVE  /\ Fields(type, m, enc) \in Seq(Pieces(type, m, enc))
         /\ ReadAll(type, dec, Fields(type, m, enc)) =
              StateAfter(type, m, enc, dec, Len(Schema[type]))
<1> DEFINE n == Len(Schema[type])
           s == [i \in DOMAIN Schema[type] |->
                   Written(i, Schema[type][i], m[Schema[type][i].name], enc)]
           P == Pieces(type, m, enc)
           Reached(i, h) == /\ h[i] \in Seq(P)
                            /\ ReadAll(type, dec, h[i]) = StateAfter(type, m, enc, dec, i)
<1>1. type \in Types /\ n \in Nat /\ n # 0 /\ DOMAIN Schema[type] = 1..n
  BY SchemaLengths DEF Singular
<1>2. Len(s) = n /\ \A i \in 1..n : s[i] = Written(i, Schema[type][i], ValueOf(type, m, i), enc)
  BY <1>1 DEF ValueOf
<1>3. PICK h : /\ FlattenSeq(s) = h[n]
               /\ h[1] = s[1]
               /\ \A i \in 2..n : h[i] = h[i - 1] \o s[i]
  <2> HIDE DEF s, n
  <2> QED BY <1>1, <1>2, FlattenIs
<1>4. Fields(type, m, enc) = h[n]
  BY <1>3 DEF Fields
<1> HIDE DEF s, n
<1>5. ReadAll(type, dec, <<>>) = StateAfter(type, m, enc, dec, 0)
  <2>1. \A name \in FieldNames(type) : ~(Place(type, name) <= 0)
    BY <1>1, Places
  <2>2. \A j \in 1..0 : FieldOk(Schema[type][j], ValueOf(type, m, j), enc, dec)
    OBVIOUS
  <2>3. StateAfter(type, m, enc, dec, 0) =
          Going([name \in FieldNames(type) |->
                   IF Place(type, name) <= 0
                   THEN FieldGot(FieldNamed(type, name), m[name], enc, dec)
                   ELSE Default(FieldNamed(type, name))])
    BY <2>2 DEF StateAfter
  <2>4. [name \in FieldNames(type) |-> IF Place(type, name) <= 0
                                       THEN FieldGot(FieldNamed(type, name), m[name], enc, dec)
                                       ELSE Default(FieldNamed(type, name))] = CreateBase(type)
    BY <2>1 DEF CreateBase
  <2>5. StateAfter(type, m, enc, dec, 0) = Start(type)
    BY <2>3, <2>4 DEF Start, Going
  <2> QED BY <2>5, ReadNothing
<1>6. \A i \in 1..n : \A w \in Seq(P) :
        ReadAll(type, dec, w) = StateAfter(type, m, enc, dec, i - 1) =>
          /\ w \o s[i] \in Seq(P)
          /\ ReadAll(type, dec, w \o s[i]) = StateAfter(type, m, enc, dec, i)
  <2> SUFFICES ASSUME NEW i \in 1..n, NEW w \in Seq(P),
                      ReadAll(type, dec, w) = StateAfter(type, m, enc, dec, i - 1)
               PROVE  /\ w \o s[i] \in Seq(P)
                      /\ ReadAll(type, dec, w \o s[i]) = StateAfter(type, m, enc, dec, i)
    OBVIOUS
  <2>1. i \in DOMAIN Schema[type] /\ s[i] = Written(i, Schema[type][i], ValueOf(type, m, i), enc)
    BY <1>1, <1>2
  <2>2. /\ w \o Written(i, Schema[type][i], ValueOf(type, m, i), enc) \in Seq(P)
        /\ ReadAll(type, dec, w \o Written(i, Schema[type][i], ValueOf(type, m, i), enc)) =
             StateAfter(type, m, enc, dec, i)
    BY <2>1, SingularStep
  <2> QED BY <2>1, <2>2
<1> HIDE DEF P
<1>7. Reached(1, h)
  <2>1. <<>> \in Seq(P) /\ 1 \in 1..n /\ 1 - 1 = 0
    BY <1>1
  <2>2. <<>> \o s[1] \in Seq(P) /\ ReadAll(type, dec, <<>> \o s[1]) = StateAfter(type, m, enc, dec, 1)
    BY <2>1, <1>5, <1>6
  <2>3. <<>> \o s[1] = s[1]
    <3>1. s[1] = <<>> \/ \E x : s[1] = <<x>>
      <4>1. 1 \in DOMAIN Schema[type] /\ Schema[type][1].rule \in {"implicit", "explicit"}
        BY <2>1, <1>1 DEF Singular
      <4> QED BY <2>1, <4>1, <1>2, WrittenOnce
    <3> QED BY <3>1
  <2> QED BY <2>2, <2>3, <1>3
<1> DEFINE T == {k \in Nat : k + 1 <= n => Reached(k + 1, h)}
<1>8. 0 \in T
  BY <1>7
<1>9. ASSUME NEW k \in Nat, k \in T PROVE k + 1 \in T
  <2> SUFFICES ASSUME k + 2 <= n PROVE Reached(k + 2, h)
    OBVIOUS
  <2>1. Reached(k + 1, h)
    BY <1>9, <1>1
  <2>2. k + 2 \in 2..n /\ k + 2 - 1 = k + 1 /\ k + 2 \in 1..n
    BY <1>1
  <2>3. h[k + 2] = h[k + 1] \o s[k + 2]
    <3>1. PICK j \in 2..n : j = k + 2
      BY <2>2
    <3>2. j - 1 = k + 1
      BY <3>1, <1>1
    <3>3. h[j] = h[j - 1] \o s[j]
      BY <1>3
    <3> QED BY <3>1, <3>2, <3>3
  <2> QED BY <2>1, <2>2, <2>3, <1>6
<1>10. \A k \in Nat : k \in T
  <2> HIDE DEF T
  <2> QED BY <1>8, <1>9, NaturalsAreReached
<1>11. n - 1 \in Nat /\ n - 1 + 1 = n /\ n <= n
  BY <1>1
<1>12. Reached(n, h)
  BY <1>10, <1>11
<1> QED BY <1>4, <1>12 DEF P, n

-----------------------------------------------------------------------------
(* The two messages with a repeated field: the entries of an object and    *)
(* the values of an array.                                                 *)

\* The schemas of Struct and ListValue, which have one field.
LEMMA OneField ==
  /\ DOMAIN Schema["Struct"] = {1} /\ DOMAIN Schema["ListValue"] = {1}
  /\ Schema["Struct"][1] = Field("fields", "Struct_FieldsEntry", "map")
  /\ Schema["ListValue"][1] = Field("values", "Value", "list")
  /\ "Struct" \in Types /\ "ListValue" \in Types
  /\ "Struct_FieldsEntry" \in Types /\ "Value" \in Types
<1>1. DOMAIN Schema["Struct"] = {1} /\ Schema["Struct"][1] = Field("fields", "Struct_FieldsEntry", "map")
  BY DEF Schema, Struct
<1>2. DOMAIN Schema["ListValue"] = {1} /\ Schema["ListValue"][1] = Field("values", "Value", "list")
  BY DEF Schema, ListValue
<1> QED BY <1>1, <1>2, TypesAre DEF Messages15

Holder(name, x) == [n \in {name} |-> x]

\* What Struct and ListValue start from.
LEMMA OneFieldBase ==
  /\ CreateBase("Struct") = Holder("fields", NoKeys)
  /\ CreateBase("ListValue") = Holder("values", <<>>)
<1>1. FieldNames("Struct") = {"fields"} /\ FieldNames("ListValue") = {"values"}
  BY OneField DEF FieldNames, Field
<1>2. FieldNamed("Struct", "fields") = Schema["Struct"][1]
  BY OneField, Places, <1>1 DEF Field
<1>3. FieldNamed("ListValue", "values") = Schema["ListValue"][1]
  BY OneField, Places, <1>1 DEF Field
<1>4. Default(FieldNamed("Struct", "fields")) = NoKeys
  <2> DEFINE f == FieldNamed("Struct", "fields")
  <2>1. f.rule = "map" /\ f.kind = "Struct_FieldsEntry"
    BY <1>2, OneField DEF Field
  <2> HIDE DEF f
  <2>2. Default(f) = NoKeys
    BY <2>1 DEF Default
  <2> QED BY <2>2 DEF f
<1>5. Default(FieldNamed("ListValue", "values")) = <<>>
  <2> DEFINE f == FieldNamed("ListValue", "values")
  <2>1. f.rule = "list" /\ f.kind = "Value"
    BY <1>3, OneField DEF Field
  <2> HIDE DEF f
  <2>2. Default(f) = <<>>
    BY <2>1 DEF Default
  <2> QED BY <2>2 DEF f
<1> QED BY <1>1, <1>4, <1>5 DEF CreateBase, Holder

\* Access to a message with one field.
LEMMA HolderFields ==
  /\ \A name, x : Holder(name, x)[name] = x
  /\ \A name, x, y : [Holder(name, x) EXCEPT ![name] = y] = Holder(name, y)
BY DEF Holder

\* The keys of an object in the order its entries are written.
Ordered(v) == SetToSeq(Kept(v))

EntryOf(v, k) == Msg([key |-> Str(k), value |-> v[k]])

Entry(v, k, enc) ==
  [num |-> 1, wt |-> 2, body |-> Bytes(enc[<<"Struct_FieldsEntry", EntryOf(v, k)>>])]

\* A Struct is written as one entry for each key that has a value.
LEMMA StructWritten ==
  ASSUME NEW m, NEW enc
  PROVE  Fields("Struct", m, enc) =
           [i \in DOMAIN Ordered(m.fields) |-> Entry(m.fields, Ordered(m.fields)[i], enc)]
<1> DEFINE f == Schema["Struct"][1]
           v == m.fields
           w == Written(1, f, v, enc)
<1>1. f = Field("fields", "Struct_FieldsEntry", "map") /\ DOMAIN Schema["Struct"] = {1}
  BY OneField
<1>2. [i \in DOMAIN Schema["Struct"] |->
         Written(i, Schema["Struct"][i], m[Schema["Struct"][i].name], enc)] = <<w>>
  <2> DEFINE s == [i \in {1} |-> Written(i, Schema["Struct"][i], m[Schema["Struct"][i].name], enc)]
  <2>1. s[1] = w
    BY <1>1 DEF Field
  <2>2. s = <<s[1]>>
    <3> DEFINE W(i) == Written(i, Schema["Struct"][i], m[Schema["Struct"][i].name], enc)
    <3> HIDE DEF W
    <3>1. [i \in {1} |-> W(i)] = <<W(1)>>
      OBVIOUS
    <3> QED BY <3>1 DEF W
  <2> QED BY <1>1, <2>1, <2>2
<1>3. Fields("Struct", m, enc) = w
  BY <1>2, FlattenOne DEF Fields
<1>4. Occurrences(f, v) = [i \in DOMAIN Ordered(v) |-> EntryOf(v, Ordered(v)[i])]
  BY <1>1 DEF Occurrences, Field, Ordered, Kept, EntryOf
<1>5. WireType(f.kind) = 2 /\ f.kind = "Struct_FieldsEntry" /\ f.kind \in Types
  BY <1>1, OneField DEF WireType, Field
<1> HIDE DEF v, f
<1>6. w = [i \in DOMAIN Ordered(v) |-> Entry(v, Ordered(v)[i], enc)]
  BY <1>4, <1>5 DEF Written, Entry, Body
<1> QED BY <1>3, <1>6 DEF v

StructAfter(v, got, enc, dec, i) ==
  IF \A j \in 1..i : Opened("Struct_FieldsEntry", EntryOf(v, Ordered(v)[j]), enc, dec).ok
  THEN Going(Holder("fields",
         [k \in Keys |-> IF \E j \in 1..i : k = Ordered(v)[j] THEN got[k] ELSE Absent]))
  ELSE Failed("Struct")

\* What decode of an entry has to give for each key that is written.
EntriesRead(v, got, enc, dec) ==
  \A k \in Kept(v) :
    Opened("Struct_FieldsEntry", EntryOf(v, k), enc, dec).ok =>
      /\ Opened("Struct_FieldsEntry", EntryOf(v, k), enc, dec).message.key[2] = k
      /\ Opened("Struct_FieldsEntry", EntryOf(v, k), enc, dec).message.value = got[k]
      /\ got[k] # Undef

\* An entry read sets its key and no other.
LEMMA EntryStep ==
  ASSUME NEW v, NEW got, NEW enc, NEW dec, EntriesRead(v, got, enc, dec), NEW k \in Kept(v),
         NEW F, DOMAIN F = Keys
  PROVE  Read("Struct", dec, Going(Holder("fields", F)), Entry(v, k, enc)) =
           IF Opened("Struct_FieldsEntry", EntryOf(v, k), enc, dec).ok
           THEN Going(Holder("fields", [F EXCEPT ![k] = got[k]]))
           ELSE Failed("Struct")
<1> DEFINE f == Schema["Struct"][1]
           x == Entry(v, k, enc)
           acc == Going(Holder("fields", F))
           inner == Opened("Struct_FieldsEntry", EntryOf(v, k), enc, dec)
<1>1. x.num = 1 /\ x.wt = 2 /\ x.body[2] = enc[<<"Struct_FieldsEntry", EntryOf(v, k)>>]
  BY DEF Entry, Bytes
<1>2. f.kind = "Struct_FieldsEntry" /\ f.rule = "map" /\ f.name = "fields" /\ f.kind \in Types
  BY OneField DEF Field
<1>3. Known("Struct", x)
  BY <1>1, <1>2, OneField DEF Known, WireType
<1>4. acc.ok /\ acc.message = Holder("fields", F) /\ \A y : [acc EXCEPT !.message = y] = Going(y)
  BY GoingOn
<1> HIDE DEF x, acc
<1>5. Read("Struct", dec, acc, x) =
        IF inner.ok
        THEN [acc EXCEPT !.message = Store(f, acc.message, Unwrap(f.kind, inner.message))]
        ELSE Failed("Struct")
  BY <1>1, <1>2, <1>3, <1>4 DEF Read, Opened
<1> HIDE DEF inner
<1>6. CASE ~inner.ok
  BY <1>5, <1>6 DEF acc, x, inner
<1>7. CASE inner.ok
  <2>1. inner.message.key[2] = k /\ inner.message.value = got[k] /\ got[k] # Undef
    BY <1>7 DEF EntriesRead, inner
  <2>2. Unwrap(f.kind, inner.message)[2] = inner.message
    BY <1>2 DEF Unwrap, Msg
  <2>3. Store(f, Holder("fields", F), Unwrap(f.kind, inner.message)) =
          [Holder("fields", F) EXCEPT !["fields"] = [Holder("fields", F)["fields"] EXCEPT ![k] = got[k]]]
    BY <1>2, <2>1, <2>2 DEF Store
  <2>4. Store(f, Holder("fields", F), Unwrap(f.kind, inner.message)) =
          Holder("fields", [F EXCEPT ![k] = got[k]])
    <3> DEFINE G == [F EXCEPT ![k] = got[k]]
    <3>1. Holder("fields", F)["fields"] = F
      BY HolderFields
    <3>2. [Holder("fields", F)["fields"] EXCEPT ![k] = got[k]] = G
      BY <3>1
    <3> HIDE DEF G
    <3>3. [Holder("fields", F) EXCEPT !["fields"] = G] = Holder("fields", G)
      BY HolderFields
    <3> QED BY <2>3, <3>2, <3>3 DEF G
  <2> QED BY <1>4, <1>5, <1>7, <2>4 DEF acc, x, inner
<1> QED BY <1>6, <1>7

\* A Struct is read when each of its entries is, and has a value for those keys only.
LEMMA StructRead ==
  ASSUME NEW v, NEW got, NEW enc, NEW dec, EntriesRead(v, got, enc, dec), IsFiniteSet(Kept(v))
  PROVE  ReadAll("Struct", dec, Fields("Struct", [fields |-> v], enc)) =
           IF \A k \in Kept(v) : Opened("Struct_FieldsEntry", EntryOf(v, k), enc, dec).ok
           THEN Going(Holder("fields", [k \in Keys |-> IF k \in Kept(v) THEN got[k] ELSE Absent]))
           ELSE Failed("Struct")
<1> DEFINE s == Ordered(v)
           n == Len(s)
           w == Fields("Struct", [fields |-> v], enc)
           Ok(k) == Opened("Struct_FieldsEntry", EntryOf(v, k), enc, dec).ok
           F(i) == [k \in Keys |-> IF \E j \in 1..i : k = s[j] THEN got[k] ELSE Absent]
           g == [i \in 0..n |-> StructAfter(v, got, enc, dec, i)]
<1>1. n \in Nat /\ DOMAIN s = 1..n /\ Kept(v) = {s[i] : i \in 1..n}
  BY SequenceOfSet DEF Ordered
<1>2. w = [i \in 1..n |-> Entry(v, s[i], enc)]
  BY <1>1, StructWritten
<1> HIDE DEF s, w
<1>3. Len(w) = n /\ \A i \in 1..n : w[i] = Entry(v, s[i], enc)
  BY <1>1, <1>2
<1> HIDE DEF n
<1>4. \A i : StructAfter(v, got, enc, dec, i) =
               IF \A j \in 1..i : Ok(s[j]) THEN Going(Holder("fields", F(i))) ELSE Failed("Struct")
  BY DEF StructAfter, s
<1>5. StructAfter(v, got, enc, dec, 0) = Start("Struct")
  <2>1. F(0) = NoKeys
    BY DEF NoKeys
  <2>2. StructAfter(v, got, enc, dec, 0) = Going(Holder("fields", F(0)))
    <3> HIDE DEF F, Ok
    <3> QED BY <1>4
  <2> QED BY <2>1, <2>2, OneFieldBase DEF Start, Going
<1>6. ASSUME NEW i \in 1..n
      PROVE  StructAfter(v, got, enc, dec, i) =
               Read("Struct", dec, StructAfter(v, got, enc, dec, i - 1), w[i])
  <2>1. s[i] \in Kept(v) /\ i \in Nat
    BY <1>1
  <2>2. (\A j \in 1..i : Ok(s[j])) <=> (\A j \in 1..(i - 1) : Ok(s[j])) /\ Ok(s[i])
    <3> HIDE DEF Ok
    <3>1. 1..i = (1..(i - 1)) \cup {i}
      BY <2>1
    <3> QED BY <3>1
  <2>3. F(i) = [F(i - 1) EXCEPT ![s[i]] = got[s[i]]]
    <3>1. 1..i = (1..(i - 1)) \cup {i}
      BY <2>1
    <3>2. s[i] \in Keys
      BY <2>1 DEF Kept
    <3> QED BY <3>1, <3>2
  <2>4. DOMAIN F(i - 1) = Keys
    OBVIOUS
  <2> HIDE DEF F
  <2>5. CASE \A j \in 1..(i - 1) : Ok(s[j])
    <3>1. Read("Struct", dec, Going(Holder("fields", F(i - 1))), Entry(v, s[i], enc)) =
            IF Ok(s[i])
            THEN Going(Holder("fields", [F(i - 1) EXCEPT ![s[i]] = got[s[i]]]))
            ELSE Failed("Struct")
      BY <2>1, <2>4, EntryStep
    <3> HIDE DEF Ok
    <3> QED BY <1>3, <1>4, <2>2, <2>3, <2>5, <3>1
  <2>6. CASE ~ \A j \in 1..(i - 1) : Ok(s[j])
    <3> HIDE DEF Ok
    <3>1. /\ StructAfter(v, got, enc, dec, i) = Failed("Struct")
          /\ StructAfter(v, got, enc, dec, i - 1) = Failed("Struct")
      BY <1>4, <2>2, <2>6
    <3> QED BY <3>1, ReadFailed
  <2> QED BY <2>5, <2>6
<1>7. Turns(g, "Struct", dec, w, n)
  <2>1. \A i \in 0..n : g[i] = IF i = 0 THEN Start("Struct") ELSE Read("Struct", dec, g[i - 1], w[i])
    <3> SUFFICES ASSUME NEW i \in 0..n
                 PROVE  g[i] = IF i = 0 THEN Start("Struct") ELSE Read("Struct", dec, g[i - 1], w[i])
      OBVIOUS
    <3>1. CASE i = 0
      BY <3>1, <1>1, <1>5
    <3>2. CASE i # 0
      <4>1. i \in 1..n /\ i - 1 \in 0..n
        BY <3>2, <1>1
      <4> QED BY <3>2, <4>1, <1>6
    <3> QED BY <3>1, <3>2
  <2>2. g = [i \in 0..n |-> g[i]]
    OBVIOUS
  <2> HIDE DEF g
  <2> QED BY <2>1, <2>2 DEF Turns
<1>8. ReadAll("Struct", dec, w) = StructAfter(v, got, enc, dec, n)
  <2>1. ReadAll("Struct", dec, w) = g[n]
    <3> HIDE DEF g
    <3> QED BY <1>1, <1>3, <1>7, ReadAllIs
  <2> QED BY <2>1, <1>1
<1>9. F(n) = [k \in Keys |-> IF k \in Kept(v) THEN got[k] ELSE Absent]
  BY <1>1
<1>10. (\A j \in 1..n : Ok(s[j])) <=> \A k \in Kept(v) : Ok(k)
  <2> HIDE DEF Ok
  <2> QED BY <1>1
<1> HIDE DEF F
<1> QED BY <1>4, <1>8, <1>9, <1>10 DEF w

Item(x, enc) == [num |-> 1, wt |-> 2, body |-> Bytes(enc[<<"Value", x>>])]

\* A ListValue is written as one item for each value, in their order.
LEMMA ListWritten ==
  ASSUME NEW s, NEW enc, DOMAIN s = 1..Len(s)
  PROVE  Fields("ListValue", [values |-> s], enc) = [i \in 1..Len(s) |-> Item(s[i], enc)]
<1> DEFINE f == Schema["ListValue"][1]
           m == [values |-> s]
           w == Written(1, f, s, enc)
<1>1. f = Field("values", "Value", "list") /\ DOMAIN Schema["ListValue"] = {1}
  BY OneField
<1>2. [i \in DOMAIN Schema["ListValue"] |->
         Written(i, Schema["ListValue"][i], m[Schema["ListValue"][i].name], enc)] = <<w>>
  <2> DEFINE W(i) == Written(i, Schema["ListValue"][i], m[Schema["ListValue"][i].name], enc)
  <2>1. W(1) = w
    <3>1. f.name = "values"
      BY <1>1 DEF Field
    <3> QED BY <3>1
  <2> HIDE DEF W
  <2>2. [i \in {1} |-> W(i)] = <<W(1)>>
    OBVIOUS
  <2>3. [i \in DOMAIN Schema["ListValue"] |-> W(i)] = <<w>>
    BY <1>1, <2>1, <2>2
  <2> QED BY <2>3 DEF W
<1>3. Fields("ListValue", m, enc) = w
  BY <1>2, FlattenOne DEF Fields
<1>4. Occurrences(f, s) = s
  BY <1>1 DEF Occurrences, Field
<1>5. WireType(f.kind) = 2 /\ f.kind = "Value" /\ f.kind \in Types
  BY <1>1, OneField DEF WireType, Field
<1> HIDE DEF f
<1>6. w = [i \in 1..Len(s) |-> Item(s[i], enc)]
  BY <1>4, <1>5 DEF Written, Item, Body
<1> QED BY <1>3, <1>6

ListAfter(s, enc, dec, i) ==
  IF \A j \in 1..i : Opened("Value", s[j], enc, dec).ok
  THEN Going(Holder("values", [j \in 1..i |-> ValueUnwrap(Opened("Value", s[j], enc, dec).message)]))
  ELSE Failed("ListValue")

\* An item read is appended.
LEMMA ItemStep ==
  ASSUME NEW x, NEW enc, NEW dec, NEW got
  PROVE  Read("ListValue", dec, Going(Holder("values", got)), Item(x, enc)) =
           IF Opened("Value", x, enc, dec).ok
           THEN Going(Holder("values", Append(got, ValueUnwrap(Opened("Value", x, enc, dec).message))))
           ELSE Failed("ListValue")
<1> DEFINE f == Schema["ListValue"][1]
           y == Item(x, enc)
           acc == Going(Holder("values", got))
           inner == Opened("Value", x, enc, dec)
           v == ValueUnwrap(inner.message)
<1>1. y.num = 1 /\ y.wt = 2 /\ y.body[2] = enc[<<"Value", x>>]
  BY DEF Item, Bytes
<1>2. f.kind = "Value" /\ f.rule = "list" /\ f.name = "values" /\ f.kind \in Types
  BY OneField DEF Field
<1>3. Known("ListValue", y)
  BY <1>1, <1>2, OneField DEF Known, WireType
<1>4. acc.ok /\ acc.message = Holder("values", got) /\ \A z : [acc EXCEPT !.message = z] = Going(z)
  BY GoingOn
<1> HIDE DEF y, acc
<1>5. Read("ListValue", dec, acc, y) =
        IF inner.ok
        THEN [acc EXCEPT !.message = Store(f, acc.message, Unwrap(f.kind, inner.message))]
        ELSE Failed("ListValue")
  BY <1>1, <1>2, <1>3, <1>4 DEF Read, Opened
<1> HIDE DEF inner
<1>6. CASE ~inner.ok
  BY <1>5, <1>6 DEF acc, y, inner
<1>7. CASE inner.ok
  <2>1. Unwrap(f.kind, inner.message) = v
    BY <1>2 DEF Unwrap
  <2> HIDE DEF v
  <2>2. Store(f, Holder("values", got), v) =
          [Holder("values", got) EXCEPT !["values"] = Append(Holder("values", got)["values"], v)]
    BY <1>2 DEF Store
  <2>3. Store(f, Holder("values", got), v) = Holder("values", Append(got, v))
    <3>1. Holder("values", got)["values"] = got
      BY HolderFields
    <3> DEFINE G == Append(got, v)
    <3>2. Append(Holder("values", got)["values"], v) = G
      BY <3>1
    <3> HIDE DEF G
    <3>3. [Holder("values", got) EXCEPT !["values"] = G] = Holder("values", G)
      BY HolderFields
    <3> QED BY <2>2, <3>2, <3>3 DEF G
  <2> QED BY <1>4, <1>5, <1>7, <2>1, <2>3 DEF acc, y, inner, v
<1> QED BY <1>6, <1>7

\* A ListValue is read when each of its items is, in their order.
LEMMA ListRead ==
  ASSUME NEW s, NEW enc, NEW dec, DOMAIN s = 1..Len(s), Len(s) \in Nat
  PROVE  ReadAll("ListValue", dec, Fields("ListValue", [values |-> s], enc)) =
           IF \A i \in 1..Len(s) : Opened("Value", s[i], enc, dec).ok
           THEN Going(Holder("values", [i \in 1..Len(s) |->
                                          ValueUnwrap(Opened("Value", s[i], enc, dec).message)]))
           ELSE Failed("ListValue")
<1> DEFINE n == Len(s)
           w == Fields("ListValue", [values |-> s], enc)
           Ok(x) == Opened("Value", x, enc, dec).ok
           V(x) == ValueUnwrap(Opened("Value", x, enc, dec).message)
           F(i) == [j \in 1..i |-> V(s[j])]
           g == [i \in 0..n |-> ListAfter(s, enc, dec, i)]
<1>1. w = [i \in 1..n |-> Item(s[i], enc)]
  BY ListWritten
<1> HIDE DEF w
<1>2. Len(w) = n /\ \A i \in 1..n : w[i] = Item(s[i], enc)
  BY <1>1
<1> HIDE DEF n
<1>3. n \in Nat
  BY DEF n
<1>4. \A i : ListAfter(s, enc, dec, i) =
               IF \A j \in 1..i : Ok(s[j]) THEN Going(Holder("values", F(i))) ELSE Failed("ListValue")
  BY DEF ListAfter
<1>5. ListAfter(s, enc, dec, 0) = Start("ListValue")
  <2>1. F(0) = <<>>
    OBVIOUS
  <2>2. ListAfter(s, enc, dec, 0) = Going(Holder("values", F(0)))
    <3> HIDE DEF F, Ok
    <3> QED BY <1>4
  <2> QED BY <2>1, <2>2, OneFieldBase DEF Start, Going
<1>6. ASSUME NEW i \in 1..n
      PROVE  ListAfter(s, enc, dec, i) =
               Read("ListValue", dec, ListAfter(s, enc, dec, i - 1), w[i])
  <2>1. i \in Nat /\ i - 1 \in Nat /\ i - 1 + 1 = i
    BY <1>3
  <2>2. (\A j \in 1..i : Ok(s[j])) <=> (\A j \in 1..(i - 1) : Ok(s[j])) /\ Ok(s[i])
    <3> HIDE DEF Ok
    <3>1. 1..i = (1..(i - 1)) \cup {i}
      BY <2>1
    <3> QED BY <3>1
  <2>3. F(i) = Append(F(i - 1), V(s[i]))
    <3> HIDE DEF V
    <3> QED BY <2>1
  <2> HIDE DEF F
  <2>5. CASE \A j \in 1..(i - 1) : Ok(s[j])
    <3>1. Read("ListValue", dec, Going(Holder("values", F(i - 1))), Item(s[i], enc)) =
            IF Ok(s[i])
            THEN Going(Holder("values", Append(F(i - 1), V(s[i]))))
            ELSE Failed("ListValue")
      BY ItemStep
    <3> HIDE DEF Ok, V
    <3> QED BY <1>2, <1>4, <2>2, <2>3, <2>5, <3>1
  <2>6. CASE ~ \A j \in 1..(i - 1) : Ok(s[j])
    <3> HIDE DEF Ok, V
    <3>1. /\ ListAfter(s, enc, dec, i) = Failed("ListValue")
          /\ ListAfter(s, enc, dec, i - 1) = Failed("ListValue")
      BY <1>4, <2>2, <2>6
    <3> QED BY <3>1, ReadFailed
  <2> QED BY <2>5, <2>6
<1>7. Turns(g, "ListValue", dec, w, n)
  <2>1. \A i \in 0..n : g[i] = IF i = 0 THEN Start("ListValue") ELSE Read("ListValue", dec, g[i - 1], w[i])
    <3> SUFFICES ASSUME NEW i \in 0..n
                 PROVE  g[i] = IF i = 0 THEN Start("ListValue") ELSE Read("ListValue", dec, g[i - 1], w[i])
      OBVIOUS
    <3>1. CASE i = 0
      BY <3>1, <1>3, <1>5
    <3>2. CASE i # 0
      <4>1. i \in 1..n /\ i - 1 \in 0..n
        BY <3>2, <1>3
      <4> QED BY <3>2, <4>1, <1>6
    <3> QED BY <3>1, <3>2
  <2>2. g = [i \in 0..n |-> g[i]]
    OBVIOUS
  <2> HIDE DEF g
  <2> QED BY <2>1, <2>2 DEF Turns
<1>8. ReadAll("ListValue", dec, w) = ListAfter(s, enc, dec, n)
  <2>1. ReadAll("ListValue", dec, w) = g[n]
    <3> HIDE DEF g
    <3> QED BY <1>2, <1>3, <1>7, ReadAllIs
  <2> QED BY <2>1, <1>3
<1> HIDE DEF F
<1>9. ReadAll("ListValue", dec, w) =
        IF \A j \in 1..n : Ok(s[j]) THEN Going(Holder("values", F(n))) ELSE Failed("ListValue")
  BY <1>4, <1>8
<1> QED BY <1>9 DEF w, n, F

-----------------------------------------------------------------------------
(* The message Value, in which one field is set.                           *)

ValueNames ==
  {"nullValue", "numberValue", "stringValue", "boolValue", "structValue", "listValue"}

ValueKind(name) ==
  CASE name = "nullValue"   -> "enum"
    [] name = "numberValue" -> "double"
    [] name = "stringValue" -> "string"
    [] name = "boolValue"   -> "bool"
    [] name = "structValue" -> "Struct"
    [] OTHER                -> "ListValue"

\* A Value with one field set.
Only(name, x) == [n \in ValueNames |-> IF n = name THEN x ELSE Undef]

\* The schema of Value: six fields, unset at first.
LEMMA ValueSchema ==
  /\ "Value" \in Types /\ Singular("Value") /\ FieldNames("Value") = ValueNames
  /\ CreateBase("Value") = [n \in ValueNames |-> Undef]
  /\ \A n \in ValueNames : /\ FieldNamed("Value", n).rule = "explicit"
                           /\ FieldNamed("Value", n).kind = ValueKind(n)
                           /\ Default(FieldNamed("Value", n)) = Undef
<1>1. "Value" \in Types
  BY TypesAre DEF Messages15
<1> DEFINE S == Schema["Value"]
<1>2. /\ DOMAIN S = 1..6
      /\ \A i \in 1..6 : S[i].rule = "explicit" /\ S[i].kind = ValueKind(S[i].name)
                         /\ S[i].name \in ValueNames
  BY DEF Schema, Value, Field, Aliased, ValueKind, ValueNames
<1>3. ValueNames \subseteq {S[i].name : i \in 1..6}
  BY DEF Schema, Value, Field, Aliased, ValueNames
<1> HIDE DEF S
<1>4. FieldNames("Value") = ValueNames
  BY <1>2, <1>3 DEF FieldNames, S
<1>5. Singular("Value")
  BY <1>1, <1>2 DEF Singular, S
<1>6. \A n \in ValueNames : FieldNamed("Value", n).rule = "explicit"
                            /\ FieldNamed("Value", n).kind = ValueKind(n)
  <2> SUFFICES ASSUME NEW n \in ValueNames
               PROVE  FieldNamed("Value", n).rule = "explicit" /\ FieldNamed("Value", n).kind = ValueKind(n)
    OBVIOUS
  <2>1. PICK i \in 1..6 : n = S[i].name
    BY <1>3
  <2>2. FieldNamed("Value", n) = S[i]
    BY <1>1, <1>2, <2>1, Places DEF S
  <2> QED BY <1>2, <2>1, <2>2
<1>7. \A n \in ValueNames : Default(FieldNamed("Value", n)) = Undef
  <2> SUFFICES ASSUME NEW n \in ValueNames PROVE Default(FieldNamed("Value", n)) = Undef
    OBVIOUS
  <2> DEFINE f == FieldNamed("Value", n)
  <2>1. f.rule = "explicit"
    BY <1>6
  <2> HIDE DEF f
  <2>2. Default(f) = Undef
    BY <2>1 DEF Default
  <2> QED BY <2>2 DEF f
<1>8. CreateBase("Value") = [n \in ValueNames |-> Undef]
  BY <1>4, <1>7 DEF CreateBase
<1> QED BY <1>1, <1>4, <1>5, <1>6, <1>7, <1>8

\* wrap sets one field of a Value, or none for undefined.
LEMMA WrapOne ==
  /\ ValueWrap(Undef) = [n \in ValueNames |-> Undef]
  /\ ValueWrap(Null) = Only("nullValue", Num(0))
  /\ \A v : v \notin {Undef, Null} => ValueWrap(v) = Only(ValueField(v), v)
<1>1. ValueField(Null) = "nullValue" /\ Null # Undef
  BY DEF ValueField, Type, Null, Undef
<1>2. ASSUME NEW x, NEW name
      PROVE  [[n \in ValueNames |-> Undef] EXCEPT ![name] = x] = Only(name, x)
  BY DEF Only
<1>3. ValueWrap(Null) = Only("nullValue", Num(0))
  BY <1>1, <1>2, ValueSchema DEF ValueWrap
<1>4. ASSUME NEW v, v \notin {Undef, Null} PROVE ValueWrap(v) = Only(ValueField(v), v)
  BY <1>2, <1>4, ValueSchema DEF ValueWrap
<1>5. ValueWrap(Undef) = [n \in ValueNames |-> Undef]
  BY ValueSchema DEF ValueWrap
<1> QED BY <1>3, <1>4, <1>5

\* unwrap gives back the field that is set.
LEMMA UnwrapOne ==
  /\ ValueUnwrap([n \in ValueNames |-> Undef]) = Undef
  /\ \A x : x # Undef => ValueUnwrap(Only("nullValue", x)) = Null
  /\ \A name \in ValueNames : \A x :
       x # Undef /\ name # "nullValue" => ValueUnwrap(Only(name, x)) = x
<1>1. ASSUME NEW f, f = [n \in ValueNames |-> Undef] PROVE ValueUnwrap(f) = Undef
  <2>1. /\ f.stringValue = Undef /\ f.numberValue = Undef /\ f.boolValue = Undef
        /\ f.structValue = Undef /\ f.listValue = Undef /\ f.nullValue = Undef
    BY <1>1 DEF ValueNames
  <2> QED BY <2>1 DEF ValueUnwrap
<1>2. ASSUME NEW x, x # Undef, NEW f, f = Only("nullValue", x) PROVE ValueUnwrap(f) = Null
  <2>1. /\ f.stringValue = Undef /\ f.numberValue = Undef /\ f.boolValue = Undef
        /\ f.structValue = Undef /\ f.listValue = Undef /\ f.nullValue = x
    BY <1>2 DEF ValueNames, Only
  <2> QED BY <1>2, <2>1 DEF ValueUnwrap
<1>3. ASSUME NEW name \in ValueNames, NEW x, x # Undef, name # "nullValue", NEW f, f = Only(name, x)
      PROVE  ValueUnwrap(f) = x
  <2>1. \A n \in ValueNames : f[n] = IF n = name THEN x ELSE Undef
    BY <1>3 DEF Only
  <2>2. /\ f.stringValue = IF "stringValue" = name THEN x ELSE Undef
        /\ f.numberValue = IF "numberValue" = name THEN x ELSE Undef
        /\ f.boolValue = IF "boolValue" = name THEN x ELSE Undef
        /\ f.structValue = IF "structValue" = name THEN x ELSE Undef
        /\ f.listValue = IF "listValue" = name THEN x ELSE Undef
    BY <2>1 DEF ValueNames
  <2>3. CASE name = "stringValue"
    BY <1>3, <2>2, <2>3 DEF ValueUnwrap
  <2>4. CASE name = "numberValue"
    BY <1>3, <2>2, <2>4 DEF ValueUnwrap
  <2>5. CASE name = "boolValue"
    BY <1>3, <2>2, <2>5 DEF ValueUnwrap
  <2>6. CASE name = "structValue"
    BY <1>3, <2>2, <2>6 DEF ValueUnwrap
  <2>7. CASE name = "listValue"
    BY <1>3, <2>2, <2>7 DEF ValueUnwrap
  <2> QED BY <1>3, <2>3, <2>4, <2>5, <2>6, <2>7 DEF ValueNames
<1> QED BY <1>1, <1>2, <1>3

\* A Value with no field set is read as one.
LEMMA ReadUnset ==
  ASSUME NEW enc, NEW dec
  PROVE  ReadAll("Value", dec, Fields("Value", [n \in ValueNames |-> Undef], enc)) =
           Going([n \in ValueNames |-> Undef])
<1> DEFINE m == [n \in ValueNames |-> Undef]
           L == Len(Schema["Value"])
<1>1. \A j \in 1..L : FieldOk(Schema["Value"][j], ValueOf("Value", m, j), enc, dec)
  <2> SUFFICES ASSUME NEW j \in 1..L
               PROVE  FieldOk(Schema["Value"][j], ValueOf("Value", m, j), enc, dec)
    OBVIOUS
  <2>1. /\ Schema["Value"][j].name \in FieldNames("Value")
        /\ FieldNamed("Value", Schema["Value"][j].name) = Schema["Value"][j]
    BY ValueSchema, Places, SchemaLengths
  <2>2. ValueOf("Value", m, j) = Undef /\ Default(Schema["Value"][j]) = Undef
    BY <2>1, ValueSchema DEF ValueOf
  <2> QED BY <2>2 DEF FieldOk
<1>2. [name \in FieldNames("Value") |->
         IF Place("Value", name) <= L
         THEN FieldGot(FieldNamed("Value", name), m[name], enc, dec)
         ELSE Default(FieldNamed("Value", name))] = m
  <2>1. \A name \in ValueNames : FieldGot(FieldNamed("Value", name), m[name], enc, dec) = Undef
    BY ValueSchema DEF FieldGot
  <2>2. \A name \in ValueNames : Default(FieldNamed("Value", name)) = Undef
    BY ValueSchema
  <2>3. FieldNames("Value") = ValueNames
    BY ValueSchema
  <2> HIDE DEF L
  <2> QED BY <2>1, <2>2, <2>3
<1>3. StateAfter("Value", m, enc, dec, L) = Going(m)
  <2> HIDE DEF L, m
  <2> QED BY <1>1, <1>2 DEF StateAfter
<1> HIDE DEF m
<1>4. ReadAll("Value", dec, Fields("Value", m, enc)) = Going(m)
  BY <1>3, ValueSchema, SingularRead
<1> QED BY <1>4 DEF m

\* A Value with one field set is read with that field, if what the field holds can be read.
LEMMA ReadSet ==
  ASSUME NEW enc, NEW dec, NEW name \in ValueNames, NEW x, x # Undef
  PROVE  ReadAll("Value", dec, Fields("Value", Only(name, x), enc)) =
           IF FieldOk(FieldNamed("Value", name), x, enc, dec)
           THEN Going(Only(name, FieldGot(FieldNamed("Value", name), x, enc, dec)))
           ELSE Failed("Value")
<1> DEFINE m == Only(name, x)
           L == Len(Schema["Value"])
           f == FieldNamed("Value", name)
<1>1. \A n \in ValueNames : m[n] = IF n = name THEN x ELSE Undef
  BY DEF Only
<1> HIDE DEF m
<1>2. (\A j \in 1..L : FieldOk(Schema["Value"][j], ValueOf("Value", m, j), enc, dec)) <=>
        FieldOk(f, x, enc, dec)
  <2>1. /\ Place("Value", name) \in 1..L /\ Schema["Value"][Place("Value", name)] = f
        /\ f.name = name
    BY ValueSchema, Places, SchemaLengths
  <2>2. ValueOf("Value", m, Place("Value", name)) = x
    BY <2>1, <1>1 DEF ValueOf
  <2>3. ASSUME NEW j \in 1..L, j # Place("Value", name)
        PROVE  FieldOk(Schema["Value"][j], ValueOf("Value", m, j), enc, dec)
    <3>1. /\ Schema["Value"][j].name \in FieldNames("Value")
          /\ FieldNamed("Value", Schema["Value"][j].name) = Schema["Value"][j]
          /\ Schema["Value"][j].name # name
      BY <2>3, ValueSchema, Places, SchemaLengths
    <3>2. ValueOf("Value", m, j) = Undef /\ Default(Schema["Value"][j]) = Undef
      BY <3>1, <1>1, ValueSchema DEF ValueOf
    <3> QED BY <3>2 DEF FieldOk
  <2> HIDE DEF f, L
  <2> QED BY <2>1, <2>2, <2>3
<1>3. [n \in FieldNames("Value") |->
         IF Place("Value", n) <= L
         THEN FieldGot(FieldNamed("Value", n), m[n], enc, dec)
         ELSE Default(FieldNamed("Value", n))] = Only(name, FieldGot(f, x, enc, dec))
  <2>1. \A n \in ValueNames : FieldGot(FieldNamed("Value", n), m[n], enc, dec) =
                                IF n = name THEN FieldGot(f, x, enc, dec) ELSE Undef
    <3> SUFFICES ASSUME NEW n \in ValueNames
                 PROVE  FieldGot(FieldNamed("Value", n), m[n], enc, dec) =
                          IF n = name THEN FieldGot(f, x, enc, dec) ELSE Undef
      OBVIOUS
    <3>1. CASE n = name
      BY <3>1, <1>1
    <3>2. CASE n # name
      <4>1. m[n] = Undef /\ Default(FieldNamed("Value", n)) = Undef
        BY <3>2, <1>1, ValueSchema
      <4> QED BY <3>2, <4>1 DEF FieldGot
    <3> QED BY <3>1, <3>2
  <2>2. \A n \in ValueNames : Place("Value", n) <= L
    <3>1. \A n \in ValueNames : Place("Value", n) \in 1..L /\ L \in Nat
      BY ValueSchema, Places, SchemaLengths
    <3> QED BY <3>1
  <2>3. FieldNames("Value") = ValueNames
    BY ValueSchema
  <2> HIDE DEF L, f
  <2> QED BY <2>1, <2>2, <2>3 DEF Only
<1>4. StateAfter("Value", m, enc, dec, L) =
        IF FieldOk(f, x, enc, dec) THEN Going(Only(name, FieldGot(f, x, enc, dec))) ELSE Failed("Value")
  <2> HIDE DEF L, f
  <2> QED BY <1>2, <1>3 DEF StateAfter
<1>5. ReadAll("Value", dec, Fields("Value", m, enc)) = StateAfter("Value", m, enc, dec, L)
  BY ValueSchema, SingularRead
<1> QED BY <1>4, <1>5 DEF m

-----------------------------------------------------------------------------
(* One level of each of the functions that go through the nesting.         *)

\* One level of EncodeAt, at a message.
LEMMA EncodeStep ==
  ASSUME NEW type \in Types, NEW v \in Held, NEW n \in Nat, n # 0
  PROVE  EncodeAt[n][<<type, v>>] = Fields(type, Wrap(type, v), EncodeAt[n - 1])
<1>1. EncodeAt[n] = DeeperEncode(EncodeAt[n - 1])
  BY EncodeAtIs
<1>2. <<type, v>> \in Types \X Held
  OBVIOUS
<1> QED BY <1>1, <1>2 DEF DeeperEncode

\* One level of DecodeAt, at a message.
LEMMA DecodeStep ==
  ASSUME NEW type \in Types, NEW w \in Wires[Levels], NEW n \in Nat
  PROVE  /\ n = 0 => DecodeAt[n][<<type, w>>] = Failed(type)
         /\ n # 0 => DecodeAt[n][<<type, w>>] = ReadAll(type, DecodeAt[n - 1], w)
<1>1. <<type, w>> \in Types \X Wires[Levels]
  OBVIOUS
<1>2. CASE n = 0
  BY <1>1, <1>2, DecodeAtIs
<1>3. CASE n # 0
  <2>1. DecodeAt[n] = DeeperDecode(DecodeAt[n - 1])
    BY <1>3, DecodeAtIs
  <2> QED BY <1>1, <1>3, <2>1 DEF DeeperDecode
<1> QED BY <1>2, <1>3

\* One level of CrossedAt, at a value.
LEMMA CrossedStep ==
  ASSUME NEW v \in AnyValue, NEW n \in Nat
  PROVE  /\ n = 0 => CrossedAt[n][v] = [value |-> v, depth |-> 0]
         /\ n # 0 => CrossedAt[n][v] = CrossedOne(CrossedAt[n - 1], v)
<1>1. CASE n = 0
  BY <1>1, CrossedAtIs
<1>2. CASE n # 0
  <2>1. CrossedAt[n] = DeeperCrossed(CrossedAt[n - 1])
    BY <1>2, CrossedAtIs
  <2> QED BY <1>2, <2>1 DEF DeeperCrossed
<1> QED BY <1>1, <1>2

\* One level of Wires.
LEMMA WiresStep ==
  ASSUME NEW n \in Nat
  PROVE  Wires[n + 1] = Seq(TaggedFields(Scalars \cup ({"bytes"} \X Wires[n])))
<1>1. n + 1 \in Nat /\ n + 1 # 0 /\ n + 1 - 1 = n
  OBVIOUS
<1> QED BY <1>1, WiresIs DEF DeeperWires

-----------------------------------------------------------------------------
(* The entry of an object.                                                 *)

\* The schema of an entry: key and value.
LEMMA EntrySchema ==
  /\ "Struct_FieldsEntry" \in Types /\ Singular("Struct_FieldsEntry")
  /\ FieldNames("Struct_FieldsEntry") = {"key", "value"}
  /\ FieldNamed("Struct_FieldsEntry", "key") = Field("key", "string", "implicit")
  /\ FieldNamed("Struct_FieldsEntry", "value") = Field("value", "Value", "explicit")
  /\ Len(Schema["Struct_FieldsEntry"]) = 2
  /\ Schema["Struct_FieldsEntry"][1] = Field("key", "string", "implicit")
  /\ Schema["Struct_FieldsEntry"][2] = Field("value", "Value", "explicit")
<1>1. "Struct_FieldsEntry" \in Types
  BY TypesAre DEF Messages15
<1> DEFINE S == Schema["Struct_FieldsEntry"]
<1>2. /\ DOMAIN S = 1..2 /\ Len(S) = 2
      /\ S[1] = Field("key", "string", "implicit") /\ S[2] = Field("value", "Value", "explicit")
  BY DEF Schema, Struct_FieldsEntry
<1>3. S[1].name = "key" /\ S[2].name = "value" /\ S[1].rule = "implicit" /\ S[2].rule = "explicit"
  BY <1>2 DEF Field
<1> HIDE DEF S
<1>4. FieldNames("Struct_FieldsEntry") = {"key", "value"}
  BY <1>2, <1>3 DEF FieldNames, S
<1>5. Singular("Struct_FieldsEntry")
  BY <1>1, <1>2, <1>3 DEF Singular, S
<1>6. /\ FieldNamed("Struct_FieldsEntry", "key") = S[1]
      /\ FieldNamed("Struct_FieldsEntry", "value") = S[2]
  <2>1. 1 \in DOMAIN S /\ 2 \in DOMAIN S
    BY <1>2
  <2> QED BY <1>1, <1>3, <2>1, Places DEF S
<1> QED BY <1>1, <1>2, <1>4, <1>5, <1>6 DEF S

\* An entry is read with its key, and with its value if that can be read.
LEMMA EntryRead ==
  ASSUME NEW k, NEW x, x # Undef, NEW enc, NEW dec
  PROVE  LET r == ReadAll("Struct_FieldsEntry", dec,
                          Fields("Struct_FieldsEntry", [key |-> Str(k), value |-> x], enc))
         IN  /\ r.ok <=> Opened("Value", x, enc, dec).ok
             /\ r.ok => /\ r.message.key = Str(k)
                        /\ r.message.value = ValueUnwrap(Opened("Value", x, enc, dec).message)
<1> DEFINE type == "Struct_FieldsEntry"
           m == [key |-> Str(k), value |-> x]
           f1 == Field("key", "string", "implicit")
           f2 == Field("value", "Value", "explicit")
           ok == Opened("Value", x, enc, dec).ok
           got == ValueUnwrap(Opened("Value", x, enc, dec).message)
<1>1. /\ f1.kind \notin Types /\ f2.kind = "Value" /\ f2.kind \in Types /\ Default(f2) = Undef
      /\ f1.name = "key" /\ f2.name = "value"
  <2>1. f2.rule = "explicit" /\ f2.kind = "Value" /\ f1.kind = "string" /\ f1.name = "key" /\ f2.name = "value"
    BY DEF Field
  <2> HIDE DEF f1, f2
  <2>2. Default(f2) = Undef
    BY <2>1 DEF Default
  <2> QED BY <2>1, <2>2, TypesAre DEF Messages15
<1> HIDE DEF f1, f2
<1>2. FieldOk(f1, m.key, enc, dec) /\ FieldGot(f1, m.key, enc, dec) = Str(k)
  BY <1>1 DEF FieldOk, FieldGot
<1>3. FieldOk(f2, x, enc, dec) <=> ok
  BY <1>1 DEF FieldOk
<1>4. FieldGot(f2, x, enc, dec) = got
  BY <1>1 DEF FieldGot, Unwrap
<1>5. /\ Len(Schema[type]) = 2 /\ Schema[type][1] = f1 /\ Schema[type][2] = f2
      /\ FieldNames(type) = {"key", "value"}
      /\ FieldNamed(type, "key") = f1 /\ FieldNamed(type, "value") = f2
  BY EntrySchema DEF f1, f2
<1>6. /\ ValueOf(type, m, 1) = m.key /\ ValueOf(type, m, 2) = x
  BY <1>1, <1>5 DEF ValueOf
<1>7. (\A j \in 1..2 : FieldOk(Schema[type][j], ValueOf(type, m, j), enc, dec)) <=> ok
  <2>1. 1..2 = {1, 2}
    OBVIOUS
  <2> HIDE DEF m, ok
  <2> QED BY <2>1, <1>2, <1>3, <1>5, <1>6
<1>8. Place(type, "key") <= 2 /\ Place(type, "value") <= 2
  <2>1. DOMAIN Schema[type] = 1..2
    BY EntrySchema, SchemaLengths, <1>5
  <2>2. Place(type, "key") \in 1..2 /\ Place(type, "value") \in 1..2
    BY <2>1, <1>5, EntrySchema, Places
  <2> QED BY <2>2
<1> DEFINE M == [name \in {"key", "value"} |->
                   IF Place(type, name) <= 2
                   THEN FieldGot(FieldNamed(type, name), m[name], enc, dec)
                   ELSE Default(FieldNamed(type, name))]
<1>9. M["key"] = Str(k) /\ M["value"] = got
  <2>1. M["key"] = FieldGot(f1, m.key, enc, dec)
    BY <1>5, <1>8
  <2>2. M["value"] = FieldGot(f2, x, enc, dec)
    BY <1>5, <1>8
  <2> QED BY <2>1, <2>2, <1>2, <1>4
<1>10. StateAfter(type, m, enc, dec, 2) = IF ok THEN Going(M) ELSE Failed(type)
  <2> HIDE DEF m, ok
  <2> QED BY <1>5, <1>7 DEF StateAfter
<1> HIDE DEF m, M, ok, got
<1>11. ReadAll(type, dec, Fields(type, m, enc)) = IF ok THEN Going(M) ELSE Failed(type)
  BY <1>5, <1>10, EntrySchema, SingularRead
<1>12. CASE ok
  BY <1>9, <1>11, <1>12 DEF m, ok, got, Going
<1>13. CASE ~ok
  BY <1>11, <1>13 DEF m, ok, got, Failed
<1> QED BY <1>12, <1>13

-----------------------------------------------------------------------------
(* The wires of encode are wires decode takes.                             *)

\* The fields of a message are tagged fields when their bodies are.
LEMMA SingularWire ==
  ASSUME NEW type, Singular(type), NEW m, NEW enc, NEW B,
         \A name \in FieldNames(type) :
           m[name] # Default(FieldNamed(type, name)) =>
             Body(FieldNamed(type, name).kind, m[name], enc) \in B
  PROVE  Fields(type, m, enc) \in Seq(TaggedFields(B))
<1>1. type \in Types
  BY DEF Singular
<1>2. Pieces(type, m, enc) \subseteq TaggedFields(B)
  <2> SUFFICES ASSUME NEW i \in DOMAIN Schema[type], ValueOf(type, m, i) # Default(Schema[type][i])
               PROVE  Tagged(i, Schema[type][i], ValueOf(type, m, i), enc) \in TaggedFields(B)
    BY DEF Pieces
  <2>1. i \in Nat /\ WireType(Schema[type][i].kind) \in 0..5
    BY <1>1, SchemaLengths
  <2>2. /\ Schema[type][i].name \in FieldNames(type)
        /\ FieldNamed(type, Schema[type][i].name) = Schema[type][i]
    BY <1>1, Places
  <2>3. Body(Schema[type][i].kind, ValueOf(type, m, i), enc) \in B
    BY <2>2 DEF ValueOf
  <2> QED BY <2>1, <2>3 DEF Tagged, TaggedFields
<1>3. Fields(type, m, enc) \in Seq(Pieces(type, m, enc))
  BY SingularRead
<1> DEFINE P == Pieces(type, m, enc)
           Q == TaggedFields(B)
           w == Fields(type, m, enc)
<1>4. P \subseteq Q /\ w \in Seq(P)
  BY <1>2, <1>3
<1> HIDE DEF P, Q, w
<1>5. Len(w) \in Nat /\ w = [i \in 1..Len(w) |-> w[i]] /\ \A i \in 1..Len(w) : w[i] \in Q
  BY <1>4
<1>6. w \in Seq(Q)
  BY <1>5
<1> QED BY <1>6 DEF Q, w

\* A field may hold every value, those of fewer levels included, and every entry.
LEMMA HeldValues ==
  /\ AnyValue \subseteq Held
  /\ \A n \in Nat : n <= Nesting => Values[n] \subseteq AnyValue
  /\ Scalars \subseteq AnyValue /\ Undef \in AnyValue /\ Null \in AnyValue
  /\ \A k \in Keys : \A x \in AnyValue : Msg([key |-> Str(k), value |-> x]) \in Held
<1>1. AnyValue \subseteq Held
  BY DEF Held
<1>2. \A n \in Nat : n <= Nesting => Values[n] \subseteq AnyValue
  BY ValuesAssumption, ValuesBelow DEF AnyValue
<1>3. Scalars \subseteq AnyValue /\ Undef \in AnyValue /\ Null \in AnyValue
  <2>1. Values[0] \subseteq AnyValue
    BY <1>2, ValuesAssumption
  <2> QED BY <2>1, ValuesIs
<1>4. ASSUME NEW k \in Keys, NEW x \in AnyValue PROVE Msg([key |-> Str(k), value |-> x]) \in Held
  <2>1. Str(k) \in AnyValue
    <3>1. k \in Text
      BY ValuesAssumption
    <3>2. Str(k) \in Scalars
      BY <3>1 DEF Str, Scalars
    <3> QED BY <1>3, <3>2
  <2>2. [key |-> Str(k), value |-> x] \in [{"key", "value"} -> AnyValue]
    <3> DEFINE s == Str(k)
    <3> HIDE DEF s
    <3>1. s \in AnyValue
      BY <2>1 DEF s
    <3>2. [key |-> s, value |-> x] \in [{"key", "value"} -> AnyValue]
      BY <3>1
    <3> QED BY <3>2 DEF s
  <2>3. Msg([key |-> Str(k), value |-> x]) \in Holding("Struct_FieldsEntry")
    BY <2>2, EntrySchema DEF Holding, Msg
  <2> QED BY <2>3 DEF Held
<1> QED BY <1>1, <1>2, <1>3, <1>4

Enclosed(q) == Scalars \cup ({"bytes"} \X Wires[q])

\* A wire is a sequence of tagged fields around plain bodies and wires.
LEMMA EnclosedWires == \A q \in Nat : Wires[q + 1] = Seq(TaggedFields(Enclosed(q)))
BY WiresStep DEF Enclosed

\* A function on 1..n whose values are tagged fields is a wire.
LEMMA SequenceWire ==
  ASSUME NEW B, NEW n \in Nat, NEW w, w = [i \in 1..n |-> w[i]],
         \A i \in 1..n : w[i] \in TaggedFields(B)
  PROVE  w \in Seq(TaggedFields(B))
<1> DEFINE Q == TaggedFields(B)
<1> HIDE DEF Q
<1>1. \A i \in 1..n : w[i] \in Q
  BY DEF Q
<1>2. w \in [1..n -> Q]
  BY <1>1
<1>3. w \in Seq(Q)
  BY <1>2
<1> QED BY <1>3 DEF Q

\* The wire of an entry is one level above the wire of its value.
LEMMA EntryWire ==
  ASSUME NEW k \in Keys, NEW x \in AnyValue, x # Undef, NEW n \in Nat, NEW q \in Nat,
         EncodeAt[n][<<"Value", x>>] \in Wires[q]
  PROVE  EncodeAt[n + 1][<<"Struct_FieldsEntry", Msg([key |-> Str(k), value |-> x])>>] \in Wires[q + 1]
<1> DEFINE m == [key |-> Str(k), value |-> x]
           type == "Struct_FieldsEntry"
<1>1. EncodeAt[n + 1][<<type, Msg(m)>>] = Fields(type, m, EncodeAt[n])
  <2>1. n + 1 \in Nat /\ n + 1 # 0 /\ n + 1 - 1 = n
    OBVIOUS
  <2>2. Wrap(type, Msg(m)) = m
    BY DEF Wrap, Msg
  <2>3. Msg(m) \in Held
    BY HeldValues
  <2> HIDE DEF m
  <2> QED BY <2>1, <2>2, <2>3, EncodeStep, EntrySchema
<1>2. Body("string", Str(k), EncodeAt[n]) \in Enclosed(q)
  <2>1. "string" \notin Types
    BY TypesAre DEF Messages15
  <2>2. Str(k) \in Scalars
    BY ValuesAssumption DEF Str, Scalars
  <2> QED BY <2>1, <2>2 DEF Body, Enclosed
<1>3. Body("Value", x, EncodeAt[n]) \in Enclosed(q)
  BY ValueSchema DEF Body, Enclosed, Bytes
<1>4. \A name \in FieldNames(type) : Body(FieldNamed(type, name).kind, m[name], EncodeAt[n]) \in Enclosed(q)
  <2>1. m["key"] = Str(k) /\ m["value"] = x
    OBVIOUS
  <2>2. FieldNamed(type, "key").kind = "string" /\ FieldNamed(type, "value").kind = "Value"
    BY EntrySchema DEF Field
  <2> HIDE DEF m
  <2> QED BY <2>1, <2>2, <1>2, <1>3, EntrySchema
<1> HIDE DEF m
<1>5. Fields(type, m, EncodeAt[n]) \in Seq(TaggedFields(Enclosed(q)))
  BY <1>4, EntrySchema, SingularWire
<1> QED BY <1>1, <1>5, EnclosedWires DEF m

\* The keys that are written are finitely many.
LEMMA KeptFinite == \A f : IsFiniteSet(Kept(f)) /\ Kept(f) \subseteq Keys
<1> SUFFICES ASSUME NEW f PROVE IsFiniteSet(Kept(f)) /\ Kept(f) \subseteq Keys
  OBVIOUS
<1>1. Kept(f) \in SUBSET Keys
  BY DEF Kept
<1> QED BY <1>1, ValuesAssumption, FS_Subset

\* The wire of an object is one level above the wires of its entries.
LEMMA StructWire ==
  ASSUME NEW o \in AnyValue, NEW n \in Nat, NEW q \in Nat,
         \A k \in Kept(Keyed(o)) :
           EncodeAt[n][<<"Struct_FieldsEntry", EntryOf(Keyed(o), k)>>] \in Wires[q]
  PROVE  /\ EncodeAt[n + 1][<<"Struct", o>>] = Fields("Struct", [fields |-> Keyed(o)], EncodeAt[n])
         /\ EncodeAt[n + 1][<<"Struct", o>>] \in Wires[q + 1]
<1> DEFINE v == Keyed(o)
           s == Ordered(v)
           w == Fields("Struct", [fields |-> v], EncodeAt[n])
<1>1. EncodeAt[n + 1][<<"Struct", o>>] = w
  <2>1. n + 1 \in Nat /\ n + 1 # 0 /\ n + 1 - 1 = n
    OBVIOUS
  <2>2. Wrap("Struct", o) = [fields |-> v]
    BY DEF Wrap
  <2>3. o \in Held
    BY HeldValues
  <2> HIDE DEF v
  <2>4. EncodeAt[n + 1][<<"Struct", o>>] = Fields("Struct", Wrap("Struct", o), EncodeAt[n])
    BY <2>1, <2>3, EncodeStep, OneField
  <2> QED BY <2>2, <2>4
<1>2. Len(s) \in Nat /\ DOMAIN s = 1..Len(s) /\ Kept(v) = {s[i] : i \in 1..Len(s)}
  BY KeptFinite, SequenceOfSet DEF Ordered
<1>3. w = [i \in 1..Len(s) |-> Entry(v, s[i], EncodeAt[n])]
  BY <1>2, StructWritten
<1>4. ASSUME NEW i \in 1..Len(s) PROVE w[i] \in TaggedFields(Enclosed(q))
  <2>1. s[i] \in Kept(v)
    BY <1>2
  <2>2. EncodeAt[n][<<"Struct_FieldsEntry", EntryOf(v, s[i])>>] \in Wires[q]
    BY <2>1
  <2>3. w[i] = Entry(v, s[i], EncodeAt[n])
    BY <1>3
  <2> HIDE DEF v, s, w
  <2> QED BY <2>2, <2>3 DEF Entry, TaggedFields, Enclosed, Bytes
<1> HIDE DEF v, s
<1>5. w = [i \in 1..Len(s) |-> w[i]]
  BY <1>3
<1> HIDE DEF w
<1>6. w \in Seq(TaggedFields(Enclosed(q)))
  BY <1>2, <1>4, <1>5, SequenceWire
<1> QED BY <1>1, <1>6, EnclosedWires DEF w, v

\* The wire of an array is one level above the wires of its values.
LEMMA ListWire ==
  ASSUME NEW o \in AnyValue, NEW n \in Nat, NEW q \in Nat, Len(o[2]) \in Nat,
         DOMAIN o[2] = 1..Len(o[2]),
         \A i \in 1..Len(o[2]) : EncodeAt[n][<<"Value", o[2][i]>>] \in Wires[q]
  PROVE  /\ EncodeAt[n + 1][<<"ListValue", o>>] = Fields("ListValue", [values |-> o[2]], EncodeAt[n])
         /\ EncodeAt[n + 1][<<"ListValue", o>>] \in Wires[q + 1]
<1> DEFINE s == o[2]
           w == Fields("ListValue", [values |-> s], EncodeAt[n])
<1>1. EncodeAt[n + 1][<<"ListValue", o>>] = w
  <2>1. n + 1 \in Nat /\ n + 1 # 0 /\ n + 1 - 1 = n
    OBVIOUS
  <2>2. Wrap("ListValue", o) = [values |-> s]
    BY DEF Wrap
  <2>3. o \in Held
    BY HeldValues
  <2>4. EncodeAt[n + 1][<<"ListValue", o>>] = Fields("ListValue", Wrap("ListValue", o), EncodeAt[n])
    BY <2>1, <2>3, EncodeStep, OneField
  <2> QED BY <2>2, <2>4
<1>2. w = [i \in 1..Len(s) |-> Item(s[i], EncodeAt[n])]
  BY ListWritten
<1>3. ASSUME NEW i \in 1..Len(s) PROVE w[i] \in TaggedFields(Enclosed(q))
  <2>1. w[i] = Item(s[i], EncodeAt[n])
    BY <1>2
  <2> HIDE DEF w
  <2> QED BY <2>1 DEF Item, TaggedFields, Enclosed, Bytes
<1>4. w = [i \in 1..Len(s) |-> w[i]]
  BY <1>2
<1> HIDE DEF w
<1>5. w \in Seq(TaggedFields(Enclosed(q)))
  BY <1>3, <1>4, SequenceWire
<1> QED BY <1>1, <1>5, EnclosedWires DEF w

\* What a value is encoded as: the Value that wraps it.
LEMMA ValueEncoded ==
  ASSUME NEW v \in AnyValue, NEW n \in Nat
  PROVE  EncodeAt[n + 1][<<"Value", v>>] = Fields("Value", ValueWrap(v), EncodeAt[n])
<1>1. n + 1 \in Nat /\ n + 1 # 0 /\ n + 1 - 1 = n
  OBVIOUS
<1>2. Wrap("Value", v) = ValueWrap(v)
  BY DEF Wrap
<1>3. v \in Held
  BY HeldValues
<1>4. EncodeAt[n + 1][<<"Value", v>>] = Fields("Value", Wrap("Value", v), EncodeAt[n])
  BY <1>1, <1>3, EncodeStep, ValueSchema
<1> QED BY <1>2, <1>4

\* The field of Value that holds a value.
LEMMA ValueFields ==
  /\ ValueField(Date) = "structValue"
  /\ \A S : \A o \in Objects(S) : ValueField(o) = "structValue"
  /\ \A S : \A o \in Lists(S) : ValueField(o) = "listValue"
  /\ \A v \in Scalars : ValueField(v) \in {"boolValue", "numberValue", "stringValue"}
  /\ \A v \in Scalars : v \notin {Undef, Null}
  /\ Date \notin {Undef, Null}
  /\ \A S : \A o \in Objects(S) \cup Lists(S) : o \notin {Undef, Null}
<1>1. ValueField(Date) = "structValue" /\ Date \notin {Undef, Null}
  BY DEF ValueField, Type, Date, Undef, Null
<1>2. ASSUME NEW S, NEW o \in Objects(S) PROVE ValueField(o) = "structValue" /\ o \notin {Undef, Null}
  <2>1. o[1] = "object"
    BY Tags
  <2> QED BY <2>1 DEF ValueField, Type, Undef, Null
<1>3. ASSUME NEW S, NEW o \in Lists(S) PROVE ValueField(o) = "listValue" /\ o \notin {Undef, Null}
  <2>1. o[1] = "array"
    BY Tags
  <2> QED BY <2>1 DEF ValueField, Type, Undef, Null
<1>4. ASSUME NEW v \in Scalars
      PROVE  ValueField(v) \in {"boolValue", "numberValue", "stringValue"} /\ v \notin {Undef, Null}
  <2>1. v[1] \in {"boolean", "number", "string"}
    BY Tags
  <2> QED BY <2>1 DEF ValueField, Type, Undef, Null
<1> QED BY <1>1, <1>2, <1>3, <1>4

\* The wire of a Value with one field set.
LEMMA SetWire ==
  ASSUME NEW enc, NEW B, NEW name \in ValueNames, NEW x, x # Undef, Body(ValueKind(name), x, enc) \in B
  PROVE  Fields("Value", Only(name, x), enc) \in Seq(TaggedFields(B))
<1>1. \A n \in FieldNames("Value") :
        Only(name, x)[n] # Default(FieldNamed("Value", n)) =>
          Body(FieldNamed("Value", n).kind, Only(name, x)[n], enc) \in B
  BY ValueSchema DEF Only
<1> QED BY <1>1, ValueSchema, SingularWire

\* The wire of a plain value holds no other wire.
LEMMA PlainWire ==
  ASSUME NEW v \in Scalars \cup {Undef, Null}, NEW n \in Nat
  PROVE  EncodeAt[n + 1][<<"Value", v>>] \in Wires[0]
<1>1. v \in AnyValue
  BY HeldValues
<1>2. EncodeAt[n + 1][<<"Value", v>>] = Fields("Value", ValueWrap(v), EncodeAt[n])
  BY <1>1, ValueEncoded
<1>3. \A name \in {"nullValue", "boolValue", "numberValue", "stringValue"} :
        /\ name \in ValueNames
        /\ \A x : Body(ValueKind(name), x, EncodeAt[n]) = x
  BY TypesAre DEF ValueNames, ValueKind, Body, Messages15
<1>4. Fields("Value", ValueWrap(v), EncodeAt[n]) \in Seq(TaggedFields(Scalars))
  <2>1. CASE v = Undef
    <3>1. \A name \in FieldNames("Value") :
            [m \in ValueNames |-> Undef][name] = Default(FieldNamed("Value", name))
      BY ValueSchema
    <3>2. Fields("Value", [m \in ValueNames |-> Undef], EncodeAt[n]) \in Seq(TaggedFields(Scalars))
      BY <3>1, ValueSchema, SingularWire
    <3> QED BY <2>1, <3>2, WrapOne
  <2>2. CASE v = Null
    <3>1. Num(0) \in Scalars /\ Num(0) # Undef
      BY DEF Scalars, Num, Undef
    <3>2. Body(ValueKind("nullValue"), Num(0), EncodeAt[n]) \in Scalars
      BY <1>3, <3>1
    <3>3. Fields("Value", Only("nullValue", Num(0)), EncodeAt[n]) \in Seq(TaggedFields(Scalars))
      BY <1>3, <3>1, <3>2, SetWire
    <3> QED BY <2>2, <3>3, WrapOne
  <2>3. CASE v \in Scalars
    <3>1. ValueField(v) \in {"boolValue", "numberValue", "stringValue"} /\ v \notin {Undef, Null}
      BY <2>3, ValueFields
    <3>2. Body(ValueKind(ValueField(v)), v, EncodeAt[n]) \in Scalars
      BY <1>3, <2>3, <3>1
    <3>3. Fields("Value", Only(ValueField(v), v), EncodeAt[n]) \in Seq(TaggedFields(Scalars))
      BY <1>3, <3>1, <3>2, SetWire
    <3> QED BY <3>1, <3>3, WrapOne
  <2> QED BY <2>1, <2>2, <2>3
<1> QED BY <1>2, <1>4, WiresIs

\* The wire of a value that is an object or an array is one level above the wire of that.
LEMMA NestedWire ==
  ASSUME NEW v \in AnyValue, NEW kind \in {"Struct", "ListValue"}, v \notin {Undef, Null},
         ValueField(v) = IF kind = "Struct" THEN "structValue" ELSE "listValue",
         NEW n \in Nat, NEW q \in Nat, EncodeAt[n][<<kind, v>>] \in Wires[q]
  PROVE  EncodeAt[n + 1][<<"Value", v>>] \in Wires[q + 1]
<1> DEFINE name == ValueField(v)
<1>1. name \in ValueNames /\ ValueKind(name) = kind /\ kind \in Types
  BY OneField DEF ValueNames, ValueKind
<1>2. Body(kind, v, EncodeAt[n]) \in Enclosed(q)
  BY <1>1 DEF Body, Enclosed, Bytes
<1> HIDE DEF name
<1>3. Fields("Value", Only(name, v), EncodeAt[n]) \in Seq(TaggedFields(Enclosed(q)))
  BY <1>1, <1>2, SetWire
<1>4. ValueWrap(v) = Only(name, v)
  BY WrapOne DEF name
<1> QED BY <1>3, <1>4, ValueEncoded, EnclosedWires

\* An object or a Date with values of m levels.
ObjectOf(m, o) == o \in {Date} \cup Objects(Values[m])

ListOf(m, o) == o \in Lists(Values[m])

ValueHasWire(m) ==
  \A v \in Values[m] : \A n \in Nat :
    n >= 3 * m + 1 => EncodeAt[n][<<"Value", v>>] \in Wires[3 * m]

\* What is inside an object has a level less.
LEMMA InsideObject ==
  ASSUME NEW m \in Nat, NEW o, ObjectOf(m, o)
  PROVE  \A k \in Kept(Keyed(o)) : Keyed(o)[k] \in Values[m] /\ Keyed(o)[k] # Undef /\ k \in Keys
<1>1. CASE o = Date
  <2>1. Keyed(o) = NoKeys
    BY <1>1 DEF Keyed, Type, Date
  <2>2. Kept(NoKeys) = {}
    BY DEF Kept, NoKeys
  <2> QED BY <2>1, <2>2
<1>2. CASE o \in Objects(Values[m])
  <2>1. o[1] = "object" /\ o[2] \in [Keys -> Values[m] \cup {Absent}]
    BY <1>2, Tags
  <2>2. Keyed(o) = o[2]
    BY <2>1 DEF Keyed, Type
  <2> QED BY <2>1, <2>2 DEF Kept
<1> QED BY <1>1, <1>2 DEF ObjectOf

\* An object or array with levels to spare is a value of the program, and so is what it holds.
LEMMA NestedHeld ==
  ASSUME NEW m \in Nat, m + 1 <= Nesting, NEW o, ObjectOf(m, o) \/ ListOf(m, o)
  PROVE  o \in AnyValue /\ o \in Values[m + 1] /\ Values[m] \subseteq AnyValue
<1>1. m + 1 \in Nat /\ m + 1 # 0 /\ m + 1 - 1 = m /\ m <= Nesting
  BY ValuesAssumption
<1>2. Values[m + 1] = DeeperValues(Values[m])
  BY <1>1, ValuesIs
<1>3. o \in Values[m + 1]
  BY <1>2 DEF ObjectOf, ListOf, DeeperValues
<1> QED BY <1>1, <1>3, HeldValues

\* An object of m + 1 levels has a wire as soon as EncodeAt has levels for it.
LEMMA StructHasWire ==
  ASSUME NEW m \in Nat, m + 1 <= Nesting, ValueHasWire(m), NEW o, ObjectOf(m, o),
         NEW n \in Nat, n >= 3 * m + 3
  PROVE  /\ EncodeAt[n][<<"Struct", o>>] = Fields("Struct", [fields |-> Keyed(o)], EncodeAt[n - 1])
         /\ EncodeAt[n][<<"Struct", o>>] \in Wires[3 * m + 2]
         /\ \A k \in Kept(Keyed(o)) :
              EncodeAt[n - 1][<<"Struct_FieldsEntry", EntryOf(Keyed(o), k)>>] \in Wires[3 * m + 1]
<1>1. PICK p \in Nat : n = p + 2 /\ p >= 3 * m + 1
  <2>1. n - 2 \in Nat /\ n = n - 2 + 2 /\ n - 2 >= 3 * m + 1
    OBVIOUS
  <2> QED BY <2>1
<1>2. PICK q \in Nat : q = 3 * m
  OBVIOUS
<1>3. o \in AnyValue /\ Values[m] \subseteq AnyValue
  BY NestedHeld
<1>4. \A k \in Kept(Keyed(o)) :
        EncodeAt[p + 1][<<"Struct_FieldsEntry", EntryOf(Keyed(o), k)>>] \in Wires[q + 1]
  <2> SUFFICES ASSUME NEW k \in Kept(Keyed(o))
               PROVE  EncodeAt[p + 1][<<"Struct_FieldsEntry", EntryOf(Keyed(o), k)>>] \in Wires[q + 1]
    OBVIOUS
  <2>1. Keyed(o)[k] \in Values[m] /\ Keyed(o)[k] # Undef /\ k \in Keys
    BY InsideObject
  <2>2. EncodeAt[p][<<"Value", Keyed(o)[k]>>] \in Wires[q]
    BY <2>1, <1>1, <1>2 DEF ValueHasWire
  <2>3. Keyed(o)[k] \in AnyValue
    BY <2>1, <1>3
  <2> QED BY <2>1, <2>2, <2>3, EntryWire DEF EntryOf
<1>5. p + 1 \in Nat /\ q + 1 \in Nat /\ p + 1 + 1 = n /\ q + 1 + 1 = 3 * m + 2 /\ n - 1 = p + 1 /\ q + 1 = 3 * m + 1
  BY <1>1, <1>2
<1>6. /\ EncodeAt[p + 1 + 1][<<"Struct", o>>] = Fields("Struct", [fields |-> Keyed(o)], EncodeAt[p + 1])
      /\ EncodeAt[p + 1 + 1][<<"Struct", o>>] \in Wires[q + 1 + 1]
  BY <1>3, <1>4, <1>5, StructWire
<1> QED BY <1>4, <1>5, <1>6

\* An array of m + 1 levels has a wire as soon as EncodeAt has levels for it.
LEMMA ListHasWire ==
  ASSUME NEW m \in Nat, m + 1 <= Nesting, ValueHasWire(m), NEW o, ListOf(m, o),
         NEW n \in Nat, n >= 3 * m + 2
  PROVE  /\ EncodeAt[n][<<"ListValue", o>>] = Fields("ListValue", [values |-> o[2]], EncodeAt[n - 1])
         /\ EncodeAt[n][<<"ListValue", o>>] \in Wires[3 * m + 1]
         /\ o[2] \in Seq(Values[m])
<1>1. PICK p \in Nat : n = p + 1 /\ p >= 3 * m + 1
  <2>1. n - 1 \in Nat /\ n = n - 1 + 1 /\ n - 1 >= 3 * m + 1
    OBVIOUS
  <2> QED BY <2>1
<1>2. PICK q \in Nat : q = 3 * m
  OBVIOUS
<1>3. o \in AnyValue
  BY NestedHeld
<1>4. o[2] \in Seq(Values[m])
  BY Tags DEF ListOf
<1>5. Len(o[2]) \in Nat /\ DOMAIN o[2] = 1..Len(o[2]) /\ \A i \in 1..Len(o[2]) : o[2][i] \in Values[m]
  BY <1>4
<1>6. \A i \in 1..Len(o[2]) : EncodeAt[p][<<"Value", o[2][i]>>] \in Wires[q]
  BY <1>1, <1>2, <1>5 DEF ValueHasWire
<1>7. /\ EncodeAt[p + 1][<<"ListValue", o>>] = Fields("ListValue", [values |-> o[2]], EncodeAt[p])
      /\ EncodeAt[p + 1][<<"ListValue", o>>] \in Wires[q + 1]
  BY <1>3, <1>5, <1>6, ListWire
<1>8. n - 1 = p
  BY <1>1
<1> QED BY <1>1, <1>2, <1>4, <1>7, <1>8

\* Every value of the program has a wire.
LEMMA ValueWires == \A m \in Nat : m <= Nesting => ValueHasWire(m)
<1> DEFINE T == {m \in Nat : m <= Nesting => ValueHasWire(m)}
<1>1. \A v \in Scalars \cup {Undef, Null} : \A n \in Nat : \A m \in Nat :
        n >= 3 * m + 1 => EncodeAt[n][<<"Value", v>>] \in Wires[3 * m]
  <2> SUFFICES ASSUME NEW v \in Scalars \cup {Undef, Null}, NEW n \in Nat, NEW m \in Nat, n >= 3 * m + 1
               PROVE  EncodeAt[n][<<"Value", v>>] \in Wires[3 * m]
    OBVIOUS
  <2>1. PICK p \in Nat : n = p + 1
    <3>1. n - 1 \in Nat /\ n = n - 1 + 1
      OBVIOUS
    <3> QED BY <3>1
  <2>2. EncodeAt[n][<<"Value", v>>] \in Wires[0]
    BY <2>1, PlainWire
  <2>3. 3 * m \in Nat /\ 0 <= 3 * m
    OBVIOUS
  <2> QED BY <2>2, <2>3, WiresBelow
<1>2. 0 \in T
  <2>1. Values[0] = Scalars \cup {Undef, Null}
    BY ValuesIs
  <2>2. ValueHasWire(0)
    BY <1>1, <2>1 DEF ValueHasWire
  <2> QED BY <2>2
<1>3. ASSUME NEW m \in Nat, m \in T PROVE m + 1 \in T
  <2> SUFFICES ASSUME m + 1 <= Nesting PROVE ValueHasWire(m + 1)
    OBVIOUS
  <2>1. ValueHasWire(m)
    BY <1>3, ValuesAssumption
  <2> SUFFICES ASSUME NEW v \in Values[m + 1], NEW n \in Nat, n >= 3 * (m + 1) + 1
               PROVE  EncodeAt[n][<<"Value", v>>] \in Wires[3 * (m + 1)]
    BY DEF ValueHasWire
  <2>2. PICK p \in Nat : n = p + 1 /\ p >= 3 * m + 3
    <3>1. n - 1 \in Nat /\ n = n - 1 + 1 /\ n - 1 >= 3 * m + 3
      OBVIOUS
    <3> QED BY <3>1
  <2>3. v \in Scalars \cup {Undef, Null} \/ ObjectOf(m, v) \/ ListOf(m, v)
    <3>1. m + 1 \in Nat /\ m + 1 - 1 = m
      OBVIOUS
    <3> QED BY <3>1, ValueCases DEF ObjectOf, ListOf
  <2>4. CASE v \in Scalars \cup {Undef, Null}
    <3>1. m + 1 \in Nat
      OBVIOUS
    <3> QED BY <1>1, <2>4, <3>1
  <2>5. CASE ObjectOf(m, v)
    <3>1. v \in AnyValue
      BY <2>5, NestedHeld
    <3>2. EncodeAt[p][<<"Struct", v>>] \in Wires[3 * m + 2]
      BY <2>1, <2>2, <2>5, StructHasWire
    <3>3. ValueField(v) = "structValue" /\ v \notin {Undef, Null}
      BY <2>5, ValueFields DEF ObjectOf
    <3>4. 3 * m + 2 \in Nat /\ 3 * m + 2 + 1 = 3 * (m + 1)
      OBVIOUS
    <3>5. EncodeAt[p + 1][<<"Value", v>>] \in Wires[3 * m + 2 + 1]
      BY <3>1, <3>2, <3>3, <3>4, <2>2, NestedWire
    <3> QED BY <3>4, <3>5, <2>2
  <2>6. CASE ListOf(m, v)
    <3>1. v \in AnyValue
      BY <2>6, NestedHeld
    <3>2. p \in Nat /\ p >= 3 * m + 2
      BY <2>2
    <3>3. EncodeAt[p][<<"ListValue", v>>] \in Wires[3 * m + 1]
      BY <2>1, <2>6, <3>2, ListHasWire
    <3>4. ValueField(v) = "listValue" /\ v \notin {Undef, Null}
      BY <2>6, ValueFields DEF ListOf
    <3>5. 3 * m + 1 \in Nat /\ 3 * m + 1 + 1 = 3 * m + 2 /\ 3 * m + 2 <= 3 * (m + 1) /\ 3 * (m + 1) \in Nat
          /\ 3 * m + 2 \in Nat
      OBVIOUS
    <3>6. EncodeAt[p + 1][<<"Value", v>>] \in Wires[3 * m + 1 + 1]
      BY <3>1, <3>3, <3>4, <3>5, <2>2, NestedWire
    <3> QED BY <3>5, <3>6, <2>2, WiresBelow
  <2> QED BY <2>3, <2>4, <2>5, <2>6
<1> HIDE DEF T
<1>4. \A m \in Nat : m \in T
  BY <1>2, <1>3, NaturalsAreReached
<1> QED BY <1>4 DEF T

-----------------------------------------------------------------------------
(* The reference, level by level.                                          *)

\* A value is plain, or an object or an array of values.
LEMMA InsideAny ==
  ASSUME NEW v \in AnyValue
  PROVE  \/ v \in Scalars \cup {Undef, Null}
         \/ \E m \in Nat : m + 1 <= Nesting /\ (ObjectOf(m, v) \/ ListOf(m, v))
<1>1. Nesting \in Nat
  BY ValuesAssumption
<1>2. CASE Nesting = 0
  BY <1>2, ValuesIs DEF AnyValue
<1>3. CASE Nesting # 0
  <2>1. Nesting - 1 \in Nat /\ Nesting - 1 + 1 <= Nesting
    BY <1>1, <1>3
  <2>2. v \in Scalars \cup {Undef, Null} \/ ObjectOf(Nesting - 1, v) \/ ListOf(Nesting - 1, v)
    BY <1>1, ValueCases DEF AnyValue, ObjectOf, ListOf
  <2> QED BY <2>1, <2>2
<1> QED BY <1>2, <1>3

\* The types of plain values, objects and arrays.
LEMMA TypesOfValues ==
  /\ \A v \in Scalars \cup {Undef, Null} :
       Type(v) \in {"boolean", "number", "string", "undefined", "null"}
  /\ \A m \in Nat : \A o : ObjectOf(m, o) => \/ o = Date /\ Type(o) = "date" /\ Keyed(o) = NoKeys
                                             \/ Type(o) = "object" /\ Keyed(o) = o[2]
  /\ \A m \in Nat : \A o : ListOf(m, o) => Type(o) = "array" /\ o[2] \in Seq(Values[m])
<1>1. \A v \in Scalars \cup {Undef, Null} :
       Type(v) \in {"boolean", "number", "string", "undefined", "null"}
  BY Tags DEF Type
<1>2. ASSUME NEW m \in Nat, NEW o, ObjectOf(m, o)
      PROVE  \/ o = Date /\ Type(o) = "date" /\ Keyed(o) = NoKeys
             \/ Type(o) = "object" /\ Keyed(o) = o[2]
  <2>1. CASE o = Date
    BY <2>1 DEF Type, Keyed, Date
  <2>2. CASE o \in Objects(Values[m])
    <3>1. o[1] = "object"
      BY <2>2, Tags
    <3> QED BY <3>1 DEF Type, Keyed
  <2> QED BY <1>2, <2>1, <2>2 DEF ObjectOf
<1>3. ASSUME NEW m \in Nat, NEW o, ListOf(m, o) PROVE Type(o) = "array" /\ o[2] \in Seq(Values[m])
  BY <1>3, Tags DEF ListOf, Type
<1> QED BY <1>1, <1>2, <1>3

\* The depth of what holds other values: below a limit exactly when each of them leaves room.
LEMMA DeepIs ==
  ASSUME NEW inner, NEW extra \in Nat, NEW S, NEW b \in Nat,
         \A x \in S : inner[x].depth \in Nat /\ inner[x].depth <= b
  PROVE  /\ Deep(inner, extra, S) \in Nat /\ Deep(inner, extra, S) <= 1 + extra + b
         /\ \A r \in Int : Deep(inner, extra, S) < r <=>
                             1 < r /\ \A x \in S : extra + inner[x].depth < r
<1> DEFINE D == {1} \cup {extra + inner[x].depth : x \in S}
           d == Max(D)
<1>1. D # {} /\ \A s \in D : s \in Nat /\ s <= 1 + extra + b
  OBVIOUS
<1>2. d \in D /\ \A s \in D : s <= d
  <2>1. 1 + extra + b \in Nat
    OBVIOUS
  <2> HIDE DEF D
  <2> QED BY <1>1, <2>1, GreatestOf
<1>3. Deep(inner, extra, S) = d
  BY DEF Deep
<1>4. 1 \in D /\ \A x \in S : extra + inner[x].depth \in D
  OBVIOUS
<1>5. d = 1 \/ \E x \in S : d = extra + inner[x].depth
  BY <1>2
<1> HIDE DEF d, D
<1>6. d \in Nat /\ d <= 1 + extra + b
  BY <1>1, <1>2
<1>7. ASSUME NEW r \in Int
      PROVE  d < r <=> 1 < r /\ \A x \in S : extra + inner[x].depth < r
  <2>1. ASSUME d < r PROVE 1 < r /\ \A x \in S : extra + inner[x].depth < r
    <3>1. 1 < r
      BY <2>1, <1>2, <1>4, <1>6
    <3>2. ASSUME NEW x \in S PROVE extra + inner[x].depth < r
      <4>1. extra + inner[x].depth <= d /\ extra + inner[x].depth \in Nat
        BY <1>2, <1>4
      <4> QED BY <4>1, <2>1, <1>6
    <3> QED BY <3>1, <3>2
  <2> QED BY <2>1, <1>5
<1> QED BY <1>3, <1>6, <1>7

DepthAt(c, v) == CrossedAt[c][v].depth

ValueAt(c, v) == CrossedAt[c][v].value

InsideValues(o) == {Keyed(o)[k] : k \in Kept(Keyed(o))}

InsideItems(o) == {o[2][i] : i \in DOMAIN o[2]}

CrossedObject(c, o) ==
  Obj([k \in Keys |-> IF k \in Kept(Keyed(o)) THEN ValueAt(c, Keyed(o)[k]) ELSE Absent])

CrossedArray(c, o) == List([i \in DOMAIN o[2] |-> ValueAt(c, o[2][i])])

\* What an object or an array is once it has crossed, by what it holds.
LEMMA CrossedNested ==
  ASSUME NEW m \in Nat, m + 1 <= Nesting, NEW o, NEW c \in Nat
  PROVE  /\ ObjectOf(m, o) =>
              CrossedAt[c + 1][o] =
                [value |-> Obj([k \in Keys |-> IF k \in Kept(Keyed(o))
                                               THEN CrossedAt[c][Keyed(o)[k]].value ELSE Absent]),
                 depth |-> Deep(CrossedAt[c], 3, InsideValues(o))]
         /\ ListOf(m, o) =>
              CrossedAt[c + 1][o] =
                [value |-> List([i \in DOMAIN o[2] |-> CrossedAt[c][o[2][i]].value]),
                 depth |-> Deep(CrossedAt[c], 2, InsideItems(o))]
<1>1. c + 1 \in Nat /\ c + 1 # 0 /\ c + 1 - 1 = c
  OBVIOUS
<1>2. o \in AnyValue => CrossedAt[c + 1][o] = CrossedOne(CrossedAt[c], o)
  <2> SUFFICES ASSUME o \in AnyValue PROVE CrossedAt[c + 1][o] = CrossedOne(CrossedAt[c], o)
    OBVIOUS
  <2>1. PICK p \in Nat : p = c + 1 /\ p # 0 /\ p - 1 = c
    BY <1>1
  <2>2. CrossedAt[p][o] = CrossedOne(CrossedAt[p - 1], o)
    BY <2>1, CrossedStep
  <2> QED BY <2>1, <2>2
<1>3. ASSUME ObjectOf(m, o), o = Date
      PROVE  CrossedAt[c + 1][o] =
                [value |-> Obj([k \in Keys |-> IF k \in Kept(Keyed(o))
                                               THEN CrossedAt[c][Keyed(o)[k]].value ELSE Absent]),
                 depth |-> Deep(CrossedAt[c], 3, InsideValues(o))]
  <2>1. o \in AnyValue
    BY <1>3, NestedHeld
  <2>2. Type(o) = "date" /\ Keyed(o) = NoKeys
    BY <1>3 DEF Date, Type, Keyed
  <2>3. CrossedOne(CrossedAt[c], o) = [value |-> Obj(NoKeys), depth |-> 1]
    BY <2>2 DEF CrossedOne
  <2>4. Kept(NoKeys) = {}
    BY DEF Kept, NoKeys
  <2>5. [k \in Keys |-> IF k \in Kept(Keyed(o)) THEN CrossedAt[c][Keyed(o)[k]].value ELSE Absent] = NoKeys
    BY <2>2, <2>4 DEF NoKeys
  <2>6. Deep(CrossedAt[c], 3, InsideValues(o)) = 1
    <3>1. InsideValues(o) = {}
      BY <2>2, <2>4 DEF InsideValues
    <3> DEFINE d == Deep(CrossedAt[c], 3, {})
    <3>2. d \in Nat /\ \A r \in Int : d < r <=> 1 < r
      BY DeepIs
    <3> HIDE DEF d
    <3>3. ~(d < 1) /\ d < 2
      BY <3>2
    <3>4. d = 1
      BY <3>2, <3>3
    <3> QED BY <3>1, <3>4 DEF d
  <2> QED BY <1>2, <2>1, <2>3, <2>5, <2>6
<1>4. ASSUME ObjectOf(m, o), o # Date
      PROVE  CrossedAt[c + 1][o] =
                [value |-> Obj([k \in Keys |-> IF k \in Kept(Keyed(o))
                                               THEN CrossedAt[c][Keyed(o)[k]].value ELSE Absent]),
                 depth |-> Deep(CrossedAt[c], 3, InsideValues(o))]
  <2>1. o \in AnyValue
    BY <1>4, NestedHeld
  <2>2. Type(o) = "object" /\ Keyed(o) = o[2]
    BY <1>4, TypesOfValues
  <2> QED BY <1>2, <2>1, <2>2 DEF CrossedOne, InsideValues
<1>5. ASSUME ListOf(m, o)
      PROVE  CrossedAt[c + 1][o] =
                [value |-> List([i \in DOMAIN o[2] |-> CrossedAt[c][o[2][i]].value]),
                 depth |-> Deep(CrossedAt[c], 2, InsideItems(o))]
  <2>1. o \in AnyValue
    BY <1>5, NestedHeld
  <2>2. Type(o) = "array"
    BY <1>5, TypesOfValues
  <2> QED BY <1>2, <2>1, <2>2 DEF CrossedOne, InsideItems
<1> QED BY <1>3, <1>4, <1>5

\* A plain value crosses unchanged, without going deeper.
LEMMA CrossedPlain ==
  ASSUME NEW v \in Scalars \cup {Undef, Null}, NEW c \in Nat
  PROVE  CrossedAt[c][v] = [value |-> v, depth |-> 0]
<1>1. v \in AnyValue
  BY HeldValues
<1>2. Type(v) \in {"boolean", "number", "string", "undefined", "null"}
  BY TypesOfValues
<1>3. CrossedOne(CrossedAt[c - 1], v) = [value |-> v, depth |-> 0]
  BY <1>2 DEF CrossedOne
<1> QED BY <1>1, <1>3, CrossedStep

\* The value and the depth of what has crossed, case by case.
LEMMA CrossedParts ==
  /\ \A c \in Nat : \A v \in Scalars \cup {Undef, Null} : DepthAt(c, v) = 0 /\ ValueAt(c, v) = v
  /\ \A v \in AnyValue : DepthAt(0, v) = 0 /\ ValueAt(0, v) = v
  /\ \A m, c \in Nat : \A o : m + 1 <= Nesting /\ ObjectOf(m, o) =>
       /\ DepthAt(c + 1, o) = Deep(CrossedAt[c], 3, InsideValues(o))
       /\ ValueAt(c + 1, o) = CrossedObject(c, o)
  /\ \A m, c \in Nat : \A o : m + 1 <= Nesting /\ ListOf(m, o) =>
       /\ DepthAt(c + 1, o) = Deep(CrossedAt[c], 2, InsideItems(o))
       /\ ValueAt(c + 1, o) = CrossedArray(c, o)
<1>1. \A x, d : [value |-> x, depth |-> d].value = x /\ [value |-> x, depth |-> d].depth = d
  OBVIOUS
<1>2. ASSUME NEW c \in Nat, NEW v \in Scalars \cup {Undef, Null}
      PROVE  DepthAt(c, v) = 0 /\ ValueAt(c, v) = v
  <2>1. CrossedAt[c][v] = [value |-> v, depth |-> 0]
    BY CrossedPlain
  <2> QED BY <1>1, <2>1 DEF DepthAt, ValueAt
<1>3. ASSUME NEW v \in AnyValue PROVE DepthAt(0, v) = 0 /\ ValueAt(0, v) = v
  <2>1. CrossedAt[0][v] = [value |-> v, depth |-> 0]
    BY CrossedAtIs
  <2> QED BY <1>1, <2>1 DEF DepthAt, ValueAt
<1>4. ASSUME NEW m \in Nat, NEW c \in Nat, NEW o, m + 1 <= Nesting, ObjectOf(m, o)
      PROVE  /\ DepthAt(c + 1, o) = Deep(CrossedAt[c], 3, InsideValues(o))
             /\ ValueAt(c + 1, o) = CrossedObject(c, o)
  <2> DEFINE x == Obj([k \in Keys |-> IF k \in Kept(Keyed(o))
                                      THEN CrossedAt[c][Keyed(o)[k]].value ELSE Absent])
             d == Deep(CrossedAt[c], 3, InsideValues(o))
  <2>1. CrossedAt[c + 1][o] = [value |-> x, depth |-> d]
    BY <1>4, CrossedNested
  <2>2. x = CrossedObject(c, o)
    BY DEF CrossedObject, ValueAt
  <2> HIDE DEF x, d
  <2>3. CrossedAt[c + 1][o].value = x /\ CrossedAt[c + 1][o].depth = d
    BY <1>1, <2>1
  <2> QED BY <2>2, <2>3 DEF DepthAt, ValueAt, d
<1>5. ASSUME NEW m \in Nat, NEW c \in Nat, NEW o, m + 1 <= Nesting, ListOf(m, o)
      PROVE  /\ DepthAt(c + 1, o) = Deep(CrossedAt[c], 2, InsideItems(o))
             /\ ValueAt(c + 1, o) = CrossedArray(c, o)
  <2> DEFINE x == List([i \in DOMAIN o[2] |-> CrossedAt[c][o[2][i]].value])
             d == Deep(CrossedAt[c], 2, InsideItems(o))
  <2>1. CrossedAt[c + 1][o] = [value |-> x, depth |-> d]
    BY <1>5, CrossedNested
  <2>2. x = CrossedArray(c, o)
    BY DEF CrossedArray, ValueAt
  <2> HIDE DEF x, d
  <2>3. CrossedAt[c + 1][o].value = x /\ CrossedAt[c + 1][o].depth = d
    BY <1>1, <2>1
  <2> QED BY <2>2, <2>3 DEF DepthAt, ValueAt, d
<1> QED BY <1>2, <1>3, <1>4, <1>5

\* A depth is a natural, at most four for each level.
LEMMA DepthBounds == \A c \in Nat : \A v \in AnyValue : DepthAt(c, v) \in Nat /\ DepthAt(c, v) <= 4 * c
<1> DEFINE T == {c \in Nat : \A v \in AnyValue : DepthAt(c, v) \in Nat /\ DepthAt(c, v) <= 4 * c}
<1>1. 0 \in T
  <2>1. \A v \in AnyValue : DepthAt(0, v) = 0
    BY CrossedParts
  <2> QED BY <2>1
<1>2. ASSUME NEW c \in Nat, c \in T PROVE c + 1 \in T
  <2>1. \A v \in AnyValue : DepthAt(c, v) \in Nat /\ DepthAt(c, v) <= 4 * c
    BY <1>2
  <2> SUFFICES ASSUME NEW v \in AnyValue
               PROVE  DepthAt(c + 1, v) \in Nat /\ DepthAt(c + 1, v) <= 4 * (c + 1)
    OBVIOUS
  <2>2. PICK b \in Nat : b = 4 * c
    OBVIOUS
  <2>3. CASE v \in Scalars \cup {Undef, Null}
    <3>1. c + 1 \in Nat
      OBVIOUS
    <3>2. DepthAt(c + 1, v) = 0
      BY <2>3, <3>1, CrossedParts
    <3> QED BY <3>2
  <2>4. ASSUME NEW m \in Nat, m + 1 <= Nesting, ObjectOf(m, v)
        PROVE  DepthAt(c + 1, v) \in Nat /\ DepthAt(c + 1, v) <= 4 * (c + 1)
    <3>1. DepthAt(c + 1, v) = Deep(CrossedAt[c], 3, InsideValues(v))
      BY <2>4, CrossedParts
    <3>2. \A x \in InsideValues(v) : x \in AnyValue
      BY <2>4, InsideObject, NestedHeld DEF InsideValues
    <3>3. \A x \in InsideValues(v) : CrossedAt[c][x].depth \in Nat /\ CrossedAt[c][x].depth <= b
      BY <2>1, <2>2, <3>2 DEF DepthAt
    <3>4. /\ Deep(CrossedAt[c], 3, InsideValues(v)) \in Nat
          /\ Deep(CrossedAt[c], 3, InsideValues(v)) <= 1 + 3 + b
      BY <3>3, DeepIs
    <3> QED BY <2>2, <3>1, <3>4
  <2>5. ASSUME NEW m \in Nat, m + 1 <= Nesting, ListOf(m, v)
        PROVE  DepthAt(c + 1, v) \in Nat /\ DepthAt(c + 1, v) <= 4 * (c + 1)
    <3> DEFINE S == InsideItems(v)
    <3>1. DepthAt(c + 1, v) = Deep(CrossedAt[c], 2, S)
      BY <2>5, CrossedParts
    <3>2. \A x \in S : x \in AnyValue
      <4>1. v[2] \in Seq(Values[m])
        BY <2>5, TypesOfValues
      <4>2. Values[m] \subseteq AnyValue
        BY <2>5, NestedHeld
      <4> QED BY <4>1, <4>2 DEF InsideItems
    <3> HIDE DEF S
    <3>3. \A x \in S : CrossedAt[c][x].depth \in Nat /\ CrossedAt[c][x].depth <= b
      BY <2>1, <2>2, <3>2 DEF DepthAt
    <3>4. Deep(CrossedAt[c], 2, S) \in Nat /\ Deep(CrossedAt[c], 2, S) <= 1 + 2 + b
      BY <3>3, DeepIs
    <3> QED BY <2>2, <3>1, <3>4
  <2> QED BY <2>3, <2>4, <2>5, InsideAny
<1> HIDE DEF T
<1>3. \A c \in Nat : c \in T
  BY <1>1, <1>2, NaturalsAreReached
<1> QED BY <1>3 DEF T

\* How deep an object is, by its values, and an array by its items.
LEMMA NestedDepth ==
  ASSUME NEW m \in Nat, m + 1 <= Nesting, NEW o, NEW c \in Nat, NEW r \in Int
  PROVE  /\ ObjectOf(m, o) =>
              (DepthAt(c + 1, o) < r <=>
                 1 < r /\ \A k \in Kept(Keyed(o)) : 3 + DepthAt(c, Keyed(o)[k]) < r)
         /\ ListOf(m, o) =>
              (DepthAt(c + 1, o) < r <=>
                 1 < r /\ \A i \in 1..Len(o[2]) : 2 + DepthAt(c, o[2][i]) < r)
<1>1. PICK b \in Nat : b = 4 * c
  OBVIOUS
<1>2. ASSUME ObjectOf(m, o)
      PROVE  DepthAt(c + 1, o) < r <=>
               1 < r /\ \A k \in Kept(Keyed(o)) : 3 + DepthAt(c, Keyed(o)[k]) < r
  <2>1. DepthAt(c + 1, o) = Deep(CrossedAt[c], 3, InsideValues(o))
    BY <1>2, CrossedParts
  <2>2. \A x \in InsideValues(o) : x \in AnyValue
    BY <1>2, InsideObject, NestedHeld DEF InsideValues
  <2>3. \A x \in InsideValues(o) : CrossedAt[c][x].depth \in Nat /\ CrossedAt[c][x].depth <= b
    BY <1>1, <2>2, DepthBounds DEF DepthAt
  <2>4. Deep(CrossedAt[c], 3, InsideValues(o)) < r <=>
          1 < r /\ \A x \in InsideValues(o) : 3 + CrossedAt[c][x].depth < r
    BY <2>3, DeepIs
  <2>5. (\A x \in InsideValues(o) : 3 + CrossedAt[c][x].depth < r) <=>
          \A k \in Kept(Keyed(o)) : 3 + DepthAt(c, Keyed(o)[k]) < r
    BY DEF InsideValues, DepthAt
  <2> QED BY <2>1, <2>4, <2>5
<1>3. ASSUME ListOf(m, o)
      PROVE  DepthAt(c + 1, o) < r <=>
               1 < r /\ \A i \in 1..Len(o[2]) : 2 + DepthAt(c, o[2][i]) < r
  <2> DEFINE S == InsideItems(o)
  <2>1. DepthAt(c + 1, o) = Deep(CrossedAt[c], 2, S)
    BY <1>3, CrossedParts
  <2>2. o[2] \in Seq(Values[m]) /\ Values[m] \subseteq AnyValue
    BY <1>3, TypesOfValues, NestedHeld
  <2>3. \A x \in S : x \in AnyValue
    BY <2>2 DEF InsideItems
  <2>4. \A x \in S : CrossedAt[c][x].depth \in Nat /\ CrossedAt[c][x].depth <= b
    <3> HIDE DEF S
    <3> QED BY <1>1, <2>3, DepthBounds DEF DepthAt
  <2>5. Deep(CrossedAt[c], 2, S) < r <=> 1 < r /\ \A x \in S : 2 + CrossedAt[c][x].depth < r
    <3> HIDE DEF S
    <3> QED BY <2>4, DeepIs
  <2>6. (\A x \in S : 2 + CrossedAt[c][x].depth < r) <=>
          \A i \in 1..Len(o[2]) : 2 + DepthAt(c, o[2][i]) < r
    <3>1. DOMAIN o[2] = 1..Len(o[2])
      BY <2>2
    <3> QED BY <3>1 DEF DepthAt, InsideItems
  <2> QED BY <2>1, <2>5, <2>6
<1> QED BY <1>2, <1>3

-----------------------------------------------------------------------------
(* What is decoded of an encoded value: the value that crosses, exactly    *)
(* when it is not too deep.                                                *)

CrossesAs(d, value, depth, r) ==
  /\ d.ok <=> depth < r
  /\ d.ok => ValueUnwrap(d.message) = value

ValueCrosses(m) ==
  \A v \in Values[m] : \A n, c, r \in Nat :
    n >= 3 * m + 1 /\ c >= m =>
      CrossesAs(Opened("Value", v, EncodeAt[n], DecodeAt[r]), ValueAt(c, v), DepthAt(c, v), r)

\* What crosses is not undefined if it was not.
LEMMA CrossedDefined ==
  ASSUME NEW v \in AnyValue, v # Undef, NEW c \in Nat
  PROVE  ValueAt(c, v) # Undef
<1>1. CASE c = 0
  BY <1>1, CrossedParts
<1>2. CASE v \in Scalars \cup {Undef, Null}
  BY <1>2, CrossedParts
<1>3. ASSUME NEW m \in Nat, m + 1 <= Nesting, ObjectOf(m, v) \/ ListOf(m, v), c # 0
      PROVE  ValueAt(c, v) # Undef
  <2>1. PICK p \in Nat : c = p + 1
    <3>1. c - 1 \in Nat /\ c = c - 1 + 1
      BY <1>3
    <3> QED BY <3>1
  <2>2. ValueAt(c, v) = CrossedObject(p, v) \/ ValueAt(c, v) = CrossedArray(p, v)
    BY <1>3, <2>1, CrossedParts
  <2>3. CrossedObject(p, v)[1] = "object" /\ CrossedArray(p, v)[1] = "array"
    BY DEF CrossedObject, CrossedArray, Obj, List
  <2>4. Undef[1] = "undefined"
    BY Tags
  <2> QED BY <2>2, <2>3, <2>4
<1> QED BY <1>1, <1>2, <1>3, InsideAny

\* What an entry is encoded as.
LEMMA EntryEncoded ==
  ASSUME NEW k \in Keys, NEW x \in AnyValue, NEW n \in Nat
  PROVE  EncodeAt[n + 1][<<"Struct_FieldsEntry", Msg([key |-> Str(k), value |-> x])>>] =
           Fields("Struct_FieldsEntry", [key |-> Str(k), value |-> x], EncodeAt[n])
<1> DEFINE m == [key |-> Str(k), value |-> x]
           type == "Struct_FieldsEntry"
<1>1. n + 1 \in Nat /\ n + 1 # 0 /\ n + 1 - 1 = n
  OBVIOUS
<1>2. Wrap(type, Msg(m)) = m
  BY DEF Wrap, Msg
<1>3. Msg(m) \in Held
  BY HeldValues
<1> HIDE DEF m
<1>4. EncodeAt[n + 1][<<type, Msg(m)>>] = Fields(type, m, EncodeAt[n])
  BY <1>1, <1>2, <1>3, EncodeStep, EntrySchema
<1> QED BY <1>4 DEF m

\* There are three levels for each object, and one more.
LEMMA LevelsAre == Levels \in Nat /\ Levels = 3 * Nesting + 1
BY ValuesAssumption DEF Levels

\* An entry crosses: its key is kept, and its value crosses a level deeper.
LEMMA EntryCrosses ==
  ASSUME NEW m \in Nat, m <= Nesting, ValueCrosses(m), NEW k \in Keys, NEW x \in Values[m], x # Undef,
         NEW p \in Nat, p >= 3 * m + 1, NEW c \in Nat, c >= m, NEW r \in Nat
  PROVE  LET e == Opened("Struct_FieldsEntry", Msg([key |-> Str(k), value |-> x]),
                         EncodeAt[p + 1], DecodeAt[r])
         IN  /\ e.ok <=> 1 + DepthAt(c, x) < r
             /\ e.ok => e.message.key[2] = k /\ e.message.value = ValueAt(c, x)
<1> DEFINE type == "Struct_FieldsEntry"
           y == [key |-> Str(k), value |-> x]
           w == EncodeAt[p + 1][<<type, Msg(y)>>]
           e == DecodeAt[r][<<type, w>>]
<1>1. x \in AnyValue /\ DepthAt(c, x) \in Nat
  BY HeldValues, DepthBounds
<1>2. w = Fields(type, y, EncodeAt[p])
  BY <1>1, EntryEncoded
<1>3. w \in Wires[Levels]
  <2>1. 3 * m \in Nat /\ 3 * m + 1 \in Nat /\ 3 * m + 1 <= Levels /\ Levels \in Nat
    BY LevelsAre, ValuesAssumption
  <2>2. EncodeAt[p][<<"Value", x>>] \in Wires[3 * m]
    BY ValueWires DEF ValueHasWire
  <2>3. w \in Wires[3 * m + 1]
    BY <1>1, <2>1, <2>2, EntryWire
  <2> HIDE DEF w
  <2> QED BY <2>1, <2>3, WiresBelow
<1>4. e = Opened(type, Msg(y), EncodeAt[p + 1], DecodeAt[r])
  BY DEF Opened
<1> HIDE DEF w
<1>5. CASE r = 0
  <2>1. e = Failed(type)
    BY <1>3, <1>5, DecodeStep, EntrySchema
  <2>2. ~e.ok /\ ~(1 + DepthAt(c, x) < r)
    BY <2>1, <1>1, <1>5 DEF Failed
  <2> QED BY <1>4, <2>2
<1>6. CASE r # 0
  <2>1. PICK q \in Nat : r = q + 1
    <3>1. r - 1 \in Nat /\ r = r - 1 + 1
      BY <1>6
    <3> QED BY <3>1
  <2>2. r - 1 = q
    BY <2>1
  <2>3. e = ReadAll(type, DecodeAt[q], w)
    BY <1>3, <1>6, <2>2, DecodeStep, EntrySchema
  <2> DEFINE o == Opened("Value", x, EncodeAt[p], DecodeAt[q])
  <2>4. CrossesAs(o, ValueAt(c, x), DepthAt(c, x), q)
    BY DEF ValueCrosses
  <2>5. (o.ok <=> DepthAt(c, x) < q) /\ (o.ok => ValueUnwrap(o.message) = ValueAt(c, x))
    BY <2>4 DEF CrossesAs
  <2>6. /\ e.ok <=> o.ok
        /\ e.ok => e.message.key = Str(k) /\ e.message.value = ValueUnwrap(o.message)
    BY <1>2, <2>3, EntryRead
  <2> HIDE DEF e, o
  <2>7. 1 + DepthAt(c, x) < r <=> DepthAt(c, x) < q
    BY <1>1, <2>1
  <2>8. Str(k)[2] = k
    BY DEF Str
  <2> QED BY <1>4, <2>5, <2>6, <2>7, <2>8
<1> QED BY <1>5, <1>6

\* An object crosses: the keys with a value are kept, and each value crosses.
LEMMA ObjectCrosses ==
  ASSUME NEW m \in Nat, m + 1 <= Nesting, ValueCrosses(m), NEW o, ObjectOf(m, o),
         NEW n \in Nat, n >= 3 * m + 3, NEW c \in Nat, c >= m, NEW q \in Nat
  PROVE  LET d == Opened("Struct", o, EncodeAt[n], DecodeAt[q])
         IN  /\ d.ok <=> DepthAt(c + 1, o) < q + 1
             /\ d.ok => Obj(d.message.fields) = ValueAt(c + 1, o)
<1> DEFINE v == Keyed(o)
           w == EncodeAt[n][<<"Struct", o>>]
           d == DecodeAt[q][<<"Struct", w>>]
<1>1. /\ w = Fields("Struct", [fields |-> v], EncodeAt[n - 1])
      /\ w \in Wires[3 * m + 2]
  <2>1. ValueHasWire(m)
    BY ValueWires, ValuesAssumption
  <2> QED BY <2>1, StructHasWire
<1>2. w \in Wires[Levels]
  <2>1. 3 * m + 2 \in Nat /\ 3 * m + 2 <= Levels /\ Levels \in Nat
    BY LevelsAre, ValuesAssumption
  <2> HIDE DEF w
  <2> QED BY <1>1, <2>1, WiresBelow
<1>3. d = Opened("Struct", o, EncodeAt[n], DecodeAt[q])
  BY DEF Opened
<1>4. DepthAt(c + 1, o) < q + 1 <=> 1 < q + 1 /\ \A k \in Kept(v) : 3 + DepthAt(c, v[k]) < q + 1
  <2>1. PICK r \in Int : r = q + 1
    OBVIOUS
  <2>2. DepthAt(c + 1, o) < r <=> 1 < r /\ \A k \in Kept(Keyed(o)) : 3 + DepthAt(c, Keyed(o)[k]) < r
    BY NestedDepth
  <2> QED BY <2>1, <2>2
<1>5. \A k \in Kept(v) : v[k] \in Values[m] /\ v[k] # Undef /\ k \in Keys
  BY InsideObject
<1>6. m <= Nesting /\ Values[m] \subseteq AnyValue
  BY NestedHeld, ValuesAssumption
<1> HIDE DEF w, v
<1>7. CASE q = 0
  <2>1. d = Failed("Struct")
    BY <1>2, <1>7, DecodeStep, OneField
  <2>2. ~d.ok
    BY <2>1 DEF Failed
  <2> QED BY <1>3, <1>4, <1>7, <2>2 DEF v
<1>8. CASE q # 0
  <2>1. PICK p \in Nat : n = p + 2 /\ p >= 3 * m + 1 /\ n - 1 = p + 1
    <3>1. n - 2 \in Nat /\ n = n - 2 + 2 /\ n - 2 >= 3 * m + 1 /\ n - 1 = n - 2 + 1
      OBVIOUS
    <3> QED BY <3>1
  <2>2. PICK s \in Nat : q = s + 1 /\ q - 1 = s
    <3>1. q - 1 \in Nat /\ q = q - 1 + 1
      BY <1>8
    <3> QED BY <3>1
  <2> DEFINE enc == EncodeAt[p + 1]
             dec == DecodeAt[s]
             got == [k \in Keys |-> ValueAt(c, v[k])]
             E(k) == Opened("Struct_FieldsEntry", EntryOf(v, k), enc, dec)
  <2>3. d = ReadAll("Struct", dec, Fields("Struct", [fields |-> v], enc))
    <3>1. d = ReadAll("Struct", DecodeAt[q - 1], w)
      BY <1>2, <1>8, DecodeStep, OneField
    <3> QED BY <3>1, <1>1, <2>1, <2>2
  <2>4. ASSUME NEW k \in Kept(v)
        PROVE  /\ E(k).ok <=> 1 + DepthAt(c, v[k]) < s
               /\ E(k).ok => E(k).message.key[2] = k /\ E(k).message.value = ValueAt(c, v[k])
    <3>1. v[k] \in Values[m] /\ v[k] # Undef /\ k \in Keys
      BY <1>5
    <3>2. EntryOf(v, k) = Msg([key |-> Str(k), value |-> v[k]])
      BY DEF EntryOf
    <3> DEFINE x == v[k]
    <3> HIDE DEF x
    <3>3. x \in Values[m] /\ x # Undef /\ k \in Keys /\ EntryOf(v, k) = Msg([key |-> Str(k), value |-> x])
      BY <3>1, <3>2 DEF x
    <3> DEFINE e == Opened("Struct_FieldsEntry", Msg([key |-> Str(k), value |-> x]), enc, dec)
    <3>4. /\ e.ok <=> 1 + DepthAt(c, x) < s
          /\ e.ok => e.message.key[2] = k /\ e.message.value = ValueAt(c, x)
      BY <1>6, <2>1, <3>3, EntryCrosses
    <3>5. e = E(k)
      BY <3>3
    <3> HIDE DEF e, E
    <3> QED BY <3>4, <3>5 DEF x
  <2> HIDE DEF enc, dec
  <2>5. \A k \in Kept(v) : got[k] # Undef /\ got[k] = ValueAt(c, v[k])
    <3> SUFFICES ASSUME NEW k \in Kept(v) PROVE got[k] # Undef /\ got[k] = ValueAt(c, v[k])
      OBVIOUS
    <3>1. v[k] \in AnyValue /\ v[k] # Undef /\ k \in Keys
      BY <1>5, <1>6
    <3> QED BY <3>1, CrossedDefined
  <2>6. EntriesRead(v, got, enc, dec)
    <3> HIDE DEF got
    <3> QED BY <2>4, <2>5 DEF EntriesRead
  <2> DEFINE F == [k \in Keys |-> IF k \in Kept(v) THEN got[k] ELSE Absent]
  <2>7. d = IF \A k \in Kept(v) : E(k).ok THEN Going(Holder("fields", F)) ELSE Failed("Struct")
    <3> HIDE DEF got
    <3> QED BY <2>3, <2>6, KeptFinite, StructRead
  <2>8. Obj(F) = CrossedObject(c, o)
    <3>1. F = [k \in Keys |-> IF k \in Kept(Keyed(o)) THEN ValueAt(c, Keyed(o)[k]) ELSE Absent]
      BY DEF v
    <3> QED BY <3>1 DEF CrossedObject
  <2> HIDE DEF got, F
  <2>9. (\A k \in Kept(v) : E(k).ok) <=> DepthAt(c + 1, o) < q + 1
    <3>1. \A k \in Kept(v) : E(k).ok <=> 3 + DepthAt(c, v[k]) < q + 1
      <4> SUFFICES ASSUME NEW k \in Kept(v) PROVE E(k).ok <=> 3 + DepthAt(c, v[k]) < q + 1
        OBVIOUS
      <4>1. v[k] \in AnyValue
        BY <1>5, <1>6
      <4>2. DepthAt(c, v[k]) \in Nat
        BY <4>1, DepthBounds
      <4>3. 1 + DepthAt(c, v[k]) < s <=> 3 + DepthAt(c, v[k]) < q + 1
        BY <2>2, <4>2
      <4> QED BY <2>4, <4>3
    <3>2. 1 < q + 1
      BY <1>8
    <3> HIDE DEF E
    <3> QED BY <1>4, <3>1, <3>2
  <2>10. ValueAt(c + 1, o) = CrossedObject(c, o)
    BY CrossedParts
  <2> HIDE DEF E
  <2>11. CASE \A k \in Kept(v) : E(k).ok
    <3>1. d = Going(Holder("fields", F))
      BY <2>7, <2>11
    <3>2. d.ok /\ d.message.fields = F
      BY <3>1, GoingOn, HolderFields
    <3> QED BY <1>3, <2>8, <2>9, <2>10, <2>11, <3>2
  <2>12. CASE ~ \A k \in Kept(v) : E(k).ok
    <3>1. d = Failed("Struct")
      BY <2>7, <2>12
    <3>2. ~d.ok
      BY <3>1 DEF Failed
    <3> QED BY <1>3, <2>9, <2>12, <3>2
  <2> QED BY <2>11, <2>12
<1> QED BY <1>7, <1>8

\* An array crosses: each of its values does, in order.
LEMMA ArrayCrosses ==
  ASSUME NEW m \in Nat, m + 1 <= Nesting, ValueCrosses(m), NEW o, ListOf(m, o),
         NEW n \in Nat, n >= 3 * m + 2, NEW c \in Nat, c >= m, NEW q \in Nat
  PROVE  LET d == Opened("ListValue", o, EncodeAt[n], DecodeAt[q])
         IN  /\ d.ok <=> DepthAt(c + 1, o) < q + 1
             /\ d.ok => List(d.message.values) = ValueAt(c + 1, o)
<1> DEFINE s == o[2]
           w == EncodeAt[n][<<"ListValue", o>>]
           d == DecodeAt[q][<<"ListValue", w>>]
<1>1. /\ w = Fields("ListValue", [values |-> s], EncodeAt[n - 1])
      /\ w \in Wires[3 * m + 1]
      /\ s \in Seq(Values[m])
  <2>1. ValueHasWire(m)
    BY ValueWires, ValuesAssumption
  <2> QED BY <2>1, ListHasWire
<1>2. w \in Wires[Levels]
  <2>1. 3 * m + 1 \in Nat /\ 3 * m + 1 <= Levels /\ Levels \in Nat
    BY LevelsAre, ValuesAssumption
  <2> HIDE DEF w
  <2> QED BY <1>1, <2>1, WiresBelow
<1>3. d = Opened("ListValue", o, EncodeAt[n], DecodeAt[q])
  BY DEF Opened
<1>4. DepthAt(c + 1, o) < q + 1 <=> 1 < q + 1 /\ \A i \in 1..Len(s) : 2 + DepthAt(c, s[i]) < q + 1
  <2>1. PICK r \in Int : r = q + 1
    OBVIOUS
  <2>2. DepthAt(c + 1, o) < r <=> 1 < r /\ \A i \in 1..Len(o[2]) : 2 + DepthAt(c, o[2][i]) < r
    BY NestedDepth
  <2> QED BY <2>1, <2>2
<1>5. Len(s) \in Nat /\ DOMAIN s = 1..Len(s) /\ \A i \in 1..Len(s) : s[i] \in Values[m]
  BY <1>1
<1>6. m <= Nesting /\ Values[m] \subseteq AnyValue
  BY NestedHeld, ValuesAssumption
<1>7. ValueAt(c + 1, o) = List([i \in 1..Len(s) |-> ValueAt(c, s[i])])
  <2>1. ValueAt(c + 1, o) = CrossedArray(c, o)
    BY CrossedParts
  <2>2. CrossedArray(c, o) = List([i \in DOMAIN o[2] |-> ValueAt(c, o[2][i])])
    BY DEF CrossedArray
  <2> QED BY <2>1, <2>2, <1>5
<1> HIDE DEF w, s
<1>8. CASE q = 0
  <2>1. d = Failed("ListValue")
    BY <1>2, <1>8, DecodeStep, OneField
  <2>2. ~d.ok
    BY <2>1 DEF Failed
  <2> QED BY <1>3, <1>4, <1>8, <2>2
<1>9. CASE q # 0
  <2>1. PICK p \in Nat : n = p + 1 /\ p >= 3 * m + 1 /\ n - 1 = p
    <3>1. n - 1 \in Nat /\ n = n - 1 + 1 /\ n - 1 >= 3 * m + 1
      OBVIOUS
    <3> QED BY <3>1
  <2>2. PICK t \in Nat : q = t + 1 /\ q - 1 = t
    <3>1. q - 1 \in Nat /\ q = q - 1 + 1
      BY <1>9
    <3> QED BY <3>1
  <2> DEFINE enc == EncodeAt[p]
             dec == DecodeAt[t]
             E(i) == Opened("Value", s[i], enc, dec)
             F == [i \in 1..Len(s) |-> ValueUnwrap(E(i).message)]
  <2>3. d = ReadAll("ListValue", dec, Fields("ListValue", [values |-> s], enc))
    <3>1. d = ReadAll("ListValue", DecodeAt[q - 1], w)
      BY <1>2, <1>9, DecodeStep, OneField
    <3> QED BY <3>1, <1>1, <2>1, <2>2
  <2>4. ASSUME NEW i \in 1..Len(s)
        PROVE  /\ E(i).ok <=> DepthAt(c, s[i]) < t
               /\ E(i).ok => ValueUnwrap(E(i).message) = ValueAt(c, s[i])
    <3>1. s[i] \in Values[m]
      BY <1>5
    <3>2. CrossesAs(E(i), ValueAt(c, s[i]), DepthAt(c, s[i]), t)
      BY <3>1, <2>1 DEF ValueCrosses
    <3> HIDE DEF E
    <3> QED BY <3>2 DEF CrossesAs
  <2> HIDE DEF enc, dec
  <2>5. d = IF \A i \in 1..Len(s) : E(i).ok THEN Going(Holder("values", F)) ELSE Failed("ListValue")
    BY <2>3, <1>5, ListRead
  <2> HIDE DEF E
  <2>6. (\A i \in 1..Len(s) : E(i).ok) <=> DepthAt(c + 1, o) < q + 1
    <3>1. \A i \in 1..Len(s) : E(i).ok <=> 2 + DepthAt(c, s[i]) < q + 1
      <4> SUFFICES ASSUME NEW i \in 1..Len(s) PROVE E(i).ok <=> 2 + DepthAt(c, s[i]) < q + 1
        OBVIOUS
      <4>1. s[i] \in AnyValue
        BY <1>5, <1>6
      <4>2. DepthAt(c, s[i]) \in Nat
        BY <4>1, DepthBounds
      <4>3. DepthAt(c, s[i]) < t <=> 2 + DepthAt(c, s[i]) < q + 1
        BY <2>2, <4>2
      <4> QED BY <2>4, <4>3
    <3>2. 1 < q + 1
      BY <1>9
    <3> QED BY <1>4, <3>1, <3>2
  <2>7. CASE \A i \in 1..Len(s) : E(i).ok
    <3>1. F = [i \in 1..Len(s) |-> ValueAt(c, s[i])]
      BY <2>4, <2>7
    <3> HIDE DEF F
    <3>2. d = Going(Holder("values", F))
      BY <2>5, <2>7
    <3>3. d.ok /\ d.message.values = F
      BY <3>2, GoingOn, HolderFields
    <3> QED BY <1>3, <1>7, <2>6, <2>7, <3>1, <3>3
  <2>8. CASE ~ \A i \in 1..Len(s) : E(i).ok
    <3> HIDE DEF F
    <3>1. d = Failed("ListValue")
      BY <2>5, <2>8
    <3>2. ~d.ok
      BY <3>1 DEF Failed
    <3> QED BY <1>3, <2>6, <2>8, <3>2
  <2> QED BY <2>7, <2>8
<1> QED BY <1>8, <1>9

\* A Value with a nested message in it opens when that message does.
LEMMA NestedOpens ==
  ASSUME NEW name \in {"structValue", "listValue"}, NEW v, v # Undef, NEW enc, NEW dec
  PROVE  LET kind == ValueKind(name)
             d == ReadAll("Value", dec, Fields("Value", Only(name, v), enc))
             o == Opened(kind, v, enc, dec)
         IN  /\ d.ok <=> o.ok
             /\ d.ok => ValueUnwrap(d.message) =
                          IF kind = "Struct" THEN Obj(o.message.fields) ELSE List(o.message.values)
<1> DEFINE kind == ValueKind(name)
           f == FieldNamed("Value", name)
           d == ReadAll("Value", dec, Fields("Value", Only(name, v), enc))
           o == Opened(kind, v, enc, dec)
           x == IF kind = "Struct" THEN Obj(o.message.fields) ELSE List(o.message.values)
<1>1. /\ name \in ValueNames /\ name # "nullValue"
      /\ kind \in {"Struct", "ListValue"} /\ kind \in Types /\ f.kind = kind /\ Default(f) = Undef
  <2>1. name \in ValueNames /\ name # "nullValue" /\ kind \in {"Struct", "ListValue"}
    BY DEF ValueNames, ValueKind
  <2> HIDE DEF kind
  <2>2. f.kind = kind /\ Default(f) = Undef
    BY <2>1, ValueSchema DEF kind
  <2> QED BY <2>1, <2>2, OneField
<1> HIDE DEF kind, f
<1>2. d = IF FieldOk(f, v, enc, dec) THEN Going(Only(name, FieldGot(f, v, enc, dec))) ELSE Failed("Value")
  BY <1>1, ReadSet DEF f
<1>3. FieldOk(f, v, enc, dec) <=> o.ok
  BY <1>1 DEF FieldOk
<1>4. FieldGot(f, v, enc, dec) = x
  <2>1. FieldGot(f, v, enc, dec) = Unwrap(kind, o.message)
    BY <1>1 DEF FieldGot
  <2> HIDE DEF o
  <2>2. Unwrap(kind, o.message) = x
    BY <1>1 DEF Unwrap
  <2> QED BY <2>1, <2>2
<1>5. x # Undef
  <2>1. x[1] \in {"object", "array"}
    <3> HIDE DEF o
    <3> QED BY <1>1 DEF Obj, List
  <2> HIDE DEF x
  <2> QED BY <2>1, Tags
<1> HIDE DEF x, o, d
<1>6. ValueUnwrap(Only(name, x)) = x
  BY <1>1, <1>5, UnwrapOne
<1>7. (d.ok <=> o.ok) /\ (d.ok => ValueUnwrap(d.message) = x)
  <2>1. CASE o.ok
    BY <2>1, <1>2, <1>3, <1>4, <1>6, GoingOn
  <2>2. CASE ~o.ok
    BY <2>2, <1>2, <1>3 DEF Failed
  <2> QED BY <2>1, <2>2
<1> QED BY <1>7 DEF x, o, d, kind

\* A plain value crosses.
LEMMA PlainCrosses ==
  ASSUME NEW v \in Scalars \cup {Undef, Null}, NEW n \in Nat, n # 0, NEW c \in Nat, NEW r \in Nat
  PROVE  CrossesAs(Opened("Value", v, EncodeAt[n], DecodeAt[r]), ValueAt(c, v), DepthAt(c, v), r)
<1> DEFINE w == EncodeAt[n][<<"Value", v>>]
           d == DecodeAt[r][<<"Value", w>>]
<1>1. PICK p \in Nat : n = p + 1
  <2>1. n - 1 \in Nat /\ n = n - 1 + 1
    OBVIOUS
  <2> QED BY <2>1
<1>2. w = Fields("Value", ValueWrap(v), EncodeAt[p])
  BY <1>1, HeldValues, ValueEncoded
<1>3. w \in Wires[Levels]
  <2>1. w \in Wires[0]
    BY <1>1, PlainWire
  <2>2. 0 \in Nat /\ 0 <= Levels /\ Levels \in Nat
    BY LevelsAre, ValuesAssumption
  <2> HIDE DEF w
  <2> QED BY <2>1, <2>2, WiresBelow
<1>4. DepthAt(c, v) = 0 /\ ValueAt(c, v) = v
  BY CrossedParts
<1>5. d = Opened("Value", v, EncodeAt[n], DecodeAt[r])
  BY DEF Opened
<1> HIDE DEF w
<1>6. CASE r = 0
  <2>1. d = Failed("Value")
    BY <1>3, <1>6, DecodeStep, ValueSchema
  <2>2. ~d.ok
    BY <2>1 DEF Failed
  <2> QED BY <1>4, <1>5, <1>6, <2>2 DEF CrossesAs
<1>7. CASE r # 0
  <2> DEFINE dec == DecodeAt[r - 1]
  <2>1. d = ReadAll("Value", dec, Fields("Value", ValueWrap(v), EncodeAt[p]))
    BY <1>2, <1>3, <1>7, DecodeStep, ValueSchema
  <2> HIDE DEF dec, d
  <2>2. d.ok /\ ValueUnwrap(d.message) = v
    <3>1. CASE v = Undef
      <4>1. d = Going([m \in ValueNames |-> Undef])
        BY <2>1, <3>1, WrapOne, ReadUnset
      <4> QED BY <3>1, <4>1, GoingOn, UnwrapOne
    <3>2. ASSUME NEW name \in {"nullValue", "boolValue", "numberValue", "stringValue"}, NEW x, x # Undef,
                 ValueWrap(v) = Only(name, x)
          PROVE  d = Going(Only(name, x))
      <4> DEFINE f == FieldNamed("Value", name)
      <4>1. name \in ValueNames /\ f.kind \notin Types
        <5>1. name \in ValueNames /\ ValueKind(name) \in {"enum", "bool", "double", "string"}
          BY DEF ValueNames, ValueKind
        <5>2. f.kind = ValueKind(name)
          BY <5>1, ValueSchema
        <5> QED BY <5>1, <5>2, TypesAre DEF Messages15
      <4>2. FieldOk(f, x, EncodeAt[p], dec) /\ FieldGot(f, x, EncodeAt[p], dec) = x
        <5> HIDE DEF f
        <5> QED BY <4>1 DEF FieldOk, FieldGot
      <4> QED BY <2>1, <3>2, <4>1, <4>2, ReadSet
    <3>3. CASE v = Null
      <4>1. Num(0) # Undef
        BY DEF Num, Undef
      <4>2. d = Going(Only("nullValue", Num(0)))
        BY <3>2, <3>3, <4>1, WrapOne
      <4> QED BY <3>3, <4>1, <4>2, GoingOn, UnwrapOne
    <3>4. CASE v \in Scalars
      <4>1. ValueField(v) \in {"boolValue", "numberValue", "stringValue"} /\ v \notin {Undef, Null}
        BY <3>4, ValueFields
      <4>2. d = Going(Only(ValueField(v), v))
        BY <3>2, <4>1, WrapOne
      <4>3. ValueField(v) \in ValueNames /\ ValueField(v) # "nullValue"
        BY <4>1 DEF ValueNames
      <4> QED BY <4>1, <4>2, <4>3, GoingOn, UnwrapOne
    <3> QED BY <3>1, <3>3, <3>4
  <2>3. 0 < r
    BY <1>7
  <2> QED BY <1>4, <1>5, <2>2, <2>3 DEF CrossesAs
<1> QED BY <1>6, <1>7

\* An object or an array crosses inside a Value.
LEMMA NestedCrosses ==
  ASSUME NEW m \in Nat, m + 1 <= Nesting, ValueCrosses(m), NEW v, ObjectOf(m, v) \/ ListOf(m, v),
         NEW n \in Nat, n >= 3 * (m + 1) + 1, NEW c \in Nat, c >= m + 1, NEW r \in Nat
  PROVE  CrossesAs(Opened("Value", v, EncodeAt[n], DecodeAt[r]), ValueAt(c, v), DepthAt(c, v), r)
<1> DEFINE w == EncodeAt[n][<<"Value", v>>]
           d == DecodeAt[r][<<"Value", w>>]
<1>1. PICK p \in Nat : n = p + 1 /\ p >= 3 * m + 3
  <2>1. n - 1 \in Nat /\ n = n - 1 + 1 /\ n - 1 >= 3 * m + 3
    OBVIOUS
  <2> QED BY <2>1
<1>2. PICK b \in Nat : c = b + 1 /\ b >= m
  <2>1. c - 1 \in Nat /\ c = c - 1 + 1 /\ c - 1 >= m
    OBVIOUS
  <2> QED BY <2>1
<1>3. v \in AnyValue /\ v \in Values[m + 1] /\ v \notin {Undef, Null}
  BY NestedHeld, ValueFields DEF ObjectOf, ListOf
<1>4. w = Fields("Value", ValueWrap(v), EncodeAt[p]) /\ ValueWrap(v) = Only(ValueField(v), v)
  BY <1>1, <1>3, ValueEncoded, WrapOne
<1>5. w \in Wires[Levels]
  <2>1. m + 1 \in Nat /\ 3 * (m + 1) \in Nat /\ 3 * (m + 1) <= Levels /\ Levels \in Nat
    BY LevelsAre, ValuesAssumption
  <2>2. w \in Wires[3 * (m + 1)]
    BY <1>3, <2>1, ValueWires DEF ValueHasWire
  <2> HIDE DEF w
  <2> QED BY <2>1, <2>2, WiresBelow
<1>6. d = Opened("Value", v, EncodeAt[n], DecodeAt[r])
  BY DEF Opened
<1>7. DepthAt(c, v) \in Nat
  BY <1>3, DepthBounds
<1> HIDE DEF w
<1>8. CASE r = 0
  <2>1. d = Failed("Value")
    BY <1>5, <1>8, DecodeStep, ValueSchema
  <2>2. ~d.ok
    BY <2>1 DEF Failed
  <2> QED BY <1>6, <1>7, <1>8, <2>2 DEF CrossesAs
<1>9. CASE r # 0
  <2>1. PICK q \in Nat : r = q + 1 /\ r - 1 = q
    <3>1. r - 1 \in Nat /\ r = r - 1 + 1
      BY <1>9
    <3> QED BY <3>1
  <2> DEFINE enc == EncodeAt[p]
             dec == DecodeAt[q]
             name == ValueField(v)
             o == Opened(ValueKind(name), v, enc, dec)
             x == IF ValueKind(name) = "Struct" THEN Obj(o.message.fields) ELSE List(o.message.values)
  <2>2. d = ReadAll("Value", dec, Fields("Value", Only(name, v), enc))
    BY <1>4, <1>5, <1>9, <2>1, DecodeStep, ValueSchema
  <2>3. (o.ok <=> DepthAt(c, v) < r) /\ (o.ok => x = ValueAt(c, v))
    <3>1. CASE ObjectOf(m, v)
      <4>1. name = "structValue" /\ ValueKind(name) = "Struct"
        BY <3>1, ValueFields DEF ObjectOf, ValueKind
      <4> DEFINE s == Opened("Struct", v, enc, dec)
      <4>2. /\ s.ok <=> DepthAt(b + 1, v) < q + 1
            /\ s.ok => Obj(s.message.fields) = ValueAt(b + 1, v)
        BY <1>1, <1>2, <3>1, ObjectCrosses
      <4>3. o = s /\ x = Obj(s.message.fields)
        BY <4>1
      <4> HIDE DEF s, o, x
      <4> QED BY <4>2, <4>3, <1>2, <2>1
    <3>2. CASE ListOf(m, v)
      <4>1. name = "listValue" /\ ValueKind(name) = "ListValue"
        BY <3>2, ValueFields DEF ListOf, ValueKind
      <4> DEFINE s == Opened("ListValue", v, enc, dec)
      <4>2. p >= 3 * m + 2
        BY <1>1
      <4>3. /\ s.ok <=> DepthAt(b + 1, v) < q + 1
            /\ s.ok => List(s.message.values) = ValueAt(b + 1, v)
        BY <4>2, <1>2, <3>2, ArrayCrosses
      <4>4. o = s /\ x = List(s.message.values)
        BY <4>1
      <4> HIDE DEF s, o, x
      <4> QED BY <4>3, <4>4, <1>2, <2>1
    <3> QED BY <3>1, <3>2
  <2>4. name \in {"structValue", "listValue"}
    BY ValueFields DEF ObjectOf, ListOf
  <2>5. v # Undef
    BY <1>3
  <2> HIDE DEF enc, dec, name
  <2> DEFINE e == ReadAll("Value", dec, Fields("Value", Only(name, v), enc))
  <2>6. (e.ok <=> o.ok) /\ (e.ok => ValueUnwrap(e.message) = x)
    BY <2>4, <2>5, NestedOpens
  <2>7. e = d
    BY <2>2
  <2> HIDE DEF e, o, x, d
  <2>8. (d.ok <=> DepthAt(c, v) < r) /\ (d.ok => ValueUnwrap(d.message) = ValueAt(c, v))
    BY <2>3, <2>6, <2>7
  <2> QED BY <2>8, <1>6 DEF CrossesAs
<1> QED BY <1>8, <1>9

\* A value of at most Nesting objects and arrays inside each other crosses the wire.
LEMMA ValuesCross == \A m \in Nat : m <= Nesting => ValueCrosses(m)
<1> DEFINE T == {m \in Nat : m <= Nesting => ValueCrosses(m)}
<1>1. 0 \in T
  <2> SUFFICES ASSUME NEW v \in Values[0], NEW n \in Nat, n >= 3 * 0 + 1, NEW c \in Nat, NEW r \in Nat
               PROVE  CrossesAs(Opened("Value", v, EncodeAt[n], DecodeAt[r]), ValueAt(c, v), DepthAt(c, v), r)
    BY DEF ValueCrosses
  <2>1. v \in Scalars \cup {Undef, Null}
    <3>1. 0 \in Nat
      OBVIOUS
    <3> QED BY <3>1, ValueCases
  <2>2. n # 0
    OBVIOUS
  <2> QED BY <2>1, <2>2, PlainCrosses
<1>2. ASSUME NEW m \in Nat, m \in T PROVE m + 1 \in T
  <2> SUFFICES ASSUME m + 1 <= Nesting,
                      NEW v \in Values[m + 1], NEW n \in Nat, NEW c \in Nat, NEW r \in Nat,
                      n >= 3 * (m + 1) + 1, c >= m + 1
               PROVE  CrossesAs(Opened("Value", v, EncodeAt[n], DecodeAt[r]), ValueAt(c, v), DepthAt(c, v), r)
    <3>1. m + 1 \in Nat
      OBVIOUS
    <3> QED BY <3>1 DEF ValueCrosses
  <2>1. ValueCrosses(m)
    <3>1. m <= Nesting
      BY ValuesAssumption
    <3> QED BY <1>2, <3>1
  <2>2. CASE v \in Scalars \cup {Undef, Null}
    <3>1. n # 0
      OBVIOUS
    <3> QED BY <2>2, <3>1, PlainCrosses
  <2>3. CASE v \in {Date} \cup Objects(Values[m]) \cup Lists(Values[m])
    <3>1. ObjectOf(m, v) \/ ListOf(m, v)
      BY <2>3 DEF ObjectOf, ListOf
    <3> QED BY <2>1, <3>1, NestedCrosses
  <2>4. m + 1 \in Nat /\ m + 1 - 1 = m
    OBVIOUS
  <2>5. \/ v \in Scalars \cup {Undef, Null}
        \/ v \in {Date} \cup Objects(Values[m]) \cup Lists(Values[m])
    BY <2>4, ValueCases
  <2> QED BY <2>2, <2>3, <2>5
<1> HIDE DEF T
<1>3. \A m \in Nat : m \in T
  BY <1>1, <1>2, NaturalsAreReached
<1> QED BY <1>3 DEF T

-----------------------------------------------------------------------------
(* The messages of the service: a request or a response, with one level of *)
(* messages inside at most.                                                *)

PlainTypes ==
  {"CreateQueueRequest", "PushRequest", "ListenQueueRequest", "DeleteQueueRequest",
   "HearthbeatRequest", "JobInfoRequest", "SuccessBoolResponse"}

InnerTypes == {"QueueConnectResponse", "JobDataResponse"}

CallTypes == PlainTypes \cup {"ListenQueueStreamResponse"}

PlainField(f) ==
  /\ f.alias = f.name
  /\ \/ f.rule = "implicit" /\ f.kind \in {"string", "bool", "int32"}
     \/ f.rule = "explicit" /\ f.kind = "Struct"

OuterField(f) == f.rule = "explicit" /\ f.kind \in InnerTypes

PlainSchema(type) ==
  /\ type \in Types /\ Singular(type)
  /\ \A i \in DOMAIN Schema[type] : PlainField(Schema[type][i])

\* The fields of the requests and the unary responses.
LEMMA PlainSchemas == \A type \in PlainTypes \cup InnerTypes : PlainSchema(type)
<1>1. ASSUME NEW type \in PlainTypes \cup InnerTypes,
             DOMAIN Schema[type] # {}, \A i \in DOMAIN Schema[type] : PlainField(Schema[type][i])
      PROVE  PlainSchema(type)
  <2>1. type \in Types
    BY TypesAre DEF Messages15, PlainTypes, InnerTypes
  <2> QED BY <1>1, <2>1 DEF PlainSchema, Singular, PlainField
<1>2. PlainSchema("CreateQueueRequest")
  <2>1. Schema["CreateQueueRequest"] = <<Field("queueName", "string", "implicit")>>
    BY DEF Schema, CreateQueueRequest
  <2> QED BY <1>1, <2>1 DEF PlainTypes, PlainField, Field
<1>3. PlainSchema("PushRequest")
  <2>1. Schema["PushRequest"] = <<Field("queueId", "string", "implicit"),
                                  Field("jobData", "Struct", "explicit"),
                                  Field("metadata", "Struct", "explicit")>>
    BY DEF Schema, PushRequest
  <2> QED BY <1>1, <2>1 DEF PlainTypes, PlainField, Field
<1>4. PlainSchema("ListenQueueRequest")
  <2>1. Schema["ListenQueueRequest"] = <<Field("queue", "string", "implicit"),
                                         Field("concurrency", "int32", "implicit")>>
    BY DEF Schema, ListenQueueRequest
  <2> QED BY <1>1, <2>1 DEF PlainTypes, PlainField, Field
<1>5. PlainSchema("DeleteQueueRequest")
  <2>1. Schema["DeleteQueueRequest"] = <<Field("queueId", "string", "implicit")>>
    BY DEF Schema, DeleteQueueRequest
  <2> QED BY <1>1, <2>1 DEF PlainTypes, PlainField, Field
<1>6. PlainSchema("HearthbeatRequest")
  <2>1. Schema["HearthbeatRequest"] = <<Field("worker", "string", "implicit")>>
    BY DEF Schema, HearthbeatRequest
  <2> QED BY <1>1, <2>1 DEF PlainTypes, PlainField, Field
<1>7. PlainSchema("JobInfoRequest")
  <2>1. Schema["JobInfoRequest"] = <<Field("jobID", "string", "implicit"),
                                     Field("workerID", "string", "implicit")>>
    BY DEF Schema, JobInfoRequest
  <2> QED BY <1>1, <2>1 DEF PlainTypes, PlainField, Field
<1>8. PlainSchema("SuccessBoolResponse")
  <2>1. Schema["SuccessBoolResponse"] = <<Field("success", "bool", "implicit")>>
    BY DEF Schema, SuccessBoolResponse
  <2> QED BY <1>1, <2>1 DEF PlainTypes, PlainField, Field
<1>9. PlainSchema("QueueConnectResponse")
  <2>1. Schema["QueueConnectResponse"] = <<Field("workerId", "string", "implicit")>>
    BY DEF Schema, QueueConnectResponse
  <2> QED BY <1>1, <2>1 DEF InnerTypes, PlainField, Field
<1>10. PlainSchema("JobDataResponse")
  <2>1. Schema["JobDataResponse"] = <<Field("jobData", "Struct", "explicit")>>
    BY DEF Schema, JobDataResponse
  <2> QED BY <1>1, <2>1 DEF InnerTypes, PlainField, Field
<1> QED BY <1>2, <1>3, <1>4, <1>5, <1>6, <1>7, <1>8, <1>9, <1>10 DEF PlainTypes, InnerTypes

\* The fields of the response on the stream.
LEMMA StreamSchema ==
  /\ "ListenQueueStreamResponse" \in Types /\ Singular("ListenQueueStreamResponse")
  /\ \A i \in DOMAIN Schema["ListenQueueStreamResponse"] :
       OuterField(Schema["ListenQueueStreamResponse"][i])
<1> DEFINE type == "ListenQueueStreamResponse"
           S == Schema[type]
<1>1. S = <<Aliased(Field("queueConnectResponse", "QueueConnectResponse", "explicit"),
                    "queue_connect_response"),
            Aliased(Field("jobDataResponse", "JobDataResponse", "explicit"), "job_data_response")>>
  BY DEF Schema, ListenQueueStreamResponse
<1>2. type \in Types
  BY TypesAre DEF Messages15
<1> HIDE DEF S
<1>3. /\ DOMAIN S = 1..2
      /\ S[1].rule = "explicit" /\ S[1].kind = "QueueConnectResponse"
      /\ S[2].rule = "explicit" /\ S[2].kind = "JobDataResponse"
  BY <1>1 DEF Field, Aliased
<1>4. \A i \in DOMAIN S : OuterField(S[i])
  BY <1>3 DEF OuterField, InnerTypes
<1>5. \A i \in DOMAIN S : S[i].rule \in {"implicit", "explicit"}
  BY <1>3
<1> QED BY <1>2, <1>3, <1>4, <1>5 DEF S, Singular

\* Every field of a message of the service holds a value or one of the messages inside.
CallFields(type) ==
  /\ type \in Types /\ Singular(type) /\ FieldNames(type) # {}
  /\ \A name \in FieldNames(type) :
       PlainField(FieldNamed(type, name)) \/ OuterField(FieldNamed(type, name))

\* The fields of every message of the service.
LEMMA CallSchemas ==
  /\ \A type \in CallTypes \cup InnerTypes : CallFields(type)
  /\ \A type \in PlainTypes \cup InnerTypes : \A name \in FieldNames(type) :
       PlainField(FieldNamed(type, name))
<1>1. ASSUME NEW type \in Types, Singular(type)
      PROVE  /\ FieldNames(type) # {}
             /\ \A name \in FieldNames(type) : \E i \in DOMAIN Schema[type] :
                  FieldNamed(type, name) = Schema[type][i]
  <2>1. DOMAIN Schema[type] # {}
    BY <1>1 DEF Singular
  <2> QED BY <2>1, Places
<1>2. \A type \in PlainTypes \cup InnerTypes :
        CallFields(type) /\ \A name \in FieldNames(type) : PlainField(FieldNamed(type, name))
  BY <1>1, PlainSchemas DEF PlainSchema, CallFields
<1>3. CallFields("ListenQueueStreamResponse")
  BY <1>1, StreamSchema DEF CallFields
<1> QED BY <1>2, <1>3 DEF CallTypes

\* The types of the methods.
LEMMA MethodTypes ==
  ASSUME NEW mth \in DOMAIN QueueService, NEW l \in {"request", "response"}
  PROVE  TypeOf(mth, l) \in CallTypes
<1>1. mth \in {"createQueue", "push", "listenQueue", "deleteQueue", "hearthbeat", "ack", "error"}
  BY DEF QueueService
<1> QED BY <1>1 DEF QueueService, TypeOf, CallTypes, PlainTypes

\* What a field may hold, by its tag.
LEMMA HeldByTag ==
  ASSUME NEW v \in Held
  PROVE  /\ \/ v \in AnyValue /\ Type(v) # "message"
            \/ /\ Type(v) = "message" /\ v = Msg(v[2])
               /\ \A name \in DOMAIN v[2] : v[2][name] \in AnyValue
         /\ Type(v) \in {"string", "boolean", "number"} => v \in Scalars
         /\ Type(v) = "object" => \E m \in Nat : m + 1 <= Nesting /\ ObjectOf(m, v)
         /\ Type(v) = "undefined" => v = Undef
<1>1. CASE v \in AnyValue
  <2>1. CASE v \in Scalars \cup {Undef, Null}
    <3>1. Type(v) \in {"boolean", "number", "string", "undefined", "null"}
      BY <2>1, TypesOfValues
    <3>2. Type(v) = "undefined" => v = Undef
      BY <2>1, Tags DEF Type
    <3>3. Type(v) \in {"string", "boolean", "number"} => v \in Scalars
      BY <2>1, Tags DEF Type
    <3> QED BY <1>1, <3>1, <3>2, <3>3
  <2>2. ASSUME NEW m \in Nat, m + 1 <= Nesting, ObjectOf(m, v) \/ ListOf(m, v)
        PROVE  /\ v \in AnyValue /\ Type(v) \in {"date", "object", "array"}
               /\ Type(v) = "object" => ObjectOf(m, v)
    BY <1>1, <2>2, TypesOfValues
  <2> QED BY <1>1, <2>1, <2>2, InsideAny
<1>2. ASSUME NEW type, v \in Holding(type)
      PROVE  /\ Type(v) = "message" /\ v = Msg(v[2])
             /\ \A name \in DOMAIN v[2] : v[2][name] \in AnyValue
  BY <1>2 DEF Holding, Type, Msg
<1> QED BY <1>1, <1>2 DEF Held

Bodies(q) == IF q = 0 THEN Scalars ELSE Enclosed(q - 1)

\* Wires as sequences of fields over bodies.
LEMMA BodiesWires ==
  /\ \A q \in Nat : Wires[q] = Seq(TaggedFields(Bodies(q)))
  /\ \A q \in Nat : Scalars \subseteq Bodies(q)
  /\ \A q \in Nat : {"bytes"} \X Wires[q] \subseteq Bodies(q + 1)
  /\ \A q \in Nat : Bodies(q) \subseteq Bodies(q + 1)
<1>1. \A q \in Nat : \A p \in Nat : q = p + 1 => Bodies(q) = Enclosed(p)
  BY DEF Bodies
<1>2. \A q \in Nat : q = 0 \/ \E p \in Nat : q = p + 1
  <2> SUFFICES ASSUME NEW q \in Nat, q # 0 PROVE \E p \in Nat : q = p + 1
    OBVIOUS
  <2>1. q - 1 \in Nat /\ q = q - 1 + 1
    OBVIOUS
  <2> QED BY <2>1
<1>3. Bodies(0) = Scalars
  BY DEF Bodies
<1>4. Wires[0] = Seq(TaggedFields(Scalars))
  BY WiresIs
<1>5. \A q \in Nat : Wires[q] = Seq(TaggedFields(Bodies(q)))
  <2> SUFFICES ASSUME NEW q \in Nat PROVE Wires[q] = Seq(TaggedFields(Bodies(q)))
    OBVIOUS
  <2>1. CASE q = 0
    BY <1>3, <1>4, <2>1
  <2>2. CASE q # 0
    <3>1. PICK p \in Nat : q = p + 1
      BY <1>2, <2>2
    <3> QED BY <1>1, <3>1, EnclosedWires
  <2> QED BY <2>1, <2>2
<1>6. \A q \in Nat : Scalars \subseteq Bodies(q)
  BY DEF Bodies, Enclosed
<1>7. \A q \in Nat : {"bytes"} \X Wires[q] \subseteq Bodies(q + 1)
  <2> SUFFICES ASSUME NEW q \in Nat PROVE {"bytes"} \X Wires[q] \subseteq Bodies(q + 1)
    OBVIOUS
  <2>1. q + 1 \in Nat
    OBVIOUS
  <2>2. Bodies(q + 1) = Enclosed(q)
    BY <1>1, <2>1
  <2> QED BY <2>2 DEF Enclosed
<1>8. \A q \in Nat : Bodies(q) \subseteq Bodies(q + 1)
  <2> SUFFICES ASSUME NEW q \in Nat PROVE Bodies(q) \subseteq Bodies(q + 1)
    OBVIOUS
  <2>1. q + 1 \in Nat
    OBVIOUS
  <2>2. CASE q = 0
    BY <1>3, <1>6, <2>1, <2>2
  <2>3. CASE q # 0
    <3>1. PICK p \in Nat : q = p + 1
      BY <1>2, <2>3
    <3>2. Wires[p] \subseteq Wires[p + 1]
      BY WiresGrow
    <3>3. Bodies(q) = Enclosed(p) /\ Bodies(q + 1) = Enclosed(p + 1)
      BY <1>1, <2>1, <3>1
    <3> QED BY <3>2, <3>3 DEF Enclosed
  <2> QED BY <2>2, <2>3
<1> QED BY <1>5, <1>6, <1>7, <1>8

\* The value v of the field f has a body in B, and comes out as got when it is not too deep.
FieldCrosses(f, v, enc, dec, depth, got, limit, B) ==
  /\ FieldOk(f, v, enc, dec) <=> depth < limit
  /\ FieldOk(f, v, enc, dec) => FieldGot(f, v, enc, dec) = got
  /\ v # Default(f) => Body(f.kind, v, enc) \in B

\* A field without a message of the service inside crosses with its value.
LEMMA PlainFieldCrosses ==
  ASSUME NEW f, PlainField(f), NEW v \in Held, Fits(f, v), NEW n \in Nat, n >= 3 * Nesting,
         NEW q \in Nat
  PROVE  /\ FieldCrosses(f, v, EncodeAt[n], DecodeAt[q], DepthAt(Nesting, v), ValueAt(Nesting, v),
                         q + 1, Bodies(3 * Nesting))
         /\ v \in AnyValue /\ Type(v) # "message"
<1> DEFINE enc == EncodeAt[n]
           dec == DecodeAt[q]
           B == Bodies(3 * Nesting)
<1>1. Nesting \in Nat /\ 3 * Nesting \in Nat /\ 0 < q + 1
  BY ValuesAssumption
<1>2. ASSUME v \in Scalars \cup {Undef}, f.kind \notin Types \/ v = Default(f),
             v # Default(f) => f.kind \notin Types /\ v \in Scalars
      PROVE  /\ FieldCrosses(f, v, enc, dec, DepthAt(Nesting, v), ValueAt(Nesting, v), q + 1, B)
             /\ v \in AnyValue /\ Type(v) # "message"
  <2>1. DepthAt(Nesting, v) = 0 /\ ValueAt(Nesting, v) = v
    BY <1>1, <1>2, CrossedParts
  <2>2. v \in AnyValue /\ Type(v) # "message"
    BY <1>2, HeldValues, TypesOfValues
  <2>3. FieldOk(f, v, enc, dec) /\ FieldGot(f, v, enc, dec) = v
    BY <1>2 DEF FieldOk, FieldGot
  <2>4. v # Default(f) => Body(f.kind, v, enc) \in B
    <3>1. Scalars \subseteq B
      BY <1>1, BodiesWires
    <3> HIDE DEF B
    <3> QED BY <1>2, <3>1 DEF Body
  <2> HIDE DEF enc, dec, B
  <2> QED BY <1>1, <2>1, <2>2, <2>3, <2>4 DEF FieldCrosses
<1>3. CASE f.rule = "implicit" /\ f.kind \in {"string", "bool", "int32"}
  <2>1. f.kind \notin Types
    BY <1>3, TypesAre DEF Messages15
  <2>2. Type(v) \in {"string", "boolean", "number"}
    BY <1>3 DEF Fits
  <2>3. v \in Scalars
    BY <2>2, HeldByTag
  <2> QED BY <1>2, <2>1, <2>3
<1>4. CASE f.rule = "explicit" /\ f.kind = "Struct"
  <2>1. Default(f) = Undef
    BY <1>4 DEF Default
  <2>2. CASE v = Undef
    BY <1>2, <2>1, <2>2
  <2>3. CASE v # Undef
    <3>1. Type(v) = "object"
      BY <1>4, <2>3 DEF Fits
    <3>2. PICK m \in Nat : m + 1 <= Nesting /\ ObjectOf(m, v)
      BY <3>1, HeldByTag
    <3>3. v \in AnyValue
      BY <3>2, NestedHeld
    <3>4. PICK c \in Nat : Nesting = c + 1 /\ c >= m
      <4>1. Nesting - 1 \in Nat /\ Nesting = Nesting - 1 + 1 /\ Nesting - 1 >= m
        BY <1>1, <3>2
      <4> QED BY <4>1
    <3>5. ValueCrosses(m) /\ ValueHasWire(m)
      BY <1>1, <3>2, ValuesCross, ValueWires
    <3>6. n >= 3 * m + 3
      BY <1>1, <3>2
    <3> DEFINE d == Opened("Struct", v, enc, dec)
    <3>7. (d.ok <=> DepthAt(Nesting, v) < q + 1) /\ (d.ok => Obj(d.message.fields) = ValueAt(Nesting, v))
      BY <3>2, <3>4, <3>5, <3>6, ObjectCrosses
    <3>8. "Struct" \in Types
      BY OneField
    <3>9. enc[<<"Struct", v>>] \in Wires[3 * Nesting - 1] /\ 3 * Nesting - 1 \in Nat
      <4>1. EncodeAt[n][<<"Struct", v>>] \in Wires[3 * m + 2]
        BY <3>2, <3>5, <3>6, StructHasWire
      <4>2. 3 * m + 2 \in Nat /\ 3 * Nesting - 1 \in Nat /\ 3 * m + 2 <= 3 * Nesting - 1
        BY <1>1, <3>2
      <4> DEFINE w == enc[<<"Struct", v>>]
      <4>3. w \in Wires[3 * m + 2]
        BY <4>1
      <4> HIDE DEF w
      <4>4. w \in Wires[3 * Nesting - 1]
        BY <4>2, <4>3, WiresBelow
      <4> QED BY <4>2, <4>4 DEF w
    <3>10. Body("Struct", v, enc) \in B
      <4>1. 3 * Nesting - 1 + 1 = 3 * Nesting
        BY <1>1
      <4>2. {"bytes"} \X Wires[3 * Nesting - 1] \subseteq B
        BY <3>9, <4>1, BodiesWires
      <4>3. Body("Struct", v, enc) = <<"bytes", enc[<<"Struct", v>>]>>
        BY <3>8 DEF Body, Bytes
      <4> HIDE DEF enc, B
      <4> QED BY <3>9, <4>2, <4>3
    <3> HIDE DEF enc, dec, B
    <3>11. FieldOk(f, v, enc, dec) <=> d.ok
      BY <1>4, <2>1, <2>3, <3>8 DEF FieldOk
    <3>12. FieldGot(f, v, enc, dec) = Obj(d.message.fields)
      <4>1. FieldGot(f, v, enc, dec) = Unwrap("Struct", d.message)
        BY <1>4, <2>1, <2>3, <3>8 DEF FieldGot
      <4> HIDE DEF d
      <4> QED BY <4>1 DEF Unwrap
    <3>13. Type(v) # "message"
      BY <3>1
    <3> HIDE DEF d
    <3>14. FieldCrosses(f, v, enc, dec, DepthAt(Nesting, v), ValueAt(Nesting, v), q + 1, B)
      BY <1>4, <3>7, <3>10, <3>11, <3>12 DEF FieldCrosses
    <3> QED BY <3>3, <3>13, <3>14 DEF enc, dec, B
  <2> QED BY <2>2, <2>3
<1> QED BY <1>3, <1>4 DEF PlainField

\* A message whose fields all cross is read with what they come out as.
LEMMA MessageReads ==
  ASSUME NEW type, Singular(type), NEW m, NEW enc, NEW dec, NEW depth, NEW got, NEW limit, NEW B,
         \A name \in FieldNames(type) :
           FieldCrosses(FieldNamed(type, name), m[name], enc, dec, depth[name], got[name], limit, B)
  PROVE  /\ Fields(type, m, enc) \in Seq(TaggedFields(B))
         /\ ReadAll(type, dec, Fields(type, m, enc)) =
              IF \A name \in FieldNames(type) : depth[name] < limit
              THEN Going([name \in FieldNames(type) |-> got[name]])
              ELSE Failed(type)
<1>1. type \in Types
  BY DEF Singular
<1>2. Fields(type, m, enc) \in Seq(TaggedFields(B))
  <2>1. \A name \in FieldNames(type) :
          m[name] # Default(FieldNamed(type, name)) => Body(FieldNamed(type, name).kind, m[name], enc) \in B
    BY DEF FieldCrosses
  <2> QED BY <2>1, SingularWire
<1> DEFINE len == Len(Schema[type])
           Fine == \A j \in 1..len : FieldOk(Schema[type][j], ValueOf(type, m, j), enc, dec)
           Reads == [name \in FieldNames(type) |->
                       IF Place(type, name) <= len
                       THEN FieldGot(FieldNamed(type, name), m[name], enc, dec)
                       ELSE Default(FieldNamed(type, name))]
<1>3. ReadAll(type, dec, Fields(type, m, enc)) = IF Fine THEN Going(Reads) ELSE Failed(type)
  BY SingularRead DEF StateAfter
<1>4. len \in Nat /\ DOMAIN Schema[type] = 1..len
  BY <1>1, SchemaLengths
<1>5. Fine <=> \A name \in FieldNames(type) : depth[name] < limit
  <2>1. \A name \in FieldNames(type) :
          FieldOk(FieldNamed(type, name), m[name], enc, dec) <=> depth[name] < limit
    BY DEF FieldCrosses
  <2>2. Fine => \A name \in FieldNames(type) : FieldOk(FieldNamed(type, name), m[name], enc, dec)
    <3> SUFFICES ASSUME Fine, NEW name \in FieldNames(type)
                 PROVE  FieldOk(FieldNamed(type, name), m[name], enc, dec)
      OBVIOUS
    <3>1. /\ Place(type, name) \in 1..len /\ Schema[type][Place(type, name)].name = name
          /\ FieldNamed(type, name) = Schema[type][Place(type, name)]
      BY <1>1, <1>4, Places
    <3>2. FieldOk(Schema[type][Place(type, name)], ValueOf(type, m, Place(type, name)), enc, dec)
      BY <3>1
    <3> QED BY <3>1, <3>2 DEF ValueOf
  <2>3. (\A name \in FieldNames(type) : FieldOk(FieldNamed(type, name), m[name], enc, dec)) => Fine
    <3> SUFFICES ASSUME \A name \in FieldNames(type) : FieldOk(FieldNamed(type, name), m[name], enc, dec),
                        NEW j \in 1..len
                 PROVE  FieldOk(Schema[type][j], ValueOf(type, m, j), enc, dec)
      OBVIOUS
    <3>1. /\ Schema[type][j].name \in FieldNames(type)
          /\ FieldNamed(type, Schema[type][j].name) = Schema[type][j]
      BY <1>1, <1>4, Places
    <3> QED BY <3>1 DEF ValueOf
  <2> HIDE DEF Fine
  <2> QED BY <2>1, <2>2, <2>3
<1>6. ASSUME \A name \in FieldNames(type) : depth[name] < limit
      PROVE  Reads = [name \in FieldNames(type) |-> got[name]]
  <2>1. \A name \in FieldNames(type) : FieldGot(FieldNamed(type, name), m[name], enc, dec) = got[name]
    BY <1>6 DEF FieldCrosses
  <2>2. \A name \in FieldNames(type) : Place(type, name) <= len
    <3>1. \A name \in FieldNames(type) : Place(type, name) \in 1..len
      BY <1>1, <1>4, Places
    <3> HIDE DEF len
    <3> QED BY <3>1, <1>4
  <2> QED BY <2>1, <2>2
<1> HIDE DEF Fine, Reads
<1>7. ReadAll(type, dec, Fields(type, m, enc)) =
        IF \A name \in FieldNames(type) : depth[name] < limit
        THEN Going([name \in FieldNames(type) |-> got[name]])
        ELSE Failed(type)
  BY <1>3, <1>5, <1>6
<1> QED BY <1>2, <1>7

\* Depth and Plain of a value, by DepthAt and ValueAt.
LEMMA CrossedIs ==
  ASSUME NEW v \in AnyValue
  PROVE  /\ Crossed(v).depth = DepthAt(Nesting, v) /\ Crossed(v).value = ValueAt(Nesting, v)
         /\ DepthAt(Nesting, v) \in Nat /\ DepthAt(Nesting, v) <= 4 * Nesting
         /\ Type(v) # "message" => Depth(v) = DepthAt(Nesting, v) /\ Plain(v) = ValueAt(Nesting, v)
<1>1. Crossed(v).depth = DepthAt(Nesting, v) /\ Crossed(v).value = ValueAt(Nesting, v)
  BY DEF Crossed, DepthAt, ValueAt
<1>2. DepthAt(Nesting, v) \in Nat /\ DepthAt(Nesting, v) <= 4 * Nesting
  BY DepthBounds, ValuesAssumption
<1> QED BY <1>1, <1>2 DEF Depth, Plain

\* A message inside: a level more than its values.
Enveloped(v) ==
  /\ Type(v) = "message" /\ v = Msg(v[2]) /\ DOMAIN v[2] # {}
  /\ \A name \in DOMAIN v[2] : v[2][name] \in AnyValue

\* The depth of a message inside is one more than the depths of its values.
LEMMA EnvelopedDepth ==
  ASSUME NEW v, Enveloped(v)
  PROVE  /\ Depth(v) \in Nat /\ Depth(v) <= 1 + 4 * Nesting /\ Depth(v) >= 1
         /\ \A r \in Int : Depth(v) < r + 1 <=>
                             \A name \in DOMAIN v[2] : DepthAt(Nesting, v[2][name]) < r
         /\ Plain(v) = Msg([name \in DOMAIN v[2] |-> ValueAt(Nesting, v[2][name])])
<1> DEFINE S == {DepthAt(Nesting, v[2][name]) : name \in DOMAIN v[2]}
<1>1. \A name \in DOMAIN v[2] :
        /\ Crossed(v[2][name]).depth = DepthAt(Nesting, v[2][name])
        /\ Crossed(v[2][name]).value = ValueAt(Nesting, v[2][name])
        /\ DepthAt(Nesting, v[2][name]) \in Nat /\ DepthAt(Nesting, v[2][name]) <= 4 * Nesting
  BY CrossedIs DEF Enveloped
<1>2. {Crossed(v[2][name]).depth : name \in DOMAIN v[2]} = S
  BY <1>1
<1>3. Depth(v) = 1 + Max(S)
  BY <1>2 DEF Depth, Enveloped
<1>4. PICK b \in Nat : b = 4 * Nesting
  BY ValuesAssumption
<1>5. S # {} /\ \A s \in S : s \in Nat /\ s <= b
  BY <1>1, <1>4 DEF Enveloped
<1> HIDE DEF S
<1>6. Max(S) \in S /\ \A s \in S : s <= Max(S)
  BY <1>5, GreatestOf
<1>7. PICK x \in Nat : x = Max(S)
  BY <1>5, <1>6
<1>8. x \in S /\ (\A s \in S : s <= x) /\ x <= b
  BY <1>5, <1>6, <1>7
<1>9. \A r \in Int : x < r <=> \A s \in S : s < r
  BY <1>5, <1>8
<1>10. \A r \in Int : (\A s \in S : s < r) <=> \A name \in DOMAIN v[2] : DepthAt(Nesting, v[2][name]) < r
  BY DEF S
<1>11. Depth(v) = 1 + x
  BY <1>3, <1>7
<1>12. \A r \in Int : 1 + x < r + 1 <=> x < r
  OBVIOUS
<1>13. \A r \in Int : Depth(v) < r + 1 <=> \A name \in DOMAIN v[2] : DepthAt(Nesting, v[2][name]) < r
  BY <1>9, <1>10, <1>11, <1>12
<1>14. Plain(v) = Msg([name \in DOMAIN v[2] |-> ValueAt(Nesting, v[2][name])])
  BY <1>1 DEF Plain, Enveloped
<1>15. Depth(v) \in Nat /\ Depth(v) <= 1 + 4 * Nesting /\ Depth(v) >= 1
  BY <1>4, <1>8, <1>11
<1> QED BY <1>13, <1>14, <1>15

\* What a field with a message inside holds.
LEMMA InnerEnveloped ==
  ASSUME NEW kind \in InnerTypes, NEW v \in Held, Type(v) = "message", HasFields(kind, v[2])
  PROVE  /\ Enveloped(v) /\ kind \in Types /\ Singular(kind) /\ DOMAIN v[2] = FieldNames(kind)
         /\ \A name \in FieldNames(kind) :
              /\ v[2][name] \in Held /\ Fits(FieldNamed(kind, name), v[2][name])
              /\ PlainField(FieldNamed(kind, name))
<1>1. /\ kind \in Types /\ Singular(kind) /\ FieldNames(kind) # {}
      /\ \A name \in FieldNames(kind) : PlainField(FieldNamed(kind, name))
  BY CallSchemas DEF CallFields
<1>2. DOMAIN v[2] = FieldNames(kind)
      /\ \A name \in FieldNames(kind) : Fits(FieldNamed(kind, name), v[2][name])
  BY DEF HasFields
<1>3. v = Msg(v[2]) /\ \A name \in DOMAIN v[2] : v[2][name] \in AnyValue
  BY HeldByTag
<1> QED BY <1>1, <1>2, <1>3, HeldValues DEF Enveloped

\* A message inside crosses: decode reads it when its depth leaves room.
LEMMA InnerCrosses ==
  ASSUME NEW kind \in InnerTypes, NEW v \in Held, Type(v) = "message", HasFields(kind, v[2]),
         NEW q \in Nat
  PROVE  LET d == Opened(kind, v, EncodeAt[Levels], DecodeAt[q])
         IN  /\ EncodeAt[Levels][<<kind, v>>] \in Wires[3 * Nesting]
             /\ d.ok <=> Depth(v) < q + 1
             /\ d.ok => Msg(d.message) = Plain(v)
<1> DEFINE w == EncodeAt[Levels][<<kind, v>>]
           d == DecodeAt[q][<<kind, w>>]
           m == v[2]
           enc == EncodeAt[3 * Nesting]
           B == Bodies(3 * Nesting)
           depth == [name \in FieldNames(kind) |-> DepthAt(Nesting, m[name])]
           got == [name \in FieldNames(kind) |-> ValueAt(Nesting, m[name])]
<1>1. /\ Enveloped(v) /\ kind \in Types /\ Singular(kind) /\ DOMAIN v[2] = FieldNames(kind)
      /\ \A name \in FieldNames(kind) :
           /\ v[2][name] \in Held /\ Fits(FieldNamed(kind, name), v[2][name])
           /\ PlainField(FieldNamed(kind, name))
  BY InnerEnveloped
<1>2. 3 * Nesting \in Nat /\ Levels \in Nat /\ Levels # 0 /\ Levels - 1 = 3 * Nesting
      /\ 3 * Nesting <= Levels
  BY LevelsAre, ValuesAssumption
<1>3. w = Fields(kind, m, enc)
  <2>1. Wrap(kind, v) = m
    BY DEF Wrap, InnerTypes
  <2> QED BY <1>1, <1>2, <2>1, EncodeStep
<1>4. ASSUME NEW s \in Nat, NEW name \in FieldNames(kind)
      PROVE  FieldCrosses(FieldNamed(kind, name), m[name], enc, DecodeAt[s],
                          depth[name], got[name], s + 1, B)
  <2> DEFINE f == FieldNamed(kind, name)
             x == m[name]
  <2>1. PlainField(f) /\ x \in Held /\ Fits(f, x)
    BY <1>1
  <2>2. depth[name] = DepthAt(Nesting, x) /\ got[name] = ValueAt(Nesting, x)
    OBVIOUS
  <2>3. 3 * Nesting >= 3 * Nesting
    BY <1>2
  <2> HIDE DEF f, x, depth, got
  <2>4. FieldCrosses(f, x, EncodeAt[3 * Nesting], DecodeAt[s], DepthAt(Nesting, x), ValueAt(Nesting, x),
                     s + 1, Bodies(3 * Nesting))
    BY <1>2, <2>1, <2>3, PlainFieldCrosses
  <2> QED BY <2>2, <2>4 DEF f, x
<1> HIDE DEF depth, got, enc, B
<1>5. ASSUME NEW s \in Nat
      PROVE  /\ Fields(kind, m, enc) \in Seq(TaggedFields(B))
             /\ ReadAll(kind, DecodeAt[s], Fields(kind, m, enc)) =
                  IF \A name \in FieldNames(kind) : depth[name] < s + 1
                  THEN Going([name \in FieldNames(kind) |-> got[name]])
                  ELSE Failed(kind)
  <2> DEFINE dec == DecodeAt[s]
             limit == s + 1
             y == m
  <2>1. \A name \in FieldNames(kind) :
          FieldCrosses(FieldNamed(kind, name), y[name], enc, dec, depth[name], got[name], limit, B)
    BY <1>4
  <2>2. Singular(kind)
    BY <1>1
  <2> HIDE DEF dec, limit, y
  <2>3. /\ Fields(kind, y, enc) \in Seq(TaggedFields(B))
        /\ ReadAll(kind, dec, Fields(kind, y, enc)) =
             IF \A name \in FieldNames(kind) : depth[name] < limit
             THEN Going([name \in FieldNames(kind) |-> got[name]])
             ELSE Failed(kind)
    BY <2>1, <2>2, MessageReads
  <2> QED BY <2>3 DEF dec, limit, y
<1>6. w \in Wires[3 * Nesting]
  <2>1. 0 \in Nat
    OBVIOUS
  <2>2. Fields(kind, m, enc) \in Seq(TaggedFields(B))
    BY <1>5, <2>1
  <2> QED BY <1>2, <1>3, <2>2, BodiesWires DEF B
<1>7. w \in Wires[Levels]
  <2> HIDE DEF w
  <2> QED BY <1>2, <1>6, WiresBelow
<1>8. d = Opened(kind, v, EncodeAt[Levels], DecodeAt[q])
  BY DEF Opened
<1> HIDE DEF w
<1>9. CASE q = 0
  <2>1. d = Failed(kind)
    BY <1>1, <1>7, <1>9, DecodeStep
  <2>2. ~d.ok
    BY <2>1 DEF Failed
  <2>3. ~(Depth(v) < q + 1)
    <3>1. Depth(v) \in Nat /\ Depth(v) >= 1
      BY <1>1, EnvelopedDepth
    <3> QED BY <3>1, <1>9
  <2> QED BY <1>6, <1>8, <2>2, <2>3 DEF w
<1>10. CASE q # 0
  <2>1. PICK s \in Nat : q = s + 1 /\ q - 1 = s
    <3>1. q - 1 \in Nat /\ q = q - 1 + 1
      BY <1>10
    <3> QED BY <3>1
  <2>2. d = ReadAll(kind, DecodeAt[s], Fields(kind, m, enc))
    BY <1>1, <1>3, <1>7, <1>10, <2>1, DecodeStep
  <2>3. d = IF \A name \in FieldNames(kind) : depth[name] < q
            THEN Going([name \in FieldNames(kind) |-> got[name]])
            ELSE Failed(kind)
    BY <1>5, <2>1, <2>2
  <2>4. (\A name \in FieldNames(kind) : depth[name] < q) <=> Depth(v) < q + 1
    <3>1. q \in Int
      OBVIOUS
    <3>2. Depth(v) < q + 1 <=> \A name \in DOMAIN v[2] : DepthAt(Nesting, v[2][name]) < q
      BY <1>1, <3>1, EnvelopedDepth
    <3> QED BY <1>1, <3>2 DEF depth
  <2>5. Msg([name \in FieldNames(kind) |-> got[name]]) = Plain(v)
    <3>1. Plain(v) = Msg([name \in DOMAIN v[2] |-> ValueAt(Nesting, v[2][name])])
      BY <1>1, EnvelopedDepth
    <3>2. [name \in FieldNames(kind) |-> got[name]] = [name \in DOMAIN v[2] |-> ValueAt(Nesting, v[2][name])]
      BY <1>1 DEF got
    <3> QED BY <3>1, <3>2
  <2> DEFINE M == [name \in FieldNames(kind) |-> got[name]]
  <2>6. d = IF Depth(v) < q + 1 THEN Going(M) ELSE Failed(kind)
    BY <2>3, <2>4
  <2> HIDE DEF M, d
  <2>7. d.ok <=> Depth(v) < q + 1
    BY <2>6, GoingOn DEF Failed
  <2>8. d.ok => d.message = M
    BY <2>6, GoingOn DEF Failed
  <2> QED BY <1>6, <1>8, <2>5, <2>7, <2>8 DEF w, M
<1> QED BY <1>9, <1>10

\* Every field of a message of the service crosses.
LEMMA CallFieldCrosses ==
  ASSUME NEW type \in CallTypes, NEW m, IsMessage(type, m), Encodable(m),
         NEW name \in FieldNames(type), NEW q \in Nat
  PROVE  /\ FieldCrosses(FieldNamed(type, name), m[name], EncodeAt[Levels], DecodeAt[q],
                         Depth(m[name]), Plain(m[name]), q + 1, Bodies(Levels))
         /\ Depth(m[name]) \in Nat /\ Depth(m[name]) <= 1 + 4 * Nesting
<1> DEFINE f == FieldNamed(type, name)
           v == m[name]
           enc == EncodeAt[Levels]
           dec == DecodeAt[q]
           B == Bodies(Levels)
<1>1. DOMAIN m = FieldNames(type) /\ v \in Held /\ Fits(f, v)
      /\ (Type(v) = "message" => HasFields(f.kind, v[2]))
  BY DEF IsMessage, HasFields, Encodable
<1>2. PlainField(f) \/ OuterField(f)
  BY CallSchemas DEF CallFields
<1>3. /\ Nesting \in Nat /\ 3 * Nesting \in Nat /\ Levels \in Nat /\ Levels = 3 * Nesting + 1
      /\ Levels >= 3 * Nesting /\ 0 < q + 1 /\ 0 <= 1 + 4 * Nesting
  BY LevelsAre, ValuesAssumption
<1>4. Bodies(3 * Nesting) \subseteq B /\ {"bytes"} \X Wires[3 * Nesting] \subseteq B
  BY <1>3, BodiesWires
<1>5. CASE PlainField(f)
  <2> HIDE DEF f, v, B
  <2>1. /\ FieldCrosses(f, v, EncodeAt[Levels], DecodeAt[q], DepthAt(Nesting, v), ValueAt(Nesting, v),
                        q + 1, Bodies(3 * Nesting))
        /\ v \in AnyValue /\ Type(v) # "message"
    BY <1>1, <1>3, <1>5, PlainFieldCrosses
  <2>2. /\ Depth(v) = DepthAt(Nesting, v) /\ Plain(v) = ValueAt(Nesting, v)
        /\ DepthAt(Nesting, v) \in Nat /\ DepthAt(Nesting, v) <= 4 * Nesting
    BY <2>1, CrossedIs
  <2>3. FieldCrosses(f, v, enc, dec, Depth(v), Plain(v), q + 1, B)
    <3> HIDE DEF enc, dec
    <3>1. FieldCrosses(f, v, enc, dec, Depth(v), Plain(v), q + 1, Bodies(3 * Nesting))
      BY <2>1, <2>2 DEF enc, dec
    <3> QED BY <3>1, <1>4 DEF FieldCrosses
  <2>4. Depth(v) \in Nat /\ Depth(v) <= 1 + 4 * Nesting
    BY <2>2, <1>3
  <2> QED BY <2>3, <2>4 DEF f, v, B
<1>6. CASE OuterField(f)
  <2>1. f.rule = "explicit" /\ f.kind \in InnerTypes /\ Default(f) = Undef
    BY <1>6 DEF OuterField, Default
  <2>2. CASE v = Undef
    <3>1. DepthAt(Nesting, v) = 0 /\ ValueAt(Nesting, v) = v
      BY <1>3, <2>2, CrossedParts
    <3>2. v \in AnyValue /\ Type(v) # "message"
      BY <2>2, HeldValues, TypesOfValues
    <3>3. Depth(v) = 0 /\ Plain(v) = v
      BY <3>1, <3>2, CrossedIs
    <3> HIDE DEF f, v, enc, dec, B
    <3>4. FieldCrosses(f, v, enc, dec, Depth(v), Plain(v), q + 1, B)
      BY <1>3, <2>1, <2>2, <3>3 DEF FieldCrosses, FieldOk, FieldGot
    <3>5. Depth(v) \in Nat /\ Depth(v) <= 1 + 4 * Nesting
      BY <1>3, <3>3
    <3> QED BY <3>4, <3>5 DEF f, v, enc, dec, B
  <2>3. CASE v # Undef
    <3>1. Type(v) = "message"
      BY <1>1, <2>1, <2>3 DEF Fits, InnerTypes
    <3> DEFINE kind == f.kind
               d == Opened(kind, v, EncodeAt[Levels], DecodeAt[q])
    <3>2. HasFields(kind, v[2]) /\ kind \in InnerTypes
      BY <1>1, <2>1, <3>1
    <3> HIDE DEF kind, v, f
    <3>3. /\ EncodeAt[Levels][<<kind, v>>] \in Wires[3 * Nesting]
          /\ d.ok <=> Depth(v) < q + 1
          /\ d.ok => Msg(d.message) = Plain(v)
      BY <1>1, <3>1, <3>2, InnerCrosses
    <3>4. Enveloped(v) /\ kind \in Types
      BY <1>1, <3>1, <3>2, InnerEnveloped
    <3>5. Body(kind, v, enc) \in B
      <4>1. Body(kind, v, enc) = <<"bytes", EncodeAt[Levels][<<kind, v>>]>>
        BY <3>4 DEF Body, Bytes
      <4> HIDE DEF B
      <4> QED BY <1>4, <3>3, <4>1
    <3>6. kind \notin {"Value", "Struct", "ListValue"}
      BY <3>2 DEF InnerTypes
    <3> HIDE DEF enc, dec, B
    <3>7. FieldOk(f, v, enc, dec) <=> d.ok
      BY <2>1, <2>3, <3>4 DEF FieldOk, enc, dec, kind
    <3>8. FieldGot(f, v, enc, dec) = Msg(d.message)
      <4>1. FieldGot(f, v, enc, dec) = Unwrap(kind, d.message)
        BY <2>1, <2>3, <3>4 DEF FieldGot, enc, dec, kind
      <4> HIDE DEF d
      <4> QED BY <3>6, <4>1 DEF Unwrap
    <3> HIDE DEF d
    <3>9. FieldCrosses(f, v, enc, dec, Depth(v), Plain(v), q + 1, B)
      BY <3>3, <3>5, <3>7, <3>8 DEF FieldCrosses, kind
    <3>10. Depth(v) \in Nat /\ Depth(v) <= 1 + 4 * Nesting
      BY <3>4, EnvelopedDepth
    <3> QED BY <3>9, <3>10 DEF enc, dec, B, f, v
  <2> QED BY <2>2, <2>3
<1> QED BY <1>2, <1>5, <1>6

\* The depth of a message is below a limit exactly when those of its fields are.
LEMMA MessageDepth ==
  ASSUME NEW type \in CallTypes, NEW m, IsMessage(type, m), Encodable(m)
  PROVE  /\ DOMAIN m = FieldNames(type)
         /\ DepthOf(m) \in Nat
         /\ \A r \in Nat : DepthOf(m) < r <=> \A name \in FieldNames(type) : Depth(m[name]) < r
<1>1. DOMAIN m = FieldNames(type) /\ FieldNames(type) # {}
  BY CallSchemas DEF IsMessage, HasFields, CallFields
<1> DEFINE S == {Depth(m[name]) : name \in DOMAIN m}
<1>2. PICK b \in Nat : b = 1 + 4 * Nesting
  BY ValuesAssumption
<1>3. \A name \in FieldNames(type) : Depth(m[name]) \in Nat /\ Depth(m[name]) <= b
  <2>1. 0 \in Nat
    OBVIOUS
  <2> QED BY <1>2, <2>1, CallFieldCrosses
<1>4. S # {} /\ (\A s \in S : s \in Nat) /\ (\A s \in S : s <= b)
  BY <1>1, <1>3
<1>5. \A r \in Nat : (\A s \in S : s < r) <=> \A name \in FieldNames(type) : Depth(m[name]) < r
  BY <1>1
<1>6. DepthOf(m) = Max(S)
  BY DEF DepthOf
<1> HIDE DEF S
<1>7. Max(S) \in S /\ \A s \in S : s <= Max(S)
  BY <1>2, <1>4, GreatestOf
<1>8. PICK x \in Nat : x = Max(S)
  BY <1>4, <1>7
<1>9. x \in S /\ \A s \in S : s <= x /\ s \in Nat
  BY <1>4, <1>7, <1>8
<1>10. \A r \in Nat : x < r <=> \A s \in S : s < r
  BY <1>9
<1> QED BY <1>1, <1>5, <1>6, <1>8, <1>10

\* A message of the service is read as its values cross, or refused for its depth.
LEMMA MessageCrosses ==
  ASSUME NEW type \in CallTypes, NEW m, IsMessage(type, m), Encodable(m)
  PROVE  /\ Encode(type, m) \in Wires[Levels]
         /\ Decode(type, Encode(type, m)) =
              IF DepthOf(m) < RecursionLimit
              THEN Going([name \in DOMAIN m |-> Plain(m[name])])
              ELSE Failed(type)
<1> DEFINE enc == EncodeAt[Levels]
           w == Fields(type, m, enc)
           B == Bodies(Levels)
           depth == [name \in FieldNames(type) |-> Depth(m[name])]
           got == [name \in FieldNames(type) |-> Plain(m[name])]
<1>1. type \in Types /\ Singular(type)
  BY CallSchemas DEF CallFields
<1>2. ASSUME NEW q \in Nat, NEW name \in FieldNames(type)
      PROVE  FieldCrosses(FieldNamed(type, name), m[name], enc, DecodeAt[q], depth[name], got[name],
                          q + 1, B)
  <2>1. depth[name] = Depth(m[name]) /\ got[name] = Plain(m[name])
    OBVIOUS
  <2> HIDE DEF depth, got
  <2> QED BY <2>1, CallFieldCrosses
<1>3. DOMAIN m = FieldNames(type) /\ DepthOf(m) \in Nat
  BY MessageDepth
<1>4. \A r \in Nat : (\A name \in FieldNames(type) : depth[name] < r) <=> DepthOf(m) < r
  BY MessageDepth
<1>5. [name \in FieldNames(type) |-> got[name]] = [name \in DOMAIN m |-> Plain(m[name])]
  BY <1>3
<1>6. Encode(type, m) = w
  BY DEF Encode
<1> HIDE DEF depth, got, enc, B
<1>7. ASSUME NEW q \in Nat
      PROVE  /\ w \in Seq(TaggedFields(B))
             /\ ReadAll(type, DecodeAt[q], w) =
                  IF \A name \in FieldNames(type) : depth[name] < q + 1
                  THEN Going([name \in FieldNames(type) |-> got[name]])
                  ELSE Failed(type)
  <2> DEFINE dec == DecodeAt[q]
             limit == q + 1
  <2>1. \A name \in FieldNames(type) :
          FieldCrosses(FieldNamed(type, name), m[name], enc, dec, depth[name], got[name], limit, B)
    BY <1>2
  <2> HIDE DEF dec, limit
  <2>2. /\ Fields(type, m, enc) \in Seq(TaggedFields(B))
        /\ ReadAll(type, dec, Fields(type, m, enc)) =
             IF \A name \in FieldNames(type) : depth[name] < limit
             THEN Going([name \in FieldNames(type) |-> got[name]])
             ELSE Failed(type)
    BY <1>1, <2>1, MessageReads
  <2> QED BY <2>2 DEF dec, limit
<1>8. w \in Wires[Levels]
  <2>1. 0 \in Nat
    OBVIOUS
  <2>2. w \in Seq(TaggedFields(B))
    BY <1>7, <2>1
  <2> HIDE DEF w
  <2> QED BY <2>2, LevelsAre, BodiesWires DEF B
<1> DEFINE M == [name \in FieldNames(type) |-> got[name]]
           d == DecodeAt[RecursionLimit][<<type, w>>]
<1>9. d = IF DepthOf(m) < RecursionLimit THEN Going(M) ELSE Failed(type)
  <2>1. CASE RecursionLimit = 0
    <3>1. d = Failed(type)
      <4> HIDE DEF w
      <4> QED BY <1>1, <1>8, <2>1, DecodeStep
    <3> HIDE DEF d
    <3> QED BY <1>3, <2>1, <3>1
  <2>2. CASE RecursionLimit # 0
    <3>1. PICK q \in Nat : RecursionLimit = q + 1 /\ RecursionLimit - 1 = q
      <4>1. RecursionLimit - 1 \in Nat /\ RecursionLimit = RecursionLimit - 1 + 1
        BY <2>2, RecursionLimitAssumption
      <4> QED BY <4>1
    <3>2. d = ReadAll(type, DecodeAt[q], w)
      <4> HIDE DEF w
      <4> QED BY <1>1, <1>8, <2>2, <3>1, RecursionLimitAssumption, DecodeStep
    <3>3. ReadAll(type, DecodeAt[q], w) =
            IF \A name \in FieldNames(type) : depth[name] < q + 1 THEN Going(M) ELSE Failed(type)
      BY <1>7
    <3>4. (\A name \in FieldNames(type) : depth[name] < q + 1) <=> DepthOf(m) < RecursionLimit
      BY <1>4, <3>1
    <3> HIDE DEF d, M, w
    <3> QED BY <3>2, <3>3, <3>4
  <2> QED BY <2>1, <2>2
<1> HIDE DEF w, M
<1>10. Decode(type, Encode(type, m)) = d
  BY <1>6 DEF Decode
<1> QED BY <1>5, <1>6, <1>8, <1>9, <1>10 DEF M

-----------------------------------------------------------------------------
(* A field that the schema of no message has is skipped wherever it is.    *)

\* The elements of two sequences joined.
LEMMA JoinedIs ==
  ASSUME NEW S, NEW s \in Seq(S), NEW t \in Seq(S)
  PROVE  /\ s \o t \in Seq(S) /\ Len(s \o t) = Len(s) + Len(t)
         /\ \A j \in 1..Len(s) : (s \o t)[j] = s[j]
         /\ \A j \in 1..Len(t) : (s \o t)[Len(s) + j] = t[j]
OBVIOUS

\* The elements of a sequence with one inserted.
LEMMA InsertedIs ==
  ASSUME NEW S, NEW w \in Seq(S), NEW x \in S, NEW i \in 1..Len(w) + 1
  PROVE  /\ InsertAt(w, i, x) \in Seq(S)
         /\ Len(InsertAt(w, i, x)) = Len(w) + 1
         /\ \A j \in 1..(i - 1) : InsertAt(w, i, x)[j] = w[j]
         /\ InsertAt(w, i, x)[i] = x
         /\ \A j \in i..Len(w) : InsertAt(w, i, x)[j + 1] = w[j]
<1> DEFINE a == SubSeq(w, 1, i - 1)
           c == SubSeq(w, i, Len(w))
<1>1. Len(w) \in Nat /\ i \in Int /\ 1 <= i /\ i <= Len(w) + 1
  OBVIOUS
<1>2. \A j \in 1..Len(w) : w[j] \in S
  OBVIOUS
<1>3. a \in Seq(S) /\ Len(a) = i - 1 /\ \A j \in 1..(i - 1) : a[j] = w[j]
  BY <1>1, <1>2
<1>4. c \in Seq(S) /\ Len(c) = Len(w) - i + 1 /\ \A j \in 1..(Len(w) - i + 1) : c[j] = w[i + j - 1]
  BY <1>1, <1>2
<1>5. InsertAt(w, i, x) = (a \o <<x>>) \o c
  BY DEF InsertAt
<1> HIDE DEF a, c
<1> DEFINE b == a \o <<x>>
<1>6. <<x>> \in Seq(S) /\ Len(<<x>>) = 1 /\ <<x>>[1] = x
  OBVIOUS
<1>7. b \in Seq(S) /\ Len(b) = i /\ (\A j \in 1..(i - 1) : b[j] = w[j]) /\ b[i] = x
  BY <1>1, <1>3, <1>6
<1> HIDE DEF b
<1> DEFINE d == b \o c
<1>8. d \in Seq(S) /\ Len(d) = Len(w) + 1
  <2>1. d \in Seq(S) /\ Len(d) = Len(b) + Len(c)
    BY <1>4, <1>7, JoinedIs
  <2>2. Len(b) + Len(c) = Len(w) + 1
    BY <1>1, <1>4, <1>7
  <2> HIDE DEF d
  <2> QED BY <2>1, <2>2
<1>9. \A j \in 1..i : d[j] = b[j]
  BY <1>1, <1>4, <1>7
<1>10. \A j \in i..Len(w) : d[j + 1] = w[j]
  <2> SUFFICES ASSUME NEW j \in i..Len(w) PROVE d[j + 1] = w[j]
    OBVIOUS
  <2>1. j + 1 \in 1..(Len(b) + Len(c)) /\ j + 1 > Len(b)
    BY <1>1, <1>4, <1>7
  <2>2. d[j + 1] = c[j + 1 - i]
    BY <1>1, <1>4, <1>7, <2>1
  <2>3. j + 1 - i \in 1..(Len(w) - i + 1) /\ i + (j + 1 - i) - 1 = j
    BY <1>1
  <2> QED BY <1>4, <2>2, <2>3
<1>11. InsertAt(w, i, x) = d
  BY <1>5 DEF b, d
<1> HIDE DEF d
<1>12. (\A j \in 1..(i - 1) : d[j] = w[j]) /\ d[i] = x
  BY <1>1, <1>7, <1>9
<1> QED BY <1>8, <1>10, <1>11, <1>12

\* One turn of the loop.
LEMMA TurnOf ==
  ASSUME NEW type, NEW dec, NEW w, NEW n \in Nat, NEW f, Turns(f, type, dec, w, n), n # 0,
         NEW j \in 0..(n - 1)
  PROVE  f[j + 1] = Read(type, dec, f[j], w[j + 1])
<1>1. j + 1 \in 0..n /\ j + 1 # 0 /\ j + 1 - 1 = j
  OBVIOUS
<1> QED BY <1>1 DEF Turns

\* A field that matches no case changes nothing, wherever it is inserted.
LEMMA ReadSkips ==
  ASSUME NEW type, NEW dec, NEW S, NEW w \in Seq(S), NEW x \in S, NEW i \in 1..Len(w) + 1,
         ~Known(type, x)
  PROVE  ReadAll(type, dec, InsertAt(w, i, x)) = ReadAll(type, dec, w)
<1> DEFINE v == InsertAt(w, i, x)
           n == Len(w)
<1>1. /\ n \in Nat /\ n + 1 \in Nat /\ i \in Nat /\ 1 <= i /\ i <= n + 1
      /\ v \in Seq(S) /\ Len(v) = n + 1 /\ (\A j \in 1..(i - 1) : v[j] = w[j]) /\ v[i] = x
      /\ \A j \in i..n : v[j + 1] = w[j]
  BY InsertedIs
<1>2. PICK f : Turns(f, type, dec, w, n)
  BY <1>1, TurnsExist
<1>3. PICK g : Turns(g, type, dec, v, n + 1)
  BY <1>1, TurnsExist
<1>4. ReadAll(type, dec, w) = f[n] /\ ReadAll(type, dec, v) = g[n + 1]
  BY <1>1, <1>2, <1>3, ReadAllIs
<1> HIDE DEF v, n
<1>5. \A acc : Read(type, dec, acc, x) = acc
  BY DEF Read
<1>6. f[0] = Start(type) /\ g[0] = Start(type)
  BY <1>1, <1>2, <1>3 DEF Turns
<1>7. \A j \in 0..(n - 1) : f[j + 1] = Read(type, dec, f[j], w[j + 1])
  <2> SUFFICES ASSUME NEW j \in 0..(n - 1) PROVE f[j + 1] = Read(type, dec, f[j], w[j + 1])
    OBVIOUS
  <2>1. n # 0 /\ n \in Nat
    BY <1>1
  <2> QED BY <1>2, <2>1, TurnOf
<1>8. \A j \in 0..n : g[j + 1] = Read(type, dec, g[j], v[j + 1])
  <2> SUFFICES ASSUME NEW j \in 0..n PROVE g[j + 1] = Read(type, dec, g[j], v[j + 1])
    OBVIOUS
  <2> DEFINE m == n + 1
  <2>1. m \in Nat /\ m # 0 /\ j \in 0..(m - 1) /\ Turns(g, type, dec, v, m)
    BY <1>1, <1>3
  <2> HIDE DEF m
  <2> QED BY <2>1, TurnOf
<1> DEFINE Agree(j) == (j < i => g[j] = f[j]) /\ (j >= i => g[j] = f[j - 1])
           T == {j \in Nat : j <= n + 1 => Agree(j)}
<1>9. 0 \in T
  BY <1>1, <1>6
<1>10. ASSUME NEW j \in Nat, j \in T PROVE j + 1 \in T
  <2> SUFFICES ASSUME j + 1 <= n + 1 PROVE Agree(j + 1)
    OBVIOUS
  <2>1. Agree(j) /\ j \in 0..n
    BY <1>1, <1>10
  <2>2. g[j + 1] = Read(type, dec, g[j], v[j + 1])
    BY <1>8, <2>1
  <2>3. CASE j + 1 < i
    <3>1. g[j] = f[j] /\ v[j + 1] = w[j + 1] /\ j \in 0..(n - 1) /\ ~(j + 1 >= i)
      BY <1>1, <2>1, <2>3
    <3>2. g[j + 1] = f[j + 1]
      BY <1>7, <2>2, <3>1
    <3> QED BY <3>1, <3>2
  <2>4. CASE j + 1 = i
    <3>1. g[j] = f[j] /\ v[j + 1] = x
      BY <1>1, <2>1, <2>4
    <3>2. g[j + 1] = f[j] /\ j + 1 - 1 = j
      BY <1>5, <2>2, <3>1
    <3> QED BY <2>4, <3>2
  <2>5. CASE j + 1 > i
    <3>1. /\ g[j] = f[j - 1] /\ v[j + 1] = w[j] /\ j - 1 \in 0..(n - 1) /\ j - 1 + 1 = j
          /\ j + 1 - 1 = j /\ ~(j + 1 < i)
      BY <1>1, <2>1, <2>5
    <3>2. f[j] = Read(type, dec, f[j - 1], w[j])
      BY <1>7, <3>1
    <3>3. g[j + 1] = f[j]
      BY <2>2, <3>1, <3>2
    <3> QED BY <3>1, <3>3
  <2> QED BY <1>1, <2>3, <2>4, <2>5
<1> HIDE DEF T
<1>11. \A j \in Nat : j \in T
  BY <1>9, <1>10, NaturalsAreReached
<1>12. g[n + 1] = f[n]
  <2>1. PICK p \in Nat : p = n + 1
    BY <1>1
  <2>2. Agree(p)
    BY <1>11, <2>1 DEF T
  <2>3. p >= i /\ p - 1 = n
    BY <1>1, <2>1
  <2> QED BY <2>1, <2>2, <2>3
<1> QED BY <1>4, <1>12 DEF v

\* No message of the service has the new fields.
LEMMA NewFieldsUnknown ==
  ASSUME NEW type \in CallTypes, NEW x \in NewFields
  PROVE  ~Known(type, x) /\ x \in TaggedFields(Scalars)
<1>1. x \in TaggedFields(Scalars)
  <2>1. Str("new") \in Scalars
    <3>1. "new" \in Text
      BY JobKeysAssumption
    <3> QED BY <3>1 DEF Scalars, Str
  <2>2. Num(1) \in Scalars
    BY DEF Scalars, Num
  <2>3. /\ [num |-> 9, wt |-> 2, body |-> Str("new")] \in TaggedFields(Scalars)
        /\ [num |-> 1, wt |-> 5, body |-> Num(1)] \in TaggedFields(Scalars)
    BY <2>1, <2>2 DEF TaggedFields
  <2> QED BY <2>3 DEF NewFields
<1>2. \A kind : WireType(kind) # 5
  BY DEF WireType
<1>3. 9 \notin DOMAIN Schema[type]
  <2>1. 9 \notin DOMAIN Schema["CreateQueueRequest"]
    BY DEF Schema, CreateQueueRequest
  <2>2. 9 \notin DOMAIN Schema["PushRequest"]
    BY DEF Schema, PushRequest
  <2>3. 9 \notin DOMAIN Schema["ListenQueueRequest"]
    BY DEF Schema, ListenQueueRequest
  <2>4. 9 \notin DOMAIN Schema["DeleteQueueRequest"]
    BY DEF Schema, DeleteQueueRequest
  <2>5. 9 \notin DOMAIN Schema["HearthbeatRequest"]
    BY DEF Schema, HearthbeatRequest
  <2>6. 9 \notin DOMAIN Schema["JobInfoRequest"]
    BY DEF Schema, JobInfoRequest
  <2>7. 9 \notin DOMAIN Schema["SuccessBoolResponse"]
    BY DEF Schema, SuccessBoolResponse
  <2>8. 9 \notin DOMAIN Schema["ListenQueueStreamResponse"]
    BY DEF Schema, ListenQueueStreamResponse
  <2> QED BY <2>1, <2>2, <2>3, <2>4, <2>5, <2>6, <2>7, <2>8 DEF CallTypes, PlainTypes
<1>4. x.num = 9 \/ x.wt = 5
  BY DEF NewFields
<1> QED BY <1>1, <1>2, <1>3, <1>4 DEF Known

\* A newer sender's field changes nothing of what decode returns.
LEMMA NewerIsRead ==
  ASSUME NEW type \in CallTypes, NEW x \in NewFields, NEW w \in Wires[Levels], NEW i \in 1..Len(w) + 1
  PROVE  /\ InsertAt(w, i, x) \in Wires[Levels]
         /\ Decode(type, InsertAt(w, i, x)) = Decode(type, w)
<1> DEFINE S == TaggedFields(Bodies(Levels))
           v == InsertAt(w, i, x)
<1>1. Wires[Levels] = Seq(S) /\ Scalars \subseteq Bodies(Levels)
  BY LevelsAre, BodiesWires
<1>2. ~Known(type, x) /\ x \in S
  BY <1>1, NewFieldsUnknown DEF TaggedFields
<1> HIDE DEF S
<1>3. v \in Wires[Levels]
  BY <1>1, <1>2, InsertedIs
<1>4. \A dec : ReadAll(type, dec, v) = ReadAll(type, dec, w)
  BY <1>1, <1>2, ReadSkips
<1>5. type \in Types
  BY CallSchemas DEF CallFields
<1> HIDE DEF v
<1>6. DecodeAt[RecursionLimit][<<type, v>>] = DecodeAt[RecursionLimit][<<type, w>>]
  <2>1. CASE RecursionLimit = 0
    BY <1>3, <1>5, <2>1, DecodeStep
  <2>2. CASE RecursionLimit # 0
    <3>1. /\ DecodeAt[RecursionLimit][<<type, v>>] = ReadAll(type, DecodeAt[RecursionLimit - 1], v)
          /\ DecodeAt[RecursionLimit][<<type, w>>] = ReadAll(type, DecodeAt[RecursionLimit - 1], w)
      BY <1>3, <1>5, <2>2, RecursionLimitAssumption, DecodeStep
    <3> QED BY <1>4, <3>1
  <2> QED BY <2>1, <2>2
<1> QED BY <1>3, <1>6 DEF v, Decode

-----------------------------------------------------------------------------
(* toJSON, fromJSON and fromPartial of a message.                          *)

\* The two names of a field are those of no other field.
OwnAliases(type) ==
  \A x, y \in FieldNames(type) :
    /\ FieldNamed(type, x).alias = FieldNamed(type, y).alias => x = y
    /\ FieldNamed(type, x).alias = y => x = y

\* No two fields of a message share a name or an alias.
LEMMA AliasesOwned == \A type \in CallTypes \cup InnerTypes \cup {"Value"} : OwnAliases(type)
<1>1. ASSUME NEW type \in PlainTypes \cup InnerTypes PROVE OwnAliases(type)
  <2>1. \A name \in FieldNames(type) :
          FieldNamed(type, name).name = name /\ FieldNamed(type, name).alias = name
    <3> SUFFICES ASSUME NEW name \in FieldNames(type)
                 PROVE  FieldNamed(type, name).name = name /\ FieldNamed(type, name).alias = name
      OBVIOUS
    <3>1. type \in Types
      BY CallSchemas DEF CallFields, CallTypes
    <3>2. FieldNamed(type, name).name = name
      BY <3>1, Places
    <3>3. PlainField(FieldNamed(type, name))
      BY CallSchemas
    <3> QED BY <3>2, <3>3 DEF PlainField
  <2> QED BY <2>1 DEF OwnAliases
<1>2. OwnAliases("ListenQueueStreamResponse")
  <2> DEFINE type == "ListenQueueStreamResponse"
             S == Schema[type]
  <2>1. S = <<Aliased(Field("queueConnectResponse", "QueueConnectResponse", "explicit"),
                      "queue_connect_response"),
              Aliased(Field("jobDataResponse", "JobDataResponse", "explicit"), "job_data_response")>>
    BY DEF Schema, ListenQueueStreamResponse
  <2>2. type \in Types
    BY StreamSchema
  <2> HIDE DEF S
  <2>3. /\ DOMAIN S = 1..2
        /\ S[1].name = "queueConnectResponse" /\ S[1].alias = "queue_connect_response"
        /\ S[2].name = "jobDataResponse" /\ S[2].alias = "job_data_response"
    BY <2>1 DEF Field, Aliased
  <2>4. FieldNames(type) = {"queueConnectResponse", "jobDataResponse"}
    BY <2>3 DEF FieldNames, S
  <2>5. /\ FieldNamed(type, "queueConnectResponse") = S[1]
        /\ FieldNamed(type, "jobDataResponse") = S[2]
    <3>1. 1 \in DOMAIN S /\ 2 \in DOMAIN S
      BY <2>3
    <3> QED BY <2>2, <2>3, <3>1, Places DEF S
  <2> QED BY <2>3, <2>4, <2>5 DEF OwnAliases
<1>3. OwnAliases("Value")
  <2> DEFINE S == Schema["Value"]
             Name(i) == S[i].name
  <2>1. S = <<Aliased(Field("nullValue", "enum", "explicit"), "null_value"),
              Aliased(Field("numberValue", "double", "explicit"), "number_value"),
              Aliased(Field("stringValue", "string", "explicit"), "string_value"),
              Aliased(Field("boolValue", "bool", "explicit"), "bool_value"),
              Aliased(Field("structValue", "Struct", "explicit"), "struct_value"),
              Aliased(Field("listValue", "ListValue", "explicit"), "list_value")>>
    BY DEF Schema, Value
  <2>2. "Value" \in Types
    BY ValueSchema
  <2> HIDE DEF S
  <2>3. DOMAIN S = 1..6
    BY <2>1
  <2>4. /\ S[1].name = "nullValue" /\ S[1].alias = "null_value"
        /\ S[2].name = "numberValue" /\ S[2].alias = "number_value"
        /\ S[3].name = "stringValue" /\ S[3].alias = "string_value"
        /\ S[4].name = "boolValue" /\ S[4].alias = "bool_value"
        /\ S[5].name = "structValue" /\ S[5].alias = "struct_value"
        /\ S[6].name = "listValue" /\ S[6].alias = "list_value"
    BY <2>1 DEF Field, Aliased
  <2>5. FieldNames("Value") = ValueNames
    BY ValueSchema
  <2>6. 1 \in DOMAIN S /\ 2 \in DOMAIN S /\ 3 \in DOMAIN S /\ 4 \in DOMAIN S /\ 5 \in DOMAIN S /\ 6 \in DOMAIN S
    BY <2>3
  <2>7. \A i \in DOMAIN S : FieldNamed("Value", S[i].name) = S[i]
    BY <2>2, Places DEF S
  <2>8. /\ FieldNamed("Value", "nullValue").alias = "null_value"
        /\ FieldNamed("Value", "numberValue").alias = "number_value"
        /\ FieldNamed("Value", "stringValue").alias = "string_value"
        /\ FieldNamed("Value", "boolValue").alias = "bool_value"
        /\ FieldNamed("Value", "structValue").alias = "struct_value"
        /\ FieldNamed("Value", "listValue").alias = "list_value"
    BY <2>4, <2>6, <2>7
  <2> QED BY <2>5, <2>8 DEF OwnAliases, ValueNames
<1> QED BY <1>1, <1>2, <1>3 DEF CallTypes

\* An object under the other names of its fields.
Snake(type, J) ==
  [a \in {FieldNamed(type, n).alias : n \in DOMAIN J} |->
     J[CHOOSE n \in DOMAIN J : FieldNamed(type, n).alias = a]]

\* What is there for a field is found under either of its names.
LEMMA GivenBack ==
  ASSUME NEW type \in Types, OwnAliases(type), NEW J, DOMAIN J \subseteq FieldNames(type),
         \A n \in DOMAIN J : IsSet(J[n]),
         \A n \in FieldNames(type) : FieldNamed(type, n).rule \in {"implicit", "explicit"},
         NEW name \in FieldNames(type)
  PROVE  LET f == FieldNamed(type, name)
             v == IF name \in DOMAIN J THEN J[name] ELSE Default(f)
         IN  Given(f, J) = v /\ Given(f, Snake(type, J)) = v
<1> DEFINE f == FieldNamed(type, name)
           o == Snake(type, J)
<1>1. f.name = name /\ f.rule \notin {"map", "list"}
  BY Places
<1>2. \A n \in FieldNames(type) :
        /\ FieldNamed(type, n).alias = f.alias => n = name
        /\ FieldNamed(type, n).alias = name => n = name
        /\ f.alias = n => name = n
  BY DEF OwnAliases
<1>3. Given(f, J) = IF name \in DOMAIN J THEN J[name] ELSE Default(f)
  <2> HIDE DEF f
  <2>1. CASE name \in DOMAIN J
    BY <1>1, <2>1 DEF Given
  <2>2. CASE name \notin DOMAIN J
    <3>1. f.name \notin DOMAIN J /\ f.alias \notin DOMAIN J
      BY <1>1, <1>2, <2>2
    <3> QED BY <2>2, <3>1 DEF Given
  <2> QED BY <2>1, <2>2
<1>4. DOMAIN o = {FieldNamed(type, n).alias : n \in DOMAIN J}
  BY DEF Snake
<1>5. ASSUME name \in DOMAIN J
      PROVE  /\ f.alias \in DOMAIN o /\ o[f.alias] = J[name]
             /\ name \in DOMAIN o => f.alias = name
  <2>1. f.alias \in DOMAIN o
    BY <1>4, <1>5
  <2>2. o[f.alias] = J[CHOOSE n \in DOMAIN J : FieldNamed(type, n).alias = f.alias]
    BY <1>4, <2>1 DEF Snake
  <2> DEFINE c == CHOOSE n \in DOMAIN J : FieldNamed(type, n).alias = f.alias
  <2>3. c \in DOMAIN J /\ FieldNamed(type, c).alias = f.alias
    BY <1>5
  <2> HIDE DEF c
  <2>4. c = name
    BY <1>2, <2>3
  <2>5. name \in DOMAIN o => f.alias = name
    <3> SUFFICES ASSUME name \in DOMAIN o PROVE f.alias = name
      OBVIOUS
    <3>1. PICK n \in DOMAIN J : FieldNamed(type, n).alias = name
      BY <1>4
    <3> QED BY <1>2, <3>1
  <2> QED BY <2>1, <2>2, <2>4, <2>5 DEF c
<1>6. ASSUME name \notin DOMAIN J
      PROVE  name \notin DOMAIN o /\ f.alias \notin DOMAIN o
  <2> HIDE DEF f
  <2>1. \A n \in DOMAIN J : FieldNamed(type, n).alias # name /\ FieldNamed(type, n).alias # f.alias
    BY <1>2, <1>6
  <2> QED BY <1>4, <2>1
<1>7. Given(f, o) = IF name \in DOMAIN J THEN J[name] ELSE Default(f)
  <2> HIDE DEF f, o
  <2>1. CASE name \in DOMAIN J
    <3>1. IsSet(o[f.alias]) /\ o[f.alias] = J[name] /\ f.alias \in DOMAIN o
      BY <1>5, <2>1
    <3>2. CASE name \in DOMAIN o
      <4>1. f.alias = name
        BY <1>5, <2>1, <3>2
      <4> QED BY <1>1, <2>1, <3>1, <4>1 DEF Given
    <3>3. CASE name \notin DOMAIN o
      BY <1>1, <2>1, <3>1, <3>3 DEF Given
    <3> QED BY <3>2, <3>3
  <2>2. CASE name \notin DOMAIN J
    BY <1>1, <1>6, <2>2 DEF Given
  <2> QED BY <2>1, <2>2
<1> QED BY <1>3, <1>7

\* The fields toJSON writes.
Present(type, m) == {name \in FieldNames(type) : m[name] # Default(FieldNamed(type, name))}

\* toJSON, fromJSON and fromPartial of a message with no message inside.
FlatJSON(type, m) ==
  [name \in Present(type, m) |->
     IF FieldNamed(type, name).kind = "enum" THEN Str("NULL_VALUE") ELSE m[name]]

ParseFlat(f, v) ==
  IF v # Default(f) /\ f.kind = "enum" THEN Num(IF v = Str("NULL_VALUE") THEN 0 ELSE -1) ELSE v

FlatRead(type, o) ==
  [name \in FieldNames(type) |-> ParseFlat(FieldNamed(type, name), Given(FieldNamed(type, name), o))]

TakeFlat(f, v) == IF IsSet(v) THEN v ELSE Default(f)

FlatPartial(type, m) ==
  [name \in FieldNames(type) |-> TakeFlat(FieldNamed(type, name), m[name])]

FlatType(type) ==
  /\ type \in Types
  /\ OwnAliases(type)
  /\ \A name \in FieldNames(type) :
       LET f == FieldNamed(type, name)
       IN  /\ f.rule \in {"implicit", "explicit"} /\ f.kind \notin Inner
           /\ f.kind = "enum" => f.rule = "explicit"

\* A value a field may have in a message: it is not null, and undefined or an enum only
\* where that is what the schema says.
JsonValue(f, v) ==
  /\ v # Null
  /\ v = Undef => Default(f) = Undef
  /\ f.kind = "enum" => v = Default(f) \/ v = Num(0)

JsonMessage(type, m) ==
  /\ m = [name \in FieldNames(type) |-> m[name]]
  /\ \A name \in FieldNames(type) : JsonValue(FieldNamed(type, name), m[name])

\* A message without messages inside is read back from its JSON, under either name.
LEMMA FlatKept ==
  ASSUME NEW type, FlatType(type), NEW m, JsonMessage(type, m)
  PROVE  /\ FlatRead(type, FlatJSON(type, m)) = m
         /\ FlatRead(type, Snake(type, FlatJSON(type, m))) = m
         /\ FlatPartial(type, m) = m
<1> DEFINE J == FlatJSON(type, m)
           P == Present(type, m)
<1>1. /\ type \in Types /\ OwnAliases(type)
      /\ \A n \in FieldNames(type) : FieldNamed(type, n).rule \in {"implicit", "explicit"}
  BY DEF FlatType
<1>2. DOMAIN J = P /\ P \subseteq FieldNames(type)
  BY DEF FlatJSON, Present
<1>3. ASSUME NEW n \in P
      PROVE  /\ J[n] = IF FieldNamed(type, n).kind = "enum" THEN Str("NULL_VALUE") ELSE m[n]
             /\ IsSet(J[n])
  <2> DEFINE f == FieldNamed(type, n)
             v == m[n]
  <2>1. v # Default(f) /\ JsonValue(f, v)
    BY DEF Present, JsonMessage
  <2>2. J[n] = IF f.kind = "enum" THEN Str("NULL_VALUE") ELSE v
    BY DEF FlatJSON
  <2>3. Str("NULL_VALUE") \notin {Undef, Null}
    BY DEF Str, Undef, Null
  <2> HIDE DEF f, v, J
  <2>4. v \notin {Undef, Null}
    BY <2>1 DEF JsonValue
  <2>5. IsSet(J[n])
    BY <2>2, <2>3, <2>4 DEF IsSet
  <2> QED BY <2>2, <2>5 DEF f, v
<1> HIDE DEF J
<1>4. ASSUME NEW name \in FieldNames(type)
      PROVE  LET f == FieldNamed(type, name)
             IN  /\ ParseFlat(f, Given(f, J)) = m[name]
                 /\ ParseFlat(f, Given(f, Snake(type, J))) = m[name]
                 /\ TakeFlat(f, m[name]) = m[name]
  <2> DEFINE f == FieldNamed(type, name)
             v == m[name]
             x == IF name \in P THEN J[name] ELSE Default(f)
  <2>1. Given(f, J) = x /\ Given(f, Snake(type, J)) = x
    BY <1>1, <1>2, <1>3, GivenBack
  <2>2. JsonValue(f, v) /\ (f.kind = "enum" => Default(f) = Undef)
    <3>1. f.kind = "enum" => f.rule = "explicit"
      BY DEF FlatType
    <3> QED BY <3>1 DEF JsonMessage, Default
  <2>3. name \in P <=> v # Default(f)
    BY DEF Present
  <2>4. name \in P => J[name] = IF f.kind = "enum" THEN Str("NULL_VALUE") ELSE v
    BY <1>3
  <2> HIDE DEF f, v, P
  <2>5. ParseFlat(f, x) = v
    <3>1. CASE name \in P /\ f.kind = "enum"
      <4>1. v = Num(0) /\ x = Str("NULL_VALUE")
        BY <2>2, <2>3, <2>4, <3>1 DEF JsonValue
      <4>2. x # Default(f)
        BY <2>2, <3>1, <4>1 DEF Str, Undef
      <4> HIDE DEF x
      <4> QED BY <3>1, <4>1, <4>2 DEF ParseFlat
    <3>2. CASE name \in P /\ f.kind # "enum"
      BY <2>4, <3>2 DEF ParseFlat
    <3>3. CASE name \notin P
      BY <2>3, <3>3 DEF ParseFlat
    <3> QED BY <3>1, <3>2, <3>3
  <2>6. TakeFlat(f, v) = v
    BY <2>2 DEF TakeFlat, IsSet, JsonValue
  <2> HIDE DEF x
  <2> QED BY <2>1, <2>5, <2>6 DEF f, v
<1>5. m = [name \in FieldNames(type) |-> m[name]]
  BY DEF JsonMessage
<1>6. FlatRead(type, J) = [name \in FieldNames(type) |-> m[name]]
  BY <1>4 DEF FlatRead
<1>7. FlatRead(type, Snake(type, J)) = [name \in FieldNames(type) |-> m[name]]
  BY <1>4 DEF FlatRead
<1>8. FlatPartial(type, m) = [name \in FieldNames(type) |-> m[name]]
  BY <1>4 DEF FlatPartial
<1> QED BY <1>5, <1>6, <1>7, <1>8 DEF J

\* toJSON and fromJSON of a message without messages inside.
LEMMA FlatIsJSON ==
  ASSUME NEW type, FlatType(type), NEW m, NEW o
  PROVE  /\ InnerToJSON(type, m) = FlatJSON(type, m) /\ ToJSON(type, m) = FlatJSON(type, m)
         /\ InnerFromJSON(type, o) = FlatRead(type, o) /\ FromJSON(type, o) = FlatRead(type, o)
<1>1. \A name \in FieldNames(type) :
        /\ FieldNamed(type, name).kind \notin Inner
        /\ FieldNamed(type, name).rule \notin {"list", "map"}
  BY DEF FlatType
<1>2. InnerToJSON(type, m) = FlatJSON(type, m)
  BY <1>1 DEF InnerToJSON, WriteJSON, FlatJSON, Present
<1>3. ToJSON(type, m) = FlatJSON(type, m)
  BY <1>1 DEF ToJSON, WriteJSON, FlatJSON, Present
<1>4. InnerFromJSON(type, o) = FlatRead(type, o)
  BY <1>1 DEF InnerFromJSON, ReadJSON, FlatRead, ParseFlat
<1>5. FromJSON(type, o) = FlatRead(type, o)
  BY <1>1 DEF FromJSON, ReadJSON, FlatRead, ParseFlat
<1> QED BY <1>2, <1>3, <1>4, <1>5

\* fromPartial of a message without messages inside.
LEMMA FlatIsPartial ==
  ASSUME NEW type, FlatType(type), NEW m, DOMAIN m = FieldNames(type)
  PROVE  InnerFromPartial(type, m) = FlatPartial(type, m) /\ FromPartial(type, m) = FlatPartial(type, m)
<1>1. \A name \in FieldNames(type) :
        /\ FieldNamed(type, name).kind \notin Inner
        /\ FieldNamed(type, name).rule \notin {"list", "map"}
  BY DEF FlatType
<1>2. InnerFromPartial(type, m) = FlatPartial(type, m)
  BY <1>1 DEF InnerFromPartial, TakePartial, FlatPartial, TakeFlat
<1>3. FromPartial(type, m) = FlatPartial(type, m)
  BY <1>1 DEF FromPartial, TakePartial, FlatPartial, TakeFlat
<1> QED BY <1>2, <1>3

\* The types toJSON and fromJSON are called for inside a message.
LEMMA InnerIs == Inner = CallTypes \cup InnerTypes \cup {"Empty"}
BY TypesAre DEF Inner, Messages15, CallTypes, PlainTypes, InnerTypes

\* Which messages have no messages inside.
LEMMA FlatTypes == \A type \in PlainTypes \cup InnerTypes \cup {"Value"} : FlatType(type)
<1>1. ASSUME NEW type \in PlainTypes \cup InnerTypes PROVE FlatType(type)
  <2>1. type \in Types /\ OwnAliases(type)
    BY CallSchemas, AliasesOwned DEF CallFields, CallTypes
  <2>2. \A name \in FieldNames(type) : PlainField(FieldNamed(type, name))
    BY CallSchemas
  <2>3. \A f : PlainField(f) => f.rule \in {"implicit", "explicit"} /\ f.kind \notin Inner /\ f.kind # "enum"
    BY InnerIs DEF PlainField, CallTypes, PlainTypes, InnerTypes
  <2> QED BY <2>1, <2>2, <2>3 DEF FlatType
<1>2. FlatType("Value")
  <2>1. "Value" \in Types /\ OwnAliases("Value")
    BY ValueSchema, AliasesOwned
  <2>2. \A name \in FieldNames("Value") : ValueKind(name) \notin Inner
    BY InnerIs, ValueSchema DEF ValueKind, CallTypes, PlainTypes, InnerTypes
  <2> QED BY <2>1, <2>2, ValueSchema DEF FlatType
<1> QED BY <1>1, <1>2

\* What JsonKeeps comes down to.
LEMMA KeptBy ==
  ASSUME NEW type, NEW m, NEW J, ToJSON(type, m) = J, FromJSON(type, J) = m,
         FromJSON(type, Snake(type, J)) = m, FromPartial(type, m) = m
  PROVE  JsonKeeps(type, m)
<1>1. Snake(type, J) = [a \in {FieldNamed(type, n).alias : n \in DOMAIN J} |->
                          J[CHOOSE n \in DOMAIN J : FieldNamed(type, n).alias = a]]
  BY DEF Snake
<1> QED BY <1>1 DEF JsonKeeps

\* The property for a message without messages inside.
LEMMA FlatKeeps ==
  ASSUME NEW type, FlatType(type), NEW m, JsonMessage(type, m)
  PROVE  JsonKeeps(type, m)
<1> DEFINE J == FlatJSON(type, m)
<1>1. DOMAIN m = FieldNames(type)
  BY DEF JsonMessage
<1>2. ToJSON(type, m) = J /\ \A o : FromJSON(type, o) = FlatRead(type, o)
  BY FlatIsJSON
<1>3. FromPartial(type, m) = FlatPartial(type, m)
  BY <1>1, FlatIsPartial
<1>4. FlatRead(type, J) = m /\ FlatRead(type, Snake(type, J)) = m /\ FlatPartial(type, m) = m
  BY FlatKept
<1> HIDE DEF J
<1> QED BY <1>2, <1>3, <1>4, KeptBy

\* A message with the fields of its type is one toJSON takes.
LEMMA PlainJson ==
  ASSUME NEW type \in PlainTypes \cup InnerTypes, NEW m, HasFields(type, m)
  PROVE  JsonMessage(type, m)
<1>1. m = [name \in FieldNames(type) |-> m[name]]
  BY DEF HasFields
<1>2. ASSUME NEW name \in FieldNames(type) PROVE JsonValue(FieldNamed(type, name), m[name])
  <2> DEFINE f == FieldNamed(type, name)
             v == m[name]
  <2>1. PlainField(f) /\ Fits(f, v)
    BY CallSchemas DEF HasFields
  <2> HIDE DEF f, v
  <2>2. f.kind # "enum"
    BY <2>1 DEF PlainField
  <2>3. f.rule = "explicit" => Default(f) = Undef
    BY DEF Default
  <2>4. (f.rule = "explicit" /\ v = Undef) \/ Type(v) \in {"string", "boolean", "number", "object"}
    BY <2>1 DEF Fits, PlainField
  <2>5. Type(Null) = "null" /\ Type(Undef) = "undefined"
    BY Tags DEF Type
  <2>6. v # Null /\ (v = Undef => f.rule = "explicit")
    BY <2>4, <2>5
  <2> QED BY <2>2, <2>3, <2>6 DEF JsonValue, f, v
<1> QED BY <1>1, <1>2 DEF JsonMessage

\* The property for the Value of every value.
LEMMA ValueKept ==
  ASSUME NEW v \in AnyValue
  PROVE  JsonKeeps("Value", ValueWrap(v))
<1> DEFINE m == ValueWrap(v)
<1>1. \A name \in ValueNames : JsonValue(FieldNamed("Value", name), Undef)
  BY ValueSchema DEF JsonValue, Undef, Null
<1>2. JsonMessage("Value", m)
  <2>1. CASE v = Undef
    <3>1. m = [n \in ValueNames |-> Undef]
      BY <2>1, WrapOne
    <3> HIDE DEF m
    <3> QED BY <1>1, <3>1, ValueSchema DEF JsonMessage
  <2>2. ASSUME NEW name \in ValueNames, NEW x, m = Only(name, x),
               x # Null, x # Undef, name = "nullValue" => x = Num(0)
        PROVE  JsonMessage("Value", m)
    <3>1. FieldNamed("Value", name).kind = "enum" => name = "nullValue"
      BY ValueSchema DEF ValueKind, ValueNames
    <3>2. JsonValue(FieldNamed("Value", name), x)
      BY <2>2, <3>1 DEF JsonValue
    <3> HIDE DEF m
    <3> QED BY <1>1, <2>2, <3>2, ValueSchema DEF JsonMessage, Only
  <2>3. CASE v = Null
    <3>1. m = Only("nullValue", Num(0)) /\ "nullValue" \in ValueNames
      BY <2>3, WrapOne DEF ValueNames
    <3>2. Num(0) # Null /\ Num(0) # Undef
      BY DEF Num, Null, Undef
    <3> HIDE DEF m
    <3> QED BY <2>2, <3>1, <3>2
  <2>4. CASE v \notin {Undef, Null}
    <3>1. m = Only(ValueField(v), v)
      BY <2>4, WrapOne
    <3>2. ValueField(v) \in ValueNames /\ ValueField(v) # "nullValue"
      <4>1. Type(v) # "null"
        <5>1. CASE v \in Scalars
          BY <5>1, Tags DEF Type
        <5>2. ASSUME NEW k \in Nat, k + 1 <= Nesting, ObjectOf(k, v) \/ ListOf(k, v)
              PROVE  Type(v) \in {"date", "object", "array"}
          BY <5>2, TypesOfValues
        <5> QED BY <2>4, <5>1, <5>2, InsideAny
      <4> QED BY <4>1 DEF ValueField, ValueNames
    <3> HIDE DEF m
    <3> QED BY <2>2, <2>4, <3>1, <3>2
  <2> QED BY <2>1, <2>3, <2>4
<1> HIDE DEF m
<1>3. JsonKeeps("Value", m)
  BY <1>2, FlatKeeps, FlatTypes
<1> QED BY <1>3 DEF m

\* What the stream response has for a field: undefined, or a message inside.
LEMMA StreamField ==
  ASSUME NEW m, IsMessage("ListenQueueStreamResponse", m), Encodable(m),
         NEW name \in FieldNames("ListenQueueStreamResponse")
  PROVE  LET f == FieldNamed("ListenQueueStreamResponse", name)
             v == m[name]
         IN  /\ f.rule = "explicit" /\ f.kind \in InnerTypes /\ f.kind \in Inner /\ Default(f) = Undef
             /\ v # Undef => /\ v = Msg(v[2]) /\ IsSet(v)
                             /\ HasFields(f.kind, v[2])
<1> DEFINE f == FieldNamed("ListenQueueStreamResponse", name)
           v == m[name]
<1>1. /\ DOMAIN m = FieldNames("ListenQueueStreamResponse") /\ v \in Held
      /\ Fits(f, v) /\ (Type(v) = "message" => HasFields(f.kind, v[2]))
  BY DEF IsMessage, HasFields, Encodable
<1>2. OuterField(f)
  <2>1. \E i \in DOMAIN Schema["ListenQueueStreamResponse"] :
          f = Schema["ListenQueueStreamResponse"][i]
    BY StreamSchema, Places
  <2> QED BY <2>1, StreamSchema
<1> HIDE DEF f, v
<1>3. f.rule = "explicit" /\ f.kind \in InnerTypes /\ f.kind \in Inner /\ Default(f) = Undef
  BY <1>2, InnerIs DEF OuterField, Default
<1>4. ASSUME v # Undef PROVE v = Msg(v[2]) /\ IsSet(v) /\ HasFields(f.kind, v[2])
  <2>1. Type(v) = "message"
    BY <1>1, <1>3, <1>4 DEF Fits, InnerTypes
  <2>2. v # Null
    BY <2>1, Tags DEF Type
  <2> QED BY <1>1, <1>4, <2>1, <2>2, HeldByTag DEF IsSet
<1> QED BY <1>3, <1>4 DEF f, v

\* toJSON, fromJSON and fromPartial of a message whose fields all hold messages.
OuterJSON(type, m) ==
  [name \in Present(type, m) |-> Msg(InnerToJSON(FieldNamed(type, name).kind, m[name][2]))]

OuterRead(type, o) ==
  [name \in FieldNames(type) |->
     LET v == Given(FieldNamed(type, name), o)
     IN  IF v = Undef THEN Undef ELSE Msg(InnerFromJSON(FieldNamed(type, name).kind, v[2]))]

OuterPartial(type, m) ==
  [name \in FieldNames(type) |->
     IF ~IsSet(m[name]) THEN Undef
                        ELSE Msg(InnerFromPartial(FieldNamed(type, name).kind, m[name][2]))]

\* toJSON, fromJSON and fromPartial of a message whose fields hold messages.
LEMMA OuterIsJSON ==
  ASSUME NEW type, NEW m, NEW o,
         \A name \in FieldNames(type) :
           LET f == FieldNamed(type, name)
           IN  f.rule = "explicit" /\ f.kind \in Inner /\ f.kind # "enum" /\ Default(f) = Undef
  PROVE  /\ ToJSON(type, m) = OuterJSON(type, m)
         /\ FromJSON(type, o) = OuterRead(type, o)
         /\ DOMAIN m = FieldNames(type) => FromPartial(type, m) = OuterPartial(type, m)
<1>1. ToJSON(type, m) = OuterJSON(type, m)
  BY DEF ToJSON, WriteJSON, OuterJSON, Present
<1>2. FromJSON(type, o) = OuterRead(type, o)
  BY DEF FromJSON, ReadJSON, OuterRead
<1>3. DOMAIN m = FieldNames(type) => FromPartial(type, m) = OuterPartial(type, m)
  BY DEF FromPartial, TakePartial, OuterPartial
<1> QED BY <1>1, <1>2, <1>3

\* The property for the responses on the stream.
LEMMA StreamKept ==
  ASSUME NEW m, IsMessage("ListenQueueStreamResponse", m), Encodable(m)
  PROVE  JsonKeeps("ListenQueueStreamResponse", m)
<1> DEFINE type == "ListenQueueStreamResponse"
           Kind(name) == FieldNamed(type, name).kind
           J == [name \in Present(type, m) |-> Msg(InnerToJSON(Kind(name), m[name][2]))]
           G(o, name) == Given(FieldNamed(type, name), o)
<1>1. \A name \in FieldNames(type) :
        LET f == FieldNamed(type, name)
            v == m[name]
        IN  /\ f.rule = "explicit" /\ f.kind \in InnerTypes /\ f.kind \in Inner /\ Default(f) = Undef
            /\ v # Undef => v = Msg(v[2]) /\ IsSet(v) /\ HasFields(f.kind, v[2])
  BY StreamField
<1>2. m = [name \in FieldNames(type) |-> m[name]]
  BY DEF IsMessage, HasFields
<1>3. \A name \in FieldNames(type) :
        LET f == FieldNamed(type, name)
        IN  f.rule = "explicit" /\ f.kind \in Inner /\ f.kind # "enum" /\ Default(f) = Undef
  BY <1>1 DEF InnerTypes
<1>4. ToJSON(type, m) = J
  BY <1>3, OuterIsJSON DEF OuterJSON
<1>5. \A o : FromJSON(type, o) =
               [name \in FieldNames(type) |->
                  IF G(o, name) = Undef THEN Undef ELSE Msg(InnerFromJSON(Kind(name), G(o, name)[2]))]
  BY <1>3, OuterIsJSON DEF OuterRead
<1>6. FromPartial(type, m) =
        [name \in FieldNames(type) |->
           IF ~IsSet(m[name]) THEN Undef ELSE Msg(InnerFromPartial(Kind(name), m[name][2]))]
  <2>1. DOMAIN m = FieldNames(type)
    BY <1>2
  <2> QED BY <1>3, <2>1, OuterIsJSON DEF OuterPartial
<1>7. ASSUME NEW name \in FieldNames(type), m[name] # Undef
      PROVE  LET x == m[name][2]
             IN  /\ InnerFromJSON(Kind(name), InnerToJSON(Kind(name), x)) = x
                 /\ InnerFromPartial(Kind(name), x) = x
  <2> DEFINE x == m[name][2]
             kind == Kind(name)
  <2>1. kind \in InnerTypes /\ HasFields(kind, x)
    BY <1>1, <1>7
  <2> HIDE DEF x, kind
  <2>2. FlatType(kind) /\ JsonMessage(kind, x) /\ DOMAIN x = FieldNames(kind)
    BY <2>1, FlatTypes, PlainJson DEF HasFields
  <2>3. /\ InnerToJSON(kind, x) = FlatJSON(kind, x)
        /\ InnerFromJSON(kind, FlatJSON(kind, x)) = FlatRead(kind, FlatJSON(kind, x))
        /\ InnerFromPartial(kind, x) = FlatPartial(kind, x)
    BY <2>2, FlatIsJSON, FlatIsPartial
  <2>4. FlatRead(kind, FlatJSON(kind, x)) = x /\ FlatPartial(kind, x) = x
    BY <2>2, FlatKept
  <2>5. InnerFromJSON(kind, InnerToJSON(kind, x)) = x /\ InnerFromPartial(kind, x) = x
    BY <2>3, <2>4
  <2> QED BY <2>5 DEF x, kind
<1>8. \A name \in FieldNames(type) : name \in Present(type, m) <=> m[name] # Undef
  BY <1>1 DEF Present
<1>9. /\ DOMAIN J = Present(type, m) /\ Present(type, m) \subseteq FieldNames(type)
      /\ \A name \in DOMAIN J : J[name] = Msg(InnerToJSON(Kind(name), m[name][2])) /\ IsSet(J[name])
  <2>1. \A x : IsSet(Msg(x))
    BY DEF IsSet, Msg, Undef, Null
  <2> QED BY <2>1 DEF Present
<1>10. type \in Types /\ OwnAliases(type)
  BY StreamSchema, AliasesOwned DEF CallTypes
<1> HIDE DEF J, type, G, Kind
<1>11. ASSUME NEW name \in FieldNames(type)
       PROVE  LET v == IF name \in DOMAIN J THEN J[name] ELSE Undef
              IN  G(J, name) = v /\ G(Snake(type, J), name) = v
  <2>1. \A n \in FieldNames(type) : FieldNamed(type, n).rule \in {"implicit", "explicit"}
    BY <1>1 DEF type
  <2>2. DOMAIN J \subseteq FieldNames(type) /\ \A n \in DOMAIN J : IsSet(J[n])
    BY <1>9
  <2>3. Default(FieldNamed(type, name)) = Undef
    BY <1>1 DEF type
  <2> QED BY <1>10, <2>1, <2>2, <2>3, GivenBack DEF G
<1>12. ASSUME NEW o, \A name \in FieldNames(type) :
                       G(o, name) = IF name \in DOMAIN J THEN J[name] ELSE Undef
       PROVE  FromJSON(type, o) = m
  <2>1. ASSUME NEW name \in FieldNames(type)
        PROVE  m[name] = IF G(o, name) = Undef THEN Undef
                                               ELSE Msg(InnerFromJSON(Kind(name), G(o, name)[2]))
    <3>1. CASE m[name] = Undef
      BY <1>8, <1>9, <1>12, <3>1
    <3>2. CASE m[name] # Undef
      <4>1. G(o, name) = Msg(InnerToJSON(Kind(name), m[name][2])) /\ G(o, name) # Undef
        BY <1>8, <1>9, <1>12, <3>2 DEF IsSet
      <4>2. G(o, name)[2] = InnerToJSON(Kind(name), m[name][2])
        BY <4>1 DEF Msg
      <4>3. m[name] = Msg(m[name][2])
        BY <1>1, <3>2 DEF type
      <4> QED BY <1>7, <3>2, <4>1, <4>2, <4>3
    <3> QED BY <3>1, <3>2
  <2> QED BY <1>2, <1>5, <2>1
<1>13. FromPartial(type, m) = m
  <2>1. ASSUME NEW name \in FieldNames(type)
        PROVE  m[name] = IF ~IsSet(m[name]) THEN Undef
                                            ELSE Msg(InnerFromPartial(Kind(name), m[name][2]))
    <3>1. m[name] # Undef => m[name] = Msg(m[name][2]) /\ IsSet(m[name])
      BY <1>1 DEF type
    <3>2. ~IsSet(Undef)
      BY DEF IsSet
    <3> QED BY <1>7, <3>1, <3>2
  <2> QED BY <1>2, <1>6, <2>1
<1>14. FromJSON(type, J) = m /\ FromJSON(type, Snake(type, J)) = m
  BY <1>11, <1>12
<1> QED BY <1>4, <1>13, <1>14, KeptBy DEF type

-----------------------------------------------------------------------------
(* What has crossed once does not change any more, and how far the         *)
(* recursion of the reference goes does not matter once it is enough.      *)

\* The mark of an absent key is not a value.
LEMMA AbsentIsNoValue == Absent \notin AnyValue /\ Absent # Undef
<1>1. \A v \in AnyValue : v # Absent
  <2> SUFFICES ASSUME NEW v \in AnyValue PROVE v # Absent
    OBVIOUS
  <2>1. CASE v \in Scalars \cup {Undef, Null}
    BY <2>1, Tags
  <2>2. ASSUME NEW m \in Nat, m + 1 <= Nesting, ObjectOf(m, v) \/ ListOf(m, v)
        PROVE  v # Absent
    <3>1. Type(v) \in {"date", "object", "array"}
      BY <2>2, TypesOfValues
    <3> QED BY <3>1, Tags DEF Type
  <2> QED BY <2>1, <2>2, InsideAny
<1> QED BY <1>1, Tags

\* Two naturals with the same greater integers are equal.
LEMMA SameBounds ==
  ASSUME NEW a \in Nat, NEW b \in Nat, \A r \in Int : a < r <=> b < r
  PROVE  a = b
<1>1. a < a + 1 <=> b < a + 1
  OBVIOUS
<1>2. a < b + 1 <=> b < b + 1
  OBVIOUS
<1> QED BY <1>1, <1>2

Settled(m) ==
  \A v \in Values[m] : \A c, d \in Nat : c >= m /\ d >= m =>
    /\ ValueAt(c, v) = ValueAt(d, v) /\ DepthAt(c, v) = DepthAt(d, v)
    /\ ValueAt(c, v) \in Values[m]
    /\ ValueAt(d, ValueAt(c, v)) = ValueAt(c, v) /\ DepthAt(d, ValueAt(c, v)) = DepthAt(c, v)

\* An object of m + 1 levels has settled if the values of m levels have.
LEMMA ObjectSettles ==
  ASSUME NEW m \in Nat, m + 1 <= Nesting, Settled(m), NEW v, ObjectOf(m, v),
         NEW b \in Nat, NEW e \in Nat, b >= m, e >= m
  PROVE  LET y == ValueAt(b + 1, v)
         IN  /\ y = ValueAt(e + 1, v) /\ DepthAt(b + 1, v) = DepthAt(e + 1, v)
             /\ ObjectOf(m, y)
             /\ ValueAt(e + 1, y) = y /\ DepthAt(e + 1, y) = DepthAt(b + 1, v)
<1> DEFINE f == Keyed(v)
           g == [k \in Keys |-> IF k \in Kept(f) THEN ValueAt(b, f[k]) ELSE Absent]
           y == Obj(g)
<1>1. \A k \in Kept(f) : f[k] \in Values[m] /\ f[k] # Undef /\ k \in Keys /\ f[k] \in AnyValue
  BY InsideObject, NestedHeld
<1>2. ValueAt(b + 1, v) = y
  BY CrossedParts DEF CrossedObject
<1>3. \A k \in Kept(f) :
        /\ ValueAt(e, f[k]) = ValueAt(b, f[k]) /\ DepthAt(e, f[k]) = DepthAt(b, f[k])
        /\ ValueAt(b, f[k]) \in Values[m] /\ ValueAt(b, f[k]) # Undef /\ ValueAt(b, f[k]) # Absent
        /\ ValueAt(e, ValueAt(b, f[k])) = ValueAt(b, f[k])
        /\ DepthAt(e, ValueAt(b, f[k])) = DepthAt(b, f[k])
  <2> SUFFICES ASSUME NEW k \in Kept(f)
               PROVE  /\ ValueAt(e, f[k]) = ValueAt(b, f[k]) /\ DepthAt(e, f[k]) = DepthAt(b, f[k])
                      /\ ValueAt(b, f[k]) \in Values[m] /\ ValueAt(b, f[k]) # Undef
                      /\ ValueAt(b, f[k]) # Absent
                      /\ ValueAt(e, ValueAt(b, f[k])) = ValueAt(b, f[k])
                      /\ DepthAt(e, ValueAt(b, f[k])) = DepthAt(b, f[k])
    OBVIOUS
  <2> DEFINE x == f[k]
  <2>1. x \in Values[m] /\ x \in AnyValue /\ x # Undef
    BY <1>1
  <2> HIDE DEF x
  <2>2. /\ ValueAt(b, x) = ValueAt(e, x) /\ DepthAt(b, x) = DepthAt(e, x)
        /\ ValueAt(b, x) \in Values[m]
        /\ ValueAt(e, ValueAt(b, x)) = ValueAt(b, x) /\ DepthAt(e, ValueAt(b, x)) = DepthAt(b, x)
    BY <2>1 DEF Settled
  <2>3. ValueAt(b, x) # Undef
    BY <2>1, CrossedDefined
  <2>4. ValueAt(b, x) # Absent
    <3>1. ValueAt(b, x) \in AnyValue
      BY <2>2, NestedHeld
    <3> QED BY <3>1, AbsentIsNoValue
  <2> QED BY <2>2, <2>3, <2>4 DEF x
<1> HIDE DEF f
<1>4. ObjectOf(m, y)
  <2>1. g \in [Keys -> Values[m] \cup {Absent}]
    BY <1>3
  <2> HIDE DEF g
  <2> QED BY <2>1 DEF ObjectOf, Objects, Obj
<1>5. Keyed(y) = g
  BY DEF Keyed, Obj, Type
<1>6. Kept(f) \subseteq Keys
  BY KeptFinite
<1>7. Kept(g) = Kept(f) /\ \A k \in Kept(f) : g[k] = ValueAt(b, f[k])
  <2>1. \A k \in Keys : g[k] = IF k \in Kept(f) THEN ValueAt(b, f[k]) ELSE Absent
    OBVIOUS
  <2> HIDE DEF g
  <2>2. \A k \in Keys : k \in Kept(g) <=> k \in Kept(f)
    <3>1. \A k \in Keys : k \in Kept(g) <=> g[k] \notin {Absent, Undef}
      BY DEF Kept
    <3> QED BY <1>3, <2>1, <3>1
  <2>3. Kept(g) \subseteq Keys
    BY KeptFinite
  <2> QED BY <1>6, <2>1, <2>2, <2>3
<1>8. ValueAt(e + 1, v) = y
  <2>1. ValueAt(e + 1, v) = Obj([k \in Keys |-> IF k \in Kept(f) THEN ValueAt(e, f[k]) ELSE Absent])
    BY CrossedParts DEF CrossedObject, f
  <2>2. [k \in Keys |-> IF k \in Kept(f) THEN ValueAt(e, f[k]) ELSE Absent] = g
    BY <1>3
  <2> QED BY <2>1, <2>2
<1> HIDE DEF g, y
<1>9. ValueAt(e + 1, y) = y
  <2>1. ValueAt(e + 1, y) = Obj([k \in Keys |-> IF k \in Kept(g) THEN ValueAt(e, g[k]) ELSE Absent])
    BY <1>4, <1>5, CrossedParts DEF CrossedObject
  <2>2. [k \in Keys |-> IF k \in Kept(g) THEN ValueAt(e, g[k]) ELSE Absent] = g
    <3>1. [k \in Keys |-> IF k \in Kept(g) THEN ValueAt(e, g[k]) ELSE Absent] =
            [k \in Keys |-> IF k \in Kept(f) THEN ValueAt(b, f[k]) ELSE Absent]
      BY <1>3, <1>7
    <3> QED BY <3>1 DEF g
  <2> QED BY <2>1, <2>2 DEF y
<1>10. /\ DepthAt(b + 1, v) \in Nat /\ DepthAt(e + 1, v) \in Nat /\ DepthAt(e + 1, y) \in Nat
  <2>1. v \in AnyValue /\ y \in AnyValue /\ b + 1 \in Nat /\ e + 1 \in Nat
    BY <1>4, NestedHeld
  <2> QED BY <2>1, DepthBounds
<1>11. \A r \in Int : /\ DepthAt(b + 1, v) < r <=> 1 < r /\ \A k \in Kept(f) : 3 + DepthAt(b, f[k]) < r
                      /\ DepthAt(e + 1, v) < r <=> 1 < r /\ \A k \in Kept(f) : 3 + DepthAt(e, f[k]) < r
                      /\ DepthAt(e + 1, y) < r <=> 1 < r /\ \A k \in Kept(g) : 3 + DepthAt(e, g[k]) < r
  BY <1>4, <1>5, NestedDepth DEF f
<1>12. \A k \in Kept(f) : DepthAt(e, f[k]) = DepthAt(b, f[k]) /\ DepthAt(e, g[k]) = DepthAt(b, f[k])
  BY <1>3, <1>7
<1>13. \A r \in Int : /\ DepthAt(b + 1, v) < r <=> DepthAt(e + 1, v) < r
                      /\ DepthAt(e + 1, y) < r <=> DepthAt(b + 1, v) < r
  BY <1>7, <1>11, <1>12
<1>14. DepthAt(b + 1, v) = DepthAt(e + 1, v) /\ DepthAt(e + 1, y) = DepthAt(b + 1, v)
  BY <1>10, <1>13, SameBounds
<1> QED BY <1>2, <1>4, <1>8, <1>9, <1>14

\* An array of m + 1 levels has settled if the values of m levels have.
LEMMA ListSettles ==
  ASSUME NEW m \in Nat, m + 1 <= Nesting, Settled(m), NEW v, ListOf(m, v),
         NEW b \in Nat, NEW e \in Nat, b >= m, e >= m
  PROVE  LET y == ValueAt(b + 1, v)
         IN  /\ y = ValueAt(e + 1, v) /\ DepthAt(b + 1, v) = DepthAt(e + 1, v)
             /\ ListOf(m, y)
             /\ ValueAt(e + 1, y) = y /\ DepthAt(e + 1, y) = DepthAt(b + 1, v)
<1> DEFINE s == v[2]
           n == Len(s)
           g == [i \in 1..n |-> ValueAt(b, s[i])]
           y == List(g)
<1>1. s \in Seq(Values[m])
  BY TypesOfValues
<1>2. n \in Nat /\ DOMAIN s = 1..n /\ \A i \in 1..n : s[i] \in Values[m]
  BY <1>1
<1>3. \A c \in Nat : ValueAt(c + 1, v) = List([i \in 1..n |-> ValueAt(c, s[i])])
  <2>1. \A c \in Nat : ValueAt(c + 1, v) = CrossedArray(c, v)
    BY CrossedParts
  <2>2. \A c \in Nat : CrossedArray(c, v) = List([i \in 1..n |-> ValueAt(c, s[i])])
    BY <1>2 DEF CrossedArray
  <2> QED BY <2>1, <2>2
<1>4. \A i \in 1..n :
        /\ ValueAt(e, s[i]) = ValueAt(b, s[i]) /\ DepthAt(e, s[i]) = DepthAt(b, s[i])
        /\ ValueAt(b, s[i]) \in Values[m]
        /\ ValueAt(e, ValueAt(b, s[i])) = ValueAt(b, s[i])
        /\ DepthAt(e, ValueAt(b, s[i])) = DepthAt(b, s[i])
  BY <1>2 DEF Settled
<1> HIDE DEF s, n
<1>5. g \in Seq(Values[m]) /\ Len(g) = n /\ DOMAIN g = 1..n /\ \A i \in 1..n : g[i] = ValueAt(b, s[i])
  BY <1>2, <1>4
<1>6. ValueAt(b + 1, v) = y
  BY <1>3
<1>7. ValueAt(e + 1, v) = y
  <2>1. [i \in 1..n |-> ValueAt(e, s[i])] = g
    BY <1>4
  <2> HIDE DEF g
  <2> QED BY <1>3, <2>1
<1>8. y[2] = g
  BY DEF List
<1>9. g = [i \in 1..n |-> g[i]]
  BY <1>5
<1> HIDE DEF g
<1>10. ListOf(m, y)
  BY <1>5 DEF ListOf, Lists, List
<1> HIDE DEF y
<1>11. ValueAt(e + 1, y) = y
  <2>1. ValueAt(e + 1, y) = CrossedArray(e, y)
    BY <1>10, CrossedParts
  <2>2. CrossedArray(e, y) = List([i \in 1..n |-> ValueAt(e, g[i])])
    BY <1>5, <1>8 DEF CrossedArray
  <2>3. [i \in 1..n |-> ValueAt(e, g[i])] = [i \in 1..n |-> g[i]]
    BY <1>4, <1>5
  <2> QED BY <1>9, <2>1, <2>2, <2>3 DEF y
<1>12. /\ DepthAt(b + 1, v) \in Nat /\ DepthAt(e + 1, v) \in Nat /\ DepthAt(e + 1, y) \in Nat
  <2>1. v \in AnyValue /\ y \in AnyValue /\ b + 1 \in Nat /\ e + 1 \in Nat
    BY <1>10, NestedHeld
  <2> QED BY <2>1, DepthBounds
<1>13. \A r \in Int : /\ DepthAt(b + 1, v) < r <=> 1 < r /\ \A i \in 1..n : 2 + DepthAt(b, s[i]) < r
                      /\ DepthAt(e + 1, v) < r <=> 1 < r /\ \A i \in 1..n : 2 + DepthAt(e, s[i]) < r
                      /\ DepthAt(e + 1, y) < r <=> 1 < r /\ \A i \in 1..n : 2 + DepthAt(e, g[i]) < r
  BY <1>5, <1>8, <1>10, NestedDepth DEF s, n
<1>14. \A i \in 1..n : DepthAt(e, s[i]) = DepthAt(b, s[i]) /\ DepthAt(e, g[i]) = DepthAt(b, s[i])
  BY <1>4, <1>5
<1>15. \A r \in Int : /\ DepthAt(b + 1, v) < r <=> DepthAt(e + 1, v) < r
                      /\ DepthAt(e + 1, y) < r <=> DepthAt(b + 1, v) < r
  BY <1>13, <1>14
<1>16. DepthAt(b + 1, v) = DepthAt(e + 1, v) /\ DepthAt(e + 1, y) = DepthAt(b + 1, v)
  BY <1>12, <1>15, SameBounds
<1> QED BY <1>6, <1>7, <1>10, <1>11, <1>16

\* Every value has settled.
LEMMA ValuesSettle == \A m \in Nat : m <= Nesting => Settled(m)
<1> DEFINE T == {m \in Nat : m <= Nesting => Settled(m)}
<1>1. ASSUME NEW v \in Scalars \cup {Undef, Null}, NEW m \in Nat, v \in Values[m],
             NEW c \in Nat, NEW d \in Nat
      PROVE  /\ ValueAt(c, v) = ValueAt(d, v) /\ DepthAt(c, v) = DepthAt(d, v)
             /\ ValueAt(c, v) \in Values[m]
             /\ ValueAt(d, ValueAt(c, v)) = ValueAt(c, v) /\ DepthAt(d, ValueAt(c, v)) = DepthAt(c, v)
  BY <1>1, CrossedParts
<1>2. 0 \in T
  <2>1. 0 \in Nat
    OBVIOUS
  <2>2. \A v \in Values[0] : v \in Scalars \cup {Undef, Null}
    BY <2>1, ValueCases
  <2> QED BY <1>1, <2>1, <2>2 DEF Settled
<1>3. ASSUME NEW m \in Nat, m \in T PROVE m + 1 \in T
  <2> SUFFICES ASSUME m + 1 <= Nesting, NEW v \in Values[m + 1], NEW c \in Nat, NEW d \in Nat,
                      c >= m + 1, d >= m + 1
               PROVE  /\ ValueAt(c, v) = ValueAt(d, v) /\ DepthAt(c, v) = DepthAt(d, v)
                      /\ ValueAt(c, v) \in Values[m + 1]
                      /\ ValueAt(d, ValueAt(c, v)) = ValueAt(c, v)
                      /\ DepthAt(d, ValueAt(c, v)) = DepthAt(c, v)
    BY DEF Settled
  <2>1. m + 1 \in Nat /\ m + 1 - 1 = m
    OBVIOUS
  <2>2. Settled(m)
    <3>1. m <= Nesting
      BY ValuesAssumption
    <3> QED BY <1>3, <3>1
  <2>3. PICK b \in Nat : c = b + 1 /\ b >= m
    <3>1. c - 1 \in Nat /\ c = c - 1 + 1 /\ c - 1 >= m
      OBVIOUS
    <3> QED BY <3>1
  <2>4. PICK e \in Nat : d = e + 1 /\ e >= m
    <3>1. d - 1 \in Nat /\ d = d - 1 + 1 /\ d - 1 >= m
      OBVIOUS
    <3> QED BY <3>1
  <2>5. CASE v \in Scalars \cup {Undef, Null}
    BY <1>1, <2>1, <2>5
  <2>6. CASE ObjectOf(m, v)
    <3> DEFINE y == ValueAt(b + 1, v)
    <3>1. /\ y = ValueAt(e + 1, v) /\ DepthAt(b + 1, v) = DepthAt(e + 1, v)
          /\ ObjectOf(m, y)
          /\ ValueAt(e + 1, y) = y /\ DepthAt(e + 1, y) = DepthAt(b + 1, v)
      BY <2>2, <2>3, <2>4, <2>6, ObjectSettles
    <3>2. y \in Values[m + 1]
      BY <3>1, NestedHeld
    <3>3. y = ValueAt(c, v)
      BY <2>3
    <3> HIDE DEF y
    <3> QED BY <2>3, <2>4, <3>1, <3>2, <3>3
  <2>7. CASE ListOf(m, v)
    <3> DEFINE y == ValueAt(b + 1, v)
    <3>1. /\ y = ValueAt(e + 1, v) /\ DepthAt(b + 1, v) = DepthAt(e + 1, v)
          /\ ListOf(m, y)
          /\ ValueAt(e + 1, y) = y /\ DepthAt(e + 1, y) = DepthAt(b + 1, v)
      BY <2>2, <2>3, <2>4, <2>7, ListSettles
    <3>2. y \in Values[m + 1]
      BY <3>1, NestedHeld
    <3>3. y = ValueAt(c, v)
      BY <2>3
    <3> HIDE DEF y
    <3> QED BY <2>3, <2>4, <3>1, <3>2, <3>3
  <2>8. v \in Scalars \cup {Undef, Null} \/ ObjectOf(m, v) \/ ListOf(m, v)
    BY <2>1, ValueCases DEF ObjectOf, ListOf
  <2> QED BY <2>5, <2>6, <2>7, <2>8
<1> HIDE DEF T
<1>4. \A m \in Nat : m \in T
  BY <1>2, <1>3, NaturalsAreReached
<1> QED BY <1>4 DEF T

\* What has crossed is a value, and crosses unchanged and as deep as before.
LEMMA SettledValue ==
  ASSUME NEW v \in AnyValue
  PROVE  LET y == ValueAt(Nesting, v)
         IN  y \in AnyValue /\ ValueAt(Nesting, y) = y /\ DepthAt(Nesting, y) = DepthAt(Nesting, v)
<1>1. Nesting \in Nat /\ Nesting <= Nesting
  BY ValuesAssumption
<1> QED BY <1>1, ValuesSettle DEF Settled, AnyValue

\* One level of JsonAt, at a value.
LEMMA JsonStep ==
  ASSUME NEW v \in AnyValue, NEW n \in Nat
  PROVE  /\ n = 0 => JsonAt[n][v] = v
         /\ n # 0 => JsonAt[n][v] = JsonOne(JsonAt[n - 1], v)
<1>1. CASE n = 0
  BY <1>1, JsonAtIs
<1>2. CASE n # 0
  <2>1. JsonAt[n] = DeeperJson(JsonAt[n - 1])
    BY <1>2, JsonAtIs
  <2> QED BY <1>2, <2>1 DEF DeeperJson
<1> QED BY <1>1, <1>2

\* What JSON makes of a value that has crossed is a value that crosses unchanged, and no
\* deeper or less deep.
JsonKept(m) ==
  \A v \in Values[m] : \A c, d \in Nat : c >= m /\ d >= m /\ ValueAt(d, v) = v =>
    /\ JsonAt[c][v] \in Values[m]
    /\ ValueAt(d, JsonAt[c][v]) = JsonAt[c][v] /\ DepthAt(d, JsonAt[c][v]) = DepthAt(d, v)
    /\ JsonAt[c][v] = Undef <=> v = Undef

\* JSON keeps an object of m + 1 levels so if it does the values of m levels.
LEMMA JsonOfObject ==
  ASSUME NEW m \in Nat, m + 1 <= Nesting, JsonKept(m), NEW v, ObjectOf(m, v),
         NEW b \in Nat, NEW e \in Nat, b >= m, e >= m, ValueAt(e + 1, v) = v
  PROVE  LET y == JsonAt[b + 1][v]
         IN  /\ ObjectOf(m, y) /\ Type(y) = "object" /\ Type(v) = "object"
             /\ ValueAt(e + 1, y) = y /\ DepthAt(e + 1, y) = DepthAt(e + 1, v)
<1> DEFINE f == Keyed(v)
           x == [k \in Keys |-> IF k \in Kept(f) THEN ValueAt(e, f[k]) ELSE Absent]
           g == [k \in Keys |-> IF f[k] \in {Absent, Undef} THEN Absent ELSE JsonAt[b][f[k]]]
           y == Obj(g)
<1>1. \A k \in Kept(f) : f[k] \in Values[m] /\ f[k] # Undef /\ k \in Keys /\ f[k] \in AnyValue
  BY InsideObject, NestedHeld
<1>2. v = Obj(x)
  BY CrossedParts DEF CrossedObject
<1>3. Type(v) = "object" /\ f = v[2] /\ f = x
  <2> HIDE DEF x
  <2> QED BY <1>2 DEF Type, Obj, Keyed
<1>4. JsonAt[b + 1][v] = y
  <2>1. v \in AnyValue
    BY NestedHeld
  <2>2. PICK p \in Nat : p = b + 1 /\ p # 0 /\ p - 1 = b
    OBVIOUS
  <2>3. JsonAt[p][v] = JsonOne(JsonAt[p - 1], v)
    BY <2>1, <2>2, JsonStep
  <2>4. JsonOne(JsonAt[b], v) = Obj([k \in Keys |-> IF v[2][k] \in {Absent, Undef}
                                                    THEN Absent ELSE JsonAt[b][v[2][k]]])
    BY <1>3 DEF JsonOne
  <2> HIDE DEF f, x
  <2> QED BY <1>3, <2>2, <2>3, <2>4
<1>5. \A k \in Kept(f) : f[k] = ValueAt(e, f[k])
  <2>1. \A k \in Kept(f) : x[k] = ValueAt(e, f[k])
    BY <1>1
  <2> HIDE DEF f, x
  <2> QED BY <1>3, <2>1
<1> HIDE DEF f, x
<1>6. \A k \in Kept(f) :
        /\ JsonAt[b][f[k]] \in Values[m] /\ JsonAt[b][f[k]] # Undef /\ JsonAt[b][f[k]] # Absent
        /\ ValueAt(e, JsonAt[b][f[k]]) = JsonAt[b][f[k]]
        /\ DepthAt(e, JsonAt[b][f[k]]) = DepthAt(e, f[k])
  <2> SUFFICES ASSUME NEW k \in Kept(f)
               PROVE  /\ JsonAt[b][f[k]] \in Values[m] /\ JsonAt[b][f[k]] # Undef
                      /\ JsonAt[b][f[k]] # Absent
                      /\ ValueAt(e, JsonAt[b][f[k]]) = JsonAt[b][f[k]]
                      /\ DepthAt(e, JsonAt[b][f[k]]) = DepthAt(e, f[k])
    OBVIOUS
  <2>1. PICK z : z = f[k] /\ z \in Values[m] /\ z # Undef /\ ValueAt(e, z) = z
    BY <1>1, <1>5
  <2>2. /\ JsonAt[b][z] \in Values[m] /\ JsonAt[b][z] # Undef
        /\ ValueAt(e, JsonAt[b][z]) = JsonAt[b][z] /\ DepthAt(e, JsonAt[b][z]) = DepthAt(e, z)
    BY <2>1 DEF JsonKept
  <2>3. JsonAt[b][z] # Absent
    BY <2>2, NestedHeld, AbsentIsNoValue
  <2> QED BY <2>1, <2>2, <2>3
<1>7. Kept(f) \subseteq Keys /\ \A k \in Keys : k \in Kept(f) <=> f[k] \notin {Absent, Undef}
  BY KeptFinite DEF Kept
<1>8. /\ g \in [Keys -> Values[m] \cup {Absent}]
      /\ \A k \in Keys : g[k] = IF k \in Kept(f) THEN JsonAt[b][f[k]] ELSE Absent
  BY <1>6, <1>7
<1>9. g = [k \in Keys |-> g[k]]
  BY <1>8
<1> HIDE DEF g
<1>10. ObjectOf(m, y) /\ Type(y) = "object" /\ Keyed(y) = g
  BY <1>8 DEF ObjectOf, Objects, Obj, Type, Keyed
<1>11. Kept(g) = Kept(f) /\ \A k \in Kept(f) : g[k] = JsonAt[b][f[k]]
  <2>1. \A k \in Keys : k \in Kept(g) <=> g[k] \notin {Absent, Undef}
    BY DEF Kept
  <2>2. \A k \in Keys : k \in Kept(g) <=> k \in Kept(f)
    BY <1>6, <1>8, <2>1
  <2>3. Kept(g) \subseteq Keys
    BY KeptFinite
  <2> QED BY <1>7, <1>8, <2>2, <2>3
<1> HIDE DEF y
<1>12. ValueAt(e + 1, y) = y
  <2>1. ValueAt(e + 1, y) = Obj([k \in Keys |-> IF k \in Kept(g) THEN ValueAt(e, g[k]) ELSE Absent])
    BY <1>10, CrossedParts DEF CrossedObject
  <2>2. \A k \in Keys : (IF k \in Kept(g) THEN ValueAt(e, g[k]) ELSE Absent) = g[k]
    BY <1>6, <1>8, <1>11
  <2>3. [k \in Keys |-> IF k \in Kept(g) THEN ValueAt(e, g[k]) ELSE Absent] = g
    BY <1>9, <2>2
  <2> QED BY <2>1, <2>3 DEF y
<1>13. DepthAt(e + 1, v) \in Nat /\ DepthAt(e + 1, y) \in Nat
  <2>1. v \in AnyValue /\ y \in AnyValue /\ e + 1 \in Nat
    BY <1>10, NestedHeld
  <2> QED BY <2>1, DepthBounds
<1>14. \A r \in Int : /\ DepthAt(e + 1, v) < r <=> 1 < r /\ \A k \in Kept(f) : 3 + DepthAt(e, f[k]) < r
                      /\ DepthAt(e + 1, y) < r <=> 1 < r /\ \A k \in Kept(g) : 3 + DepthAt(e, g[k]) < r
  BY <1>10, NestedDepth DEF f
<1>15. \A k \in Kept(f) : DepthAt(e, g[k]) = DepthAt(e, f[k])
  BY <1>6, <1>11
<1>16. \A r \in Int : DepthAt(e + 1, y) < r <=> DepthAt(e + 1, v) < r
  BY <1>11, <1>14, <1>15
<1>17. DepthAt(e + 1, y) = DepthAt(e + 1, v)
  BY <1>13, <1>16, SameBounds
<1> QED BY <1>3, <1>4, <1>10, <1>12, <1>17

\* JSON keeps an array of m + 1 levels so if it does the values of m levels.
LEMMA JsonOfList ==
  ASSUME NEW m \in Nat, m + 1 <= Nesting, JsonKept(m), NEW v, ListOf(m, v),
         NEW b \in Nat, NEW e \in Nat, b >= m, e >= m, ValueAt(e + 1, v) = v
  PROVE  LET y == JsonAt[b + 1][v]
         IN  /\ ListOf(m, y)
             /\ ValueAt(e + 1, y) = y /\ DepthAt(e + 1, y) = DepthAt(e + 1, v)
<1> DEFINE s == v[2]
           n == Len(s)
           x == [i \in 1..n |-> ValueAt(e, s[i])]
           g == [i \in 1..n |-> IF s[i] = Undef THEN Null ELSE JsonAt[b][s[i]]]
           y == List(g)
<1>1. s \in Seq(Values[m]) /\ Type(v) = "array"
  BY TypesOfValues
<1>2. n \in Nat /\ DOMAIN s = 1..n /\ \A i \in 1..n : s[i] \in Values[m]
  BY <1>1
<1>3. v = List(x)
  <2>1. v = CrossedArray(e, v)
    BY CrossedParts
  <2> QED BY <1>2, <2>1 DEF CrossedArray
<1>4. \A i \in 1..n : s[i] = ValueAt(e, s[i])
  <2>1. s = x
    <3> HIDE DEF x
    <3> QED BY <1>3 DEF List
  <2>2. \A i \in 1..n : x[i] = ValueAt(e, s[i])
    OBVIOUS
  <2> HIDE DEF s, x, n
  <2> QED BY <2>1, <2>2
<1>5. JsonAt[b + 1][v] = y
  <2>1. v \in AnyValue
    BY NestedHeld
  <2>2. PICK p \in Nat : p = b + 1 /\ p # 0 /\ p - 1 = b
    OBVIOUS
  <2>3. JsonAt[p][v] = JsonOne(JsonAt[p - 1], v)
    BY <2>1, <2>2, JsonStep
  <2>4. JsonOne(JsonAt[b], v) =
          List([i \in DOMAIN v[2] |-> IF v[2][i] = Undef THEN Null ELSE JsonAt[b][v[2][i]]])
    BY <1>1 DEF JsonOne
  <2> QED BY <1>2, <2>2, <2>3, <2>4
<1> HIDE DEF x, s, n
<1>6. ASSUME NEW i \in 1..n
      PROVE  /\ g[i] \in Values[m] /\ ValueAt(e, g[i]) = g[i]
             /\ DepthAt(e, g[i]) = DepthAt(e, s[i])
  <2>1. CASE s[i] = Undef
    <3>1. g[i] = Null
      BY <2>1
    <3>2. Null \in Values[m] /\ ValueAt(e, Null) = Null
          /\ DepthAt(e, Null) = 0 /\ DepthAt(e, Undef) = 0
      <4>1. Values[0] \subseteq Values[m] /\ Null \in Values[0]
        BY ValuesBelow, ValuesIs
      <4> QED BY <4>1, CrossedParts
    <3> QED BY <2>1, <3>1, <3>2
  <2>2. CASE s[i] # Undef
    <3>1. PICK z : z = s[i] /\ z \in Values[m] /\ ValueAt(e, z) = z /\ z # Undef
      BY <1>2, <1>4, <2>2
    <3>2. g[i] = JsonAt[b][z]
      BY <2>2, <3>1
    <3>3. /\ JsonAt[b][z] \in Values[m] /\ ValueAt(e, JsonAt[b][z]) = JsonAt[b][z]
          /\ DepthAt(e, JsonAt[b][z]) = DepthAt(e, z)
      BY <3>1 DEF JsonKept
    <3> QED BY <3>1, <3>2, <3>3
  <2> QED BY <2>1, <2>2
<1>7. g \in Seq(Values[m]) /\ Len(g) = n /\ DOMAIN g = 1..n /\ g = [i \in 1..n |-> g[i]]
  BY <1>2, <1>6
<1>8. y[2] = g
  BY DEF List
<1> HIDE DEF g
<1>9. ListOf(m, y)
  BY <1>7 DEF ListOf, Lists, List
<1> HIDE DEF y
<1>10. ValueAt(e + 1, y) = y
  <2>1. ValueAt(e + 1, y) = CrossedArray(e, y)
    BY <1>9, CrossedParts
  <2>2. CrossedArray(e, y) = List([i \in 1..n |-> ValueAt(e, g[i])])
    BY <1>7, <1>8 DEF CrossedArray
  <2>3. [i \in 1..n |-> ValueAt(e, g[i])] = [i \in 1..n |-> g[i]]
    BY <1>6
  <2> QED BY <1>7, <2>1, <2>2, <2>3 DEF y
<1>11. DepthAt(e + 1, v) \in Nat /\ DepthAt(e + 1, y) \in Nat
  <2>1. v \in AnyValue /\ y \in AnyValue /\ e + 1 \in Nat
    BY <1>9, NestedHeld
  <2> QED BY <2>1, DepthBounds
<1>12. \A r \in Int : /\ DepthAt(e + 1, v) < r <=> 1 < r /\ \A i \in 1..n : 2 + DepthAt(e, s[i]) < r
                      /\ DepthAt(e + 1, y) < r <=> 1 < r /\ \A i \in 1..n : 2 + DepthAt(e, g[i]) < r
  BY <1>7, <1>8, <1>9, NestedDepth DEF s, n
<1>13. \A r \in Int : DepthAt(e + 1, y) < r <=> DepthAt(e + 1, v) < r
  BY <1>6, <1>12
<1>14. DepthAt(e + 1, y) = DepthAt(e + 1, v)
  BY <1>11, <1>13, SameBounds
<1> QED BY <1>5, <1>9, <1>10, <1>14

\* JSON keeps every value so.
LEMMA JsonKeepsAll == \A m \in Nat : m <= Nesting => JsonKept(m)
<1> DEFINE T == {m \in Nat : m <= Nesting => JsonKept(m)}
<1>1. ASSUME NEW v \in Scalars \cup {Undef, Null}, NEW c \in Nat
      PROVE  JsonAt[c][v] = v
  <2>1. v \in AnyValue
    BY HeldValues
  <2>2. Type(v) \notin {"object", "array"}
    BY TypesOfValues
  <2>3. JsonOne(JsonAt[c - 1], v) = v
    BY <2>2 DEF JsonOne
  <2> QED BY <2>1, <2>3, JsonStep
<1>2. 0 \in T
  <2>1. 0 \in Nat
    OBVIOUS
  <2>2. \A v \in Values[0] : v \in Scalars \cup {Undef, Null}
    BY <2>1, ValueCases
  <2> QED BY <1>1, <2>1, <2>2 DEF JsonKept
<1>3. ASSUME NEW m \in Nat, m \in T PROVE m + 1 \in T
  <2> SUFFICES ASSUME m + 1 <= Nesting, NEW v \in Values[m + 1], NEW c \in Nat, NEW d \in Nat,
                      c >= m + 1, d >= m + 1, ValueAt(d, v) = v
               PROVE  LET y == JsonAt[c][v]
                      IN  /\ y \in Values[m + 1] /\ ValueAt(d, y) = y
                          /\ DepthAt(d, y) = DepthAt(d, v) /\ (y = Undef <=> v = Undef)
    BY DEF JsonKept
  <2>1. m + 1 \in Nat /\ m + 1 - 1 = m
    OBVIOUS
  <2>2. JsonKept(m)
    <3>1. m <= Nesting
      BY ValuesAssumption
    <3> QED BY <1>3, <3>1
  <2>3. PICK b \in Nat : c = b + 1 /\ b >= m
    <3>1. c - 1 \in Nat /\ c = c - 1 + 1 /\ c - 1 >= m
      OBVIOUS
    <3> QED BY <3>1
  <2>4. PICK e \in Nat : d = e + 1 /\ e >= m
    <3>1. d - 1 \in Nat /\ d = d - 1 + 1 /\ d - 1 >= m
      OBVIOUS
    <3> QED BY <3>1
  <2>5. CASE v \in Scalars \cup {Undef, Null}
    <3>1. JsonAt[c][v] = v
      BY <1>1, <2>5
    <3> QED BY <3>1
  <2>6. \A o : Type(o) \in {"object", "array"} => o # Undef
    BY Tags DEF Type
  <2>7. CASE ObjectOf(m, v)
    <3> DEFINE y == JsonAt[b + 1][v]
    <3>1. /\ ObjectOf(m, y) /\ Type(y) = "object" /\ Type(v) = "object"
          /\ ValueAt(e + 1, y) = y /\ DepthAt(e + 1, y) = DepthAt(e + 1, v)
      <4>1. ValueAt(e + 1, v) = v
        BY <2>4
      <4> QED BY <2>2, <2>3, <2>4, <2>7, <4>1, JsonOfObject
    <3>2. y \in Values[m + 1]
      BY <3>1, NestedHeld
    <3>3. y = JsonAt[c][v]
      BY <2>3
    <3> HIDE DEF y
    <3> QED BY <2>4, <2>6, <3>1, <3>2, <3>3
  <2>8. CASE ListOf(m, v)
    <3> DEFINE y == JsonAt[b + 1][v]
    <3>1. /\ ListOf(m, y)
          /\ ValueAt(e + 1, y) = y /\ DepthAt(e + 1, y) = DepthAt(e + 1, v)
      <4>1. ValueAt(e + 1, v) = v
        BY <2>4
      <4> QED BY <2>2, <2>3, <2>4, <2>8, <4>1, JsonOfList
    <3>2. y \in Values[m + 1] /\ Type(y) = "array" /\ Type(v) = "array"
      BY <2>8, <3>1, NestedHeld, TypesOfValues
    <3>3. y = JsonAt[c][v]
      BY <2>3
    <3> HIDE DEF y
    <3> QED BY <2>4, <2>6, <3>1, <3>2, <3>3
  <2>9. v \in Scalars \cup {Undef, Null} \/ ObjectOf(m, v) \/ ListOf(m, v)
    BY <2>1, ValueCases DEF ObjectOf, ListOf
  <2> QED BY <2>5, <2>7, <2>8, <2>9
<1> HIDE DEF T
<1>4. \A m \in Nat : m \in T
  BY <1>2, <1>3, NaturalsAreReached
<1> QED BY <1>4 DEF T

\* The column of the table: what it makes of a value that has crossed is as deep as the
\* value, and crosses unchanged.
LEMMA JsonSettles ==
  ASSUME NEW v \in AnyValue \ {Undef, Absent}, ValueAt(Nesting, v) = v
  PROVE  /\ Json(v) \in AnyValue \ {Undef, Absent}
         /\ ValueAt(Nesting, Json(v)) = Json(v)
         /\ DepthAt(Nesting, Json(v)) = DepthAt(Nesting, v)
<1>1. Nesting \in Nat /\ Nesting <= Nesting
  BY ValuesAssumption
<1> QED BY <1>1, JsonKeepsAll, AbsentIsNoValue DEF JsonKept, AnyValue, Json

\* What an object of a value is once it has crossed.
LEMMA InsideCrossed ==
  ASSUME NEW v \in AnyValue, Type(v) = "object"
  PROVE  LET y == ValueAt(Nesting, v)
             K == Kept(Keyed(v))
         IN  /\ Nesting # 0 /\ y \in AnyValue /\ y = Obj(y[2]) /\ Type(y) = "object"
             /\ \A k \in Keys : y[2][k] = IF k \in K THEN ValueAt(Nesting, Keyed(v)[k]) ELSE Absent
             /\ \A k \in K : Keyed(v)[k] \in AnyValue /\ Keyed(v)[k] # Undef /\ k \in Keys
             /\ DepthAt(Nesting, v) >= 1
             /\ \A r \in Int : DepthAt(Nesting, v) < r <=>
                                 1 < r /\ \A k \in K : 3 + DepthAt(Nesting, Keyed(v)[k]) < r
<1> DEFINE f == Keyed(v)
           K == Kept(f)
<1>1. PICK m \in Nat : m + 1 <= Nesting /\ ObjectOf(m, v)
  BY HeldValues, HeldByTag
<1>2. PICK c \in Nat : Nesting = c + 1 /\ c >= m
  <2>1. Nesting - 1 \in Nat /\ Nesting = Nesting - 1 + 1 /\ Nesting - 1 >= m
    BY <1>1, ValuesAssumption
  <2> QED BY <2>1
<1>3. \A k \in K : f[k] \in Values[m] /\ f[k] # Undef /\ k \in Keys /\ f[k] \in AnyValue
  BY <1>1, InsideObject, NestedHeld
<1>4. Nesting \in Nat /\ Nesting >= m /\ m <= Nesting /\ Nesting # 0
  BY <1>1, ValuesAssumption
<1>5. \A k \in K : ValueAt(c, f[k]) = ValueAt(Nesting, f[k]) /\ DepthAt(c, f[k]) = DepthAt(Nesting, f[k])
  <2>1. Settled(m)
    BY <1>4, ValuesSettle
  <2> QED BY <1>2, <1>3, <1>4, <2>1 DEF Settled
<1> DEFINE g == [k \in Keys |-> IF k \in K THEN ValueAt(c, f[k]) ELSE Absent]
<1>6. ValueAt(Nesting, v) = Obj(g)
  <2>1. ValueAt(c + 1, v) = CrossedObject(c, v)
    BY <1>1, CrossedParts
  <2> QED BY <1>2, <2>1 DEF CrossedObject
<1>7. \A k \in Keys : g[k] = IF k \in K THEN ValueAt(Nesting, f[k]) ELSE Absent
  BY <1>5
<1>8. \A r \in Int : DepthAt(Nesting, v) < r <=> 1 < r /\ \A k \in K : 3 + DepthAt(Nesting, f[k]) < r
  <2>1. \A r \in Int : DepthAt(c + 1, v) < r <=> 1 < r /\ \A k \in K : 3 + DepthAt(c, f[k]) < r
    BY <1>1, NestedDepth
  <2> HIDE DEF f
  <2> QED BY <1>2, <1>5, <2>1
<1>9. ValueAt(Nesting, v) \in AnyValue
  BY SettledValue
<1>10. DepthAt(Nesting, v) >= 1
  <2>1. DepthAt(Nesting, v) \in Nat
    BY <1>4, DepthBounds
  <2>2. ~(DepthAt(Nesting, v) < 1)
    BY <1>8
  <2> QED BY <2>1, <2>2
<1> HIDE DEF f, g
<1>11. Obj(g)[2] = g /\ Type(Obj(g)) = "object"
  BY DEF Obj, Type
<1>12. ValueAt(Nesting, v) = Obj(ValueAt(Nesting, v)[2]) /\ Type(ValueAt(Nesting, v)) = "object"
  BY <1>6, <1>11
<1>13. \A k \in Keys : ValueAt(Nesting, v)[2][k] = IF k \in K THEN ValueAt(Nesting, f[k]) ELSE Absent
  BY <1>6, <1>7, <1>11
<1> QED BY <1>3, <1>4, <1>8, <1>9, <1>10, <1>12, <1>13 DEF f

\* Dates and empty objects, where values nest at all.
LEMMA PlainValues ==
  ASSUME Nesting # 0
  PROVE  /\ DepthAt(Nesting, Date) = 1
         /\ Obj(NoKeys) \in AnyValue /\ Type(Obj(NoKeys)) = "object"
         /\ ValueAt(Nesting, Obj(NoKeys)) = Obj(NoKeys)
<1>1. PICK c \in Nat : Nesting = c + 1
  <2>1. Nesting - 1 \in Nat /\ Nesting = Nesting - 1 + 1
    BY ValuesAssumption
  <2> QED BY <2>1
<1>2. 0 \in Nat /\ 0 + 1 <= Nesting
  BY ValuesAssumption
<1>3. Kept(NoKeys) = {}
  BY DEF Kept, NoKeys
<1>4. ObjectOf(0, Date) /\ Keyed(Date) = NoKeys
  BY DEF ObjectOf, Keyed, Type, Date
<1>5. DepthAt(Nesting, Date) = 1
  <2>1. \A r \in Int : DepthAt(Nesting, Date) < r <=> 1 < r
    <3>1. \A r \in Int : DepthAt(c + 1, Date) < r <=>
                           1 < r /\ \A k \in Kept(NoKeys) : 3 + DepthAt(c, NoKeys[k]) < r
      BY <1>2, <1>4, NestedDepth
    <3> QED BY <1>1, <1>3, <3>1
  <2>2. DepthAt(Nesting, Date) \in Nat
    BY <1>2, <1>4, NestedHeld, DepthBounds, ValuesAssumption
  <2> QED BY <2>1, <2>2, SameBounds
<1>6. ObjectOf(0, Obj(NoKeys)) /\ Keyed(Obj(NoKeys)) = NoKeys /\ Type(Obj(NoKeys)) = "object"
  <2>1. NoKeys \in [Keys -> Values[0] \cup {Absent}]
    BY DEF NoKeys
  <2>2. Obj(NoKeys) \in Objects(Values[0])
    BY <2>1 DEF Objects, Obj
  <2> QED BY <2>2 DEF ObjectOf, Keyed, Type, Obj
<1>7. Obj(NoKeys) \in AnyValue
  BY <1>2, <1>6, NestedHeld
<1>8. ValueAt(Nesting, Obj(NoKeys)) = Obj(NoKeys)
  <2>1. ValueAt(c + 1, Obj(NoKeys)) = CrossedObject(c, Obj(NoKeys))
    BY <1>2, <1>6, CrossedParts
  <2>2. CrossedObject(c, Obj(NoKeys)) = Obj([k \in Keys |-> Absent])
    BY <1>3, <1>6 DEF CrossedObject
  <2> QED BY <1>1, <2>1, <2>2 DEF NoKeys
<1> QED BY <1>5, <1>6, <1>7, <1>8

-----------------------------------------------------------------------------
(* Requests of push, and the deliveries made of them.                      *)

\* The fields of a request of push.
LEMMA PushFields ==
  ASSUME NEW p, IsMessage("PushRequest", p), Encodable(p)
  PROVE  /\ DOMAIN p = {"queueId", "jobData", "metadata"}
         /\ p.queueId \in Scalars
         /\ p.jobData \in AnyValue /\ (p.jobData = Undef \/ Type(p.jobData) = "object")
         /\ p.metadata \in AnyValue /\ (p.metadata = Undef \/ Type(p.metadata) = "object")
<1> DEFINE type == "PushRequest"
           S == Schema[type]
<1>1. S = <<Field("queueId", "string", "implicit"), Field("jobData", "Struct", "explicit"),
            Field("metadata", "Struct", "explicit")>>
  BY DEF Schema, PushRequest
<1>2. type \in Types
  BY TypesAre DEF Messages15
<1> HIDE DEF S
<1>3. /\ DOMAIN S = 1..3 /\ S[1] = Field("queueId", "string", "implicit")
      /\ S[2] = Field("jobData", "Struct", "explicit") /\ S[3] = Field("metadata", "Struct", "explicit")
  BY <1>1
<1>4. S[1].name = "queueId" /\ S[2].name = "jobData" /\ S[3].name = "metadata"
  BY <1>3 DEF Field
<1>5. FieldNames(type) = {"queueId", "jobData", "metadata"}
  BY <1>3, <1>4 DEF FieldNames, S
<1>6. /\ FieldNamed(type, "queueId") = Field("queueId", "string", "implicit")
      /\ FieldNamed(type, "jobData") = Field("jobData", "Struct", "explicit")
      /\ FieldNamed(type, "metadata") = Field("metadata", "Struct", "explicit")
  <2>1. 1 \in DOMAIN S /\ 2 \in DOMAIN S /\ 3 \in DOMAIN S
    BY <1>3
  <2> QED BY <1>2, <1>3, <1>4, <2>1, Places DEF S
<1>7. DOMAIN p = FieldNames(type) /\ \A name \in FieldNames(type) :
        p[name] \in Held /\ Fits(FieldNamed(type, name), p[name])
  BY DEF IsMessage, HasFields, Encodable
<1>8. p.queueId \in Scalars
  <2>1. Type(p.queueId) = "string"
    BY <1>5, <1>6, <1>7 DEF Fits, Field
  <2> QED BY <1>5, <1>7, <2>1, HeldByTag
<1>9. ASSUME NEW v \in Held, NEW name, Fits(Field(name, "Struct", "explicit"), v)
      PROVE  v \in AnyValue /\ (v = Undef \/ Type(v) = "object")
  <2>1. v = Undef \/ Type(v) = "object"
    BY <1>9 DEF Fits, Field
  <2> QED BY <2>1, HeldByTag, HeldValues
<1> QED BY <1>5, <1>6, <1>7, <1>8, <1>9

PlainOf(m) == [name \in DOMAIN m |-> Plain(m[name])]

\* The fields of a request of push once it has crossed.
LEMMA PushCrossed ==
  ASSUME NEW p, IsMessage("PushRequest", p), Encodable(p)
  PROVE  /\ PlainOf(p).queueId \in Scalars
         /\ PlainOf(p).jobData = ValueAt(Nesting, p.jobData)
         /\ PlainOf(p).jobData = Undef <=> p.jobData = Undef
         /\ p.metadata = Undef => MetaOf(p) = Obj(NoKeys) /\ MetaOf(PlainOf(p)) = Obj(NoKeys)
         /\ p.metadata # Undef => /\ MetaOf(p) = p.metadata
                                  /\ MetaOf(PlainOf(p)) = ValueAt(Nesting, p.metadata)
<1>1. /\ DOMAIN p = {"queueId", "jobData", "metadata"}
      /\ p.queueId \in Scalars
      /\ p.jobData \in AnyValue /\ (p.jobData = Undef \/ Type(p.jobData) = "object")
      /\ p.metadata \in AnyValue /\ (p.metadata = Undef \/ Type(p.metadata) = "object")
  BY PushFields
<1>2. \A v \in AnyValue : v = Undef \/ Type(v) = "object" => Plain(v) = ValueAt(Nesting, v)
  <2> SUFFICES ASSUME NEW v \in AnyValue, v = Undef \/ Type(v) = "object"
               PROVE  Plain(v) = ValueAt(Nesting, v)
    OBVIOUS
  <2>1. Type(v) # "message"
    BY Tags DEF Type
  <2> QED BY <2>1, CrossedIs
<1>3. Plain(p.queueId) = p.queueId
  <2>1. Type(p.queueId) # "message" /\ p.queueId \in AnyValue
    BY <1>1, HeldValues, TypesOfValues
  <2>2. ValueAt(Nesting, p.queueId) = p.queueId
    BY <1>1, CrossedParts, ValuesAssumption
  <2> QED BY <2>1, <2>2, CrossedIs
<1>4. ValueAt(Nesting, Undef) = Undef
  BY CrossedParts, ValuesAssumption
<1>5. \A v \in AnyValue : v # Undef => ValueAt(Nesting, v) # Undef
  BY CrossedDefined, ValuesAssumption
<1>6. /\ PlainOf(p).queueId = p.queueId
      /\ PlainOf(p).jobData = ValueAt(Nesting, p.jobData)
      /\ PlainOf(p).metadata = ValueAt(Nesting, p.metadata)
  BY <1>1, <1>2, <1>3 DEF PlainOf
<1> QED BY <1>1, <1>4, <1>5, <1>6 DEF MetaOf

\* The fields of a delivery.
LEMMA StreamNames ==
  /\ FieldNames("ListenQueueStreamResponse") = {"queueConnectResponse", "jobDataResponse"}
  /\ FieldNamed("ListenQueueStreamResponse", "queueConnectResponse").rule = "explicit"
  /\ FieldNamed("ListenQueueStreamResponse", "jobDataResponse").kind = "JobDataResponse"
  /\ FieldNames("JobDataResponse") = {"jobData"}
  /\ FieldNamed("JobDataResponse", "jobData") = Field("jobData", "Struct", "explicit")
<1> DEFINE S == Schema["ListenQueueStreamResponse"]
           I == Schema["JobDataResponse"]
<1>1. /\ S = <<Aliased(Field("queueConnectResponse", "QueueConnectResponse", "explicit"),
                       "queue_connect_response"),
               Aliased(Field("jobDataResponse", "JobDataResponse", "explicit"), "job_data_response")>>
      /\ I = <<Field("jobData", "Struct", "explicit")>>
  BY DEF Schema, ListenQueueStreamResponse, JobDataResponse
<1>2. "ListenQueueStreamResponse" \in Types /\ "JobDataResponse" \in Types
  BY TypesAre DEF Messages15
<1> HIDE DEF S, I
<1>3. /\ DOMAIN S = 1..2 /\ S[1].name = "queueConnectResponse" /\ S[1].rule = "explicit"
      /\ S[2].name = "jobDataResponse" /\ S[2].kind = "JobDataResponse"
  BY <1>1 DEF Field, Aliased
<1>4. DOMAIN I = 1..1 /\ I[1] = Field("jobData", "Struct", "explicit")
  BY <1>1
<1>5. I[1].name = "jobData"
  BY <1>4 DEF Field
<1>6. FieldNames("ListenQueueStreamResponse") = {"queueConnectResponse", "jobDataResponse"}
  BY <1>3 DEF FieldNames, S
<1>7. FieldNames("JobDataResponse") = {"jobData"}
  BY <1>4, <1>5 DEF FieldNames, I
<1>8. /\ FieldNamed("ListenQueueStreamResponse", "queueConnectResponse") = S[1]
      /\ FieldNamed("ListenQueueStreamResponse", "jobDataResponse") = S[2]
  <2>1. 1 \in DOMAIN S /\ 2 \in DOMAIN S
    BY <1>3
  <2> QED BY <1>2, <1>3, <2>1, Places DEF S
<1>9. FieldNamed("JobDataResponse", "jobData") = I[1]
  <2>1. 1 \in DOMAIN I
    BY <1>4
  <2> QED BY <1>2, <1>5, <2>1, Places DEF I
<1> QED BY <1>3, <1>4, <1>6, <1>7, <1>8, <1>9

\* A delivery is a message of the stream, and holds an object.
LEMMA DeliveryIsMessage ==
  ASSUME NEW request
  PROVE  /\ IsMessage("ListenQueueStreamResponse", Delivery(request))
         /\ Type(JobObject(request)) = "object"
<1> DEFINE m == Delivery(request)
           inner == [jobData |-> JobObject(request)]
           stream == "ListenQueueStreamResponse"
<1>1. Type(JobObject(request)) = "object"
  BY DEF JobObject, Literal, Obj, Type
<1>2. HasFields("JobDataResponse", inner)
  <2>1. Fits(Field("jobData", "Struct", "explicit"), inner["jobData"])
    BY <1>1 DEF Fits, Field
  <2>2. inner = [name \in {"jobData"} |-> inner[name]]
    OBVIOUS
  <2> QED BY <2>1, <2>2, StreamNames DEF HasFields
<1>3. /\ DOMAIN m = {"queueConnectResponse", "jobDataResponse"}
      /\ m = [name \in {"queueConnectResponse", "jobDataResponse"} |-> m[name]]
      /\ m["queueConnectResponse"] = Undef /\ m["jobDataResponse"] = Msg(inner)
  BY DEF Delivery
<1> HIDE DEF m, inner
<1>4. Type(Undef) = "undefined" /\ Type(Msg(inner)) = "message" /\ Msg(inner)[2] = inner
  BY DEF Type, Undef, Msg
<1>5. Fits(FieldNamed(stream, "queueConnectResponse"), Undef)
  BY StreamNames DEF Fits
<1>6. Fits(FieldNamed(stream, "jobDataResponse"), Msg(inner))
  BY <1>4, StreamNames DEF Fits
<1>7. HasFields(stream, m)
  BY <1>3, <1>5, <1>6, StreamNames DEF HasFields
<1>8. IsMessage(stream, m)
  BY <1>2, <1>3, <1>4, <1>7, StreamNames DEF IsMessage
<1> QED BY <1>1, <1>8 DEF m

\* The Job object a delivery holds, key by key.
LEMMA JobObjectKeys ==
  ASSUME NEW request
  PROVE  LET job == Keyed(JobObject(request))
         IN  /\ job["ID"] = Str("id") /\ job["queue"] = request.queueId
             /\ job["status"] = Str("Available") /\ job["data"] = Json(request.jobData)
             /\ job["createdAt"] = Date /\ job["_metadata"] = Json(MetaOf(request))
             /\ \A k \in Keys : k \notin JobKeys => job[k] = Absent
             /\ JobKeys \subseteq Keys
<1> DEFINE r == [ID |-> Str("id"), queue |-> request.queueId, status |-> Str("Available"),
                 data |-> Json(request.jobData), createdAt |-> Date,
                 _metadata |-> Json(MetaOf(request))]
<1>1. JobKeys \subseteq Keys
  BY JobKeysAssumption
<1>2. DOMAIN r = JobKeys
  BY DEF JobKeys
<1>3. /\ r["ID"] = Str("id") /\ r["queue"] = request.queueId
      /\ r["status"] = Str("Available") /\ r["data"] = Json(request.jobData)
      /\ r["createdAt"] = Date /\ r["_metadata"] = Json(MetaOf(request))
  OBVIOUS
<1>4. Keyed(JobObject(request)) = [k \in Keys |-> IF k \in JobKeys THEN r[k] ELSE Absent]
  <2>1. JobObject(request) = Obj([k \in Keys |-> IF k \in JobKeys THEN r[k] ELSE Absent])
    BY <1>2 DEF JobObject, Literal
  <2> HIDE DEF r
  <2> QED BY <2>1 DEF Keyed, Type, Obj
<1> HIDE DEF r
<1>5. {"ID", "queue", "status", "data", "createdAt", "_metadata"} \subseteq JobKeys
  BY DEF JobKeys
<1> QED BY <1>1, <1>3, <1>4, <1>5

\* The data and the metadata of a request: objects, as deep after the crossing as before.
LEMMA PushObjects ==
  ASSUME NEW p, IsMessage("PushRequest", p), Encodable(p), p.jobData # Undef
  PROVE  LET data == PlainOf(p).jobData
             meta == MetaOf(PlainOf(p))
         IN  /\ Nesting # 0
             /\ data \in AnyValue \ {Undef, Absent} /\ meta \in AnyValue \ {Undef, Absent}
             /\ ValueAt(Nesting, data) = data /\ data = Plain(p.jobData)
             /\ ValueAt(Nesting, meta) = meta /\ meta = Plain(MetaOf(p))
             /\ DepthAt(Nesting, data) = Depth(p.jobData) /\ Depth(p.jobData) \in Nat
             /\ DepthAt(Nesting, meta) = Depth(MetaOf(p)) /\ Depth(MetaOf(p)) \in Nat
             /\ Depth(p.jobData) >= 1 /\ Depth(MetaOf(p)) <= 4 * Nesting
             /\ Depth(p.jobData) <= 4 * Nesting
<1>1. /\ p.jobData \in AnyValue /\ Type(p.jobData) = "object"
      /\ p.metadata \in AnyValue /\ (p.metadata = Undef \/ Type(p.metadata) = "object")
  BY PushFields
<1>2. Nesting # 0 /\ DepthAt(Nesting, p.jobData) >= 1
  BY <1>1, InsideCrossed
<1>3. /\ PlainOf(p).jobData = ValueAt(Nesting, p.jobData)
      /\ MetaOf(PlainOf(p)) = ValueAt(Nesting, MetaOf(p))
      /\ MetaOf(p) \in AnyValue /\ Type(MetaOf(p)) = "object"
  <2>1. CASE p.metadata = Undef
    BY <1>2, <2>1, PushCrossed, PlainValues
  <2>2. CASE p.metadata # Undef
    BY <1>1, <2>2, PushCrossed
  <2> QED BY <2>1, <2>2, PushCrossed
<1>4. ASSUME NEW v \in AnyValue, Type(v) = "object"
      PROVE  LET y == ValueAt(Nesting, v)
             IN  /\ y \in AnyValue \ {Undef, Absent} /\ ValueAt(Nesting, y) = y /\ y = Plain(v)
                 /\ DepthAt(Nesting, y) = Depth(v) /\ Depth(v) = DepthAt(Nesting, v)
                 /\ Depth(v) \in Nat /\ Depth(v) <= 4 * Nesting
  <2>1. v # Undef
    BY <1>4, Tags DEF Type
  <2>2. ValueAt(Nesting, v) # Undef
    BY <2>1, CrossedDefined, ValuesAssumption
  <2>3. Plain(v) = ValueAt(Nesting, v) /\ Depth(v) = DepthAt(Nesting, v)
        /\ DepthAt(Nesting, v) \in Nat /\ DepthAt(Nesting, v) <= 4 * Nesting
    BY <1>4, CrossedIs
  <2> QED BY <2>2, <2>3, SettledValue, AbsentIsNoValue
<1>5. LET y == ValueAt(Nesting, p.jobData)
      IN  /\ y \in AnyValue \ {Undef, Absent} /\ ValueAt(Nesting, y) = y /\ y = Plain(p.jobData)
          /\ DepthAt(Nesting, y) = Depth(p.jobData) /\ Depth(p.jobData) = DepthAt(Nesting, p.jobData)
          /\ Depth(p.jobData) \in Nat /\ Depth(p.jobData) <= 4 * Nesting
  BY <1>1, <1>4
<1>6. LET y == ValueAt(Nesting, MetaOf(p))
      IN  /\ y \in AnyValue \ {Undef, Absent} /\ ValueAt(Nesting, y) = y /\ y = Plain(MetaOf(p))
          /\ DepthAt(Nesting, y) = Depth(MetaOf(p))
          /\ Depth(MetaOf(p)) \in Nat /\ Depth(MetaOf(p)) <= 4 * Nesting
  BY <1>3, <1>4
<1> QED BY <1>2, <1>3, <1>5, <1>6

\* The same, once they have been through the column of the table too.
LEMMA PushStored ==
  ASSUME NEW p, IsMessage("PushRequest", p), Encodable(p), p.jobData # Undef
  PROVE  LET data == Json(PlainOf(p).jobData)
             meta == Json(MetaOf(PlainOf(p)))
         IN  /\ data \notin {Undef, Absent} /\ meta \notin {Undef, Absent}
             /\ ValueAt(Nesting, data) = data /\ data = Json(Plain(p.jobData))
             /\ ValueAt(Nesting, meta) = meta /\ meta = Json(Plain(MetaOf(p)))
             /\ DepthAt(Nesting, data) = Depth(p.jobData)
             /\ DepthAt(Nesting, meta) = Depth(MetaOf(p))
<1> DEFINE data == PlainOf(p).jobData
           meta == MetaOf(PlainOf(p))
<1>1. /\ data \in AnyValue \ {Undef, Absent} /\ meta \in AnyValue \ {Undef, Absent}
      /\ ValueAt(Nesting, data) = data /\ data = Plain(p.jobData)
      /\ ValueAt(Nesting, meta) = meta /\ meta = Plain(MetaOf(p))
      /\ DepthAt(Nesting, data) = Depth(p.jobData) /\ DepthAt(Nesting, meta) = Depth(MetaOf(p))
  BY PushObjects
<1> HIDE DEF data, meta
<1>2. /\ Json(data) \in AnyValue \ {Undef, Absent} /\ ValueAt(Nesting, Json(data)) = Json(data)
      /\ DepthAt(Nesting, Json(data)) = DepthAt(Nesting, data)
  BY <1>1, JsonSettles
<1>3. /\ Json(meta) \in AnyValue \ {Undef, Absent} /\ ValueAt(Nesting, Json(meta)) = Json(meta)
      /\ DepthAt(Nesting, Json(meta)) = DepthAt(Nesting, meta)
  BY <1>1, JsonSettles
<1> QED BY <1>1, <1>2, <1>3 DEF data, meta

\* The Job object made of a request that has crossed, once it crosses in its turn.
LEMMA JobCrosses ==
  ASSUME NEW p, IsMessage("PushRequest", p), Encodable(p), p.jobData # Undef,
         JobObject(PlainOf(p)) \in AnyValue
  PROVE  LET job == ValueAt(Nesting, JobObject(PlainOf(p)))[2]
         IN  /\ job["data"] = Json(Plain(p.jobData)) /\ job["_metadata"] = Json(Plain(MetaOf(p)))
             /\ \A r \in Int : DepthAt(Nesting, JobObject(PlainOf(p))) < r <=>
                                 3 + Depth(p.jobData) < r /\ 3 + Depth(MetaOf(p)) < r
<1> DEFINE R == PlainOf(p)
           v == JobObject(R)
           f == Keyed(v)
           K == Kept(f)
<1>1. /\ f["ID"] = Str("id") /\ f["queue"] = R.queueId
      /\ f["status"] = Str("Available") /\ f["data"] = Json(R.jobData)
      /\ f["createdAt"] = Date /\ f["_metadata"] = Json(MetaOf(R))
      /\ \A k \in Keys : k \notin JobKeys => f[k] = Absent
      /\ JobKeys \subseteq Keys
  BY JobObjectKeys
<1>2. Type(v) = "object"
  BY DeliveryIsMessage
<1>3. f["ID"] \in Scalars /\ f["queue"] \in Scalars /\ f["status"] \in Scalars
  <2>1. R.queueId \in Scalars
    BY PushCrossed
  <2>2. "id" \in Text /\ "Available" \in Text
    BY JobKeysAssumption
  <2>3. Str("id") \in Scalars /\ Str("Available") \in Scalars
    BY <2>2 DEF Scalars, Str
  <2> QED BY <1>1, <2>1, <2>3
<1>4. f["createdAt"] \notin {Absent, Undef}
  BY <1>1 DEF Date, Absent, Undef
<1>5. \A s \in Scalars : s \notin {Absent, Undef}
  BY Tags
<1>6. f["data"] \notin {Absent, Undef} /\ f["_metadata"] \notin {Absent, Undef}
  BY <1>1, PushStored
<1>7. \A k : k \in JobKeys <=> k \in {"ID", "queue", "status", "data", "createdAt", "_metadata"}
  BY DEF JobKeys
<1>8. K = JobKeys
  <2>1. \A k \in JobKeys : f[k] \notin {Absent, Undef}
    BY <1>3, <1>4, <1>5, <1>6, <1>7
  <2> HIDE DEF f
  <2> QED BY <1>1, <2>1 DEF Kept
<1> DEFINE y == ValueAt(Nesting, v)
<1>9. /\ \A k \in Keys : y[2][k] = IF k \in K THEN ValueAt(Nesting, f[k]) ELSE Absent
      /\ DepthAt(Nesting, v) >= 1
      /\ \A r \in Int : DepthAt(Nesting, v) < r <=>
                          1 < r /\ \A k \in K : 3 + DepthAt(Nesting, f[k]) < r
  BY <1>2, InsideCrossed
<1>10. /\ ValueAt(Nesting, f["data"]) = Json(Plain(p.jobData))
       /\ ValueAt(Nesting, f["_metadata"]) = Json(Plain(MetaOf(p)))
       /\ DepthAt(Nesting, f["data"]) = Depth(p.jobData)
       /\ DepthAt(Nesting, f["_metadata"]) = Depth(MetaOf(p))
       /\ Depth(p.jobData) \in Nat /\ Depth(MetaOf(p)) \in Nat /\ Depth(p.jobData) >= 1
  BY <1>1, PushObjects, PushStored
<1>11. /\ DepthAt(Nesting, f["ID"]) = 0 /\ DepthAt(Nesting, f["queue"]) = 0
       /\ DepthAt(Nesting, f["status"]) = 0
  BY <1>3, CrossedParts, ValuesAssumption
<1>12. DepthAt(Nesting, f["createdAt"]) = 1
  BY <1>1, PushObjects, PlainValues
<1> HIDE DEF f, K, y, v
<1>13. y[2]["data"] = Json(Plain(p.jobData)) /\ y[2]["_metadata"] = Json(Plain(MetaOf(p)))
  BY <1>1, <1>7, <1>8, <1>9, <1>10
<1>14. ASSUME NEW r \in Int
       PROVE  DepthAt(Nesting, v) < r <=> 3 + Depth(p.jobData) < r /\ 3 + Depth(MetaOf(p)) < r
  <2>1. PICK d \in Nat : d = Depth(p.jobData) /\ d >= 1
    BY <1>10
  <2>2. PICK e \in Nat : e = Depth(MetaOf(p))
    BY <1>10
  <2>3. (\A k \in K : 3 + DepthAt(Nesting, f[k]) < r) <=>
          3 + 0 < r /\ 3 + d < r /\ 3 + 1 < r /\ 3 + e < r
    BY <1>7, <1>8, <1>10, <1>11, <1>12, <2>1, <2>2
  <2>4. (1 < r /\ 3 + 0 < r /\ 3 + d < r /\ 3 + 1 < r /\ 3 + e < r) <=> 3 + d < r /\ 3 + e < r
    BY <2>1
  <2> QED BY <1>9, <2>1, <2>2, <2>3, <2>4
<1> QED BY <1>13, <1>14 DEF y, v

\* When a delivery can be read, and what is read of it.
LEMMA DeliveryRead ==
  ASSUME NEW p, IsMessage("PushRequest", p), Encodable(p), p.jobData # Undef,
         Encodable(Delivery(PlainOf(p)))
  PROVE  LET m == Delivery(PlainOf(p))
             plain == [name \in DOMAIN m |-> Plain(m[name])]
             job == plain.jobDataResponse[2].jobData[2]
         IN  /\ DepthOf(m) < RecursionLimit <=>
                  4 + Max({Depth(p.jobData), Depth(MetaOf(p))}) < RecursionLimit
             /\ job["data"] = Json(Plain(p.jobData)) /\ job["_metadata"] = Json(Plain(MetaOf(p)))
<1> DEFINE m == Delivery(PlainOf(p))
           stream == "ListenQueueStreamResponse"
           inner == [jobData |-> JobObject(PlainOf(p))]
           v == Msg(inner)
           a == Depth(p.jobData)
           b == Depth(MetaOf(p))
<1>1. IsMessage(stream, m) /\ stream \in CallTypes
  BY DeliveryIsMessage DEF CallTypes
<1>2. /\ DOMAIN m = {"queueConnectResponse", "jobDataResponse"}
      /\ m["queueConnectResponse"] = Undef /\ m["jobDataResponse"] = v
  BY DEF Delivery
<1>3. Type(v) = "message" /\ v[2] = inner /\ DOMAIN inner = {"jobData"}
      /\ inner["jobData"] = JobObject(PlainOf(p))
  BY DEF Type, Msg
<1>4. JobObject(PlainOf(p)) \in AnyValue
  <2>1. v \in Held
    BY <1>2 DEF Encodable
  <2> QED BY <1>3, <2>1, HeldByTag
<1>5. Enveloped(v)
  BY <1>3, <1>4 DEF Enveloped
<1> DEFINE J == JobObject(PlainOf(p))
<1>6. /\ \A r \in Int : Depth(v) < r + 1 <=> DepthAt(Nesting, J) < r
      /\ Plain(v) = Msg([name \in {"jobData"} |-> ValueAt(Nesting, J)])
      /\ Depth(v) \in Nat
  <2>1. /\ \A r \in Int : Depth(v) < r + 1 <=>
                             \A name \in DOMAIN v[2] : DepthAt(Nesting, v[2][name]) < r
        /\ Plain(v) = Msg([name \in DOMAIN v[2] |-> ValueAt(Nesting, v[2][name])])
        /\ Depth(v) \in Nat
    BY <1>5, EnvelopedDepth
  <2> HIDE DEF v, inner, J
  <2>2. \A name : name \in DOMAIN v[2] <=> name = "jobData"
    BY <1>3
  <2>3. [name \in DOMAIN v[2] |-> ValueAt(Nesting, v[2][name])] =
          [name \in {"jobData"} |-> ValueAt(Nesting, J)]
    BY <1>3 DEF J
  <2>4. v[2]["jobData"] = J
    BY <1>3 DEF J
  <2>5. ASSUME NEW r \in Int
        PROVE  (\A name \in DOMAIN v[2] : DepthAt(Nesting, v[2][name]) < r) <=>
                 DepthAt(Nesting, J) < r
    BY <2>2, <2>4
  <2> QED BY <2>1, <2>3, <2>5
<1>7. /\ ValueAt(Nesting, J)[2]["data"] = Json(Plain(p.jobData))
      /\ ValueAt(Nesting, J)[2]["_metadata"] = Json(Plain(MetaOf(p)))
      /\ \A r \in Int : DepthAt(Nesting, J) < r <=> 3 + a < r /\ 3 + b < r
  BY <1>4, JobCrosses
<1>8. a \in Nat /\ b \in Nat /\ a <= 4 * Nesting /\ b <= 4 * Nesting
  BY PushObjects
<1>9. Max({a, b}) \in {a, b} /\ a <= Max({a, b}) /\ b <= Max({a, b})
  <2> DEFINE S == {a, b}
  <2>1. PICK c \in Nat : c = 4 * Nesting
    BY ValuesAssumption
  <2>2. S # {} /\ (\A s \in S : s \in Nat) /\ (\A s \in S : s <= c) /\ a \in S /\ b \in S
    BY <1>8, <2>1
  <2>3. Max(S) \in S /\ \A s \in S : s <= Max(S)
    <3> HIDE DEF S
    <3> QED BY <2>2, GreatestOf
  <2> QED BY <2>2, <2>3
<1>10. Depth(Undef) = 0
  <2>1. Undef \in AnyValue /\ DepthAt(Nesting, Undef) = 0 /\ Type(Undef) # "message"
    BY HeldValues, CrossedParts, ValuesAssumption DEF Type, Undef
  <2> QED BY <2>1, CrossedIs
<1> DEFINE L == RecursionLimit
<1>11. L \in Nat
  BY RecursionLimitAssumption
<1>12. DepthOf(m) < L <=> Depth(Undef) < L /\ Depth(v) < L
  <2>1. DepthOf(m) < L <=> \A name \in DOMAIN m : Depth(m[name]) < L
    BY <1>1, <1>11, MessageDepth
  <2> HIDE DEF m, v
  <2> QED BY <1>2, <2>1
<1> HIDE DEF m, v, J, inner
<1>13. DepthOf(m) < L <=> 4 + Max({a, b}) < L
  <2>1. PICK x \in Nat : x = a
    BY <1>8
  <2>2. PICK z \in Nat : z = b
    BY <1>8
  <2>3. PICK g \in Nat : g = Max({a, b}) /\ g \in {x, z} /\ x <= g /\ z <= g
    BY <1>8, <1>9, <2>1, <2>2
  <2>4. PICK r \in Int : r = L - 1 /\ r + 1 = L
    BY <1>11
  <2>5. Depth(v) < L <=> 3 + x < r /\ 3 + z < r
    BY <1>6, <1>7, <2>1, <2>2, <2>4
  <2>6. (0 < L /\ 3 + x < r /\ 3 + z < r) <=> 4 + g < L
    BY <1>11, <2>3, <2>4
  <2> QED BY <1>10, <1>12, <2>3, <2>5, <2>6
<1>14. LET plain == [name \in DOMAIN m |-> Plain(m[name])]
       IN  plain.jobDataResponse[2].jobData[2] = ValueAt(Nesting, J)[2]
  BY <1>2, <1>6 DEF Msg
<1> QED BY <1>7, <1>13, <1>14 DEF m, v, J, inner

\* One key of an object that has crossed.
LEMMA KeyCrosses ==
  ASSUME NEW v \in AnyValue, Type(v) = "object", NEW k \in Keys
  PROVE  LET y == ValueAt(Nesting, v)
             x == Keyed(v)[k]
         IN  /\ y \in AnyValue /\ Type(y) = "object"
             /\ x \in {Absent, Undef} => Keyed(y)[k] \in {Absent, Undef}
             /\ x \notin {Absent, Undef} => /\ x \in AnyValue /\ Keyed(y)[k] = ValueAt(Nesting, x)
                                            /\ ValueAt(Nesting, x) \notin {Absent, Undef}
             /\ Type(x) \in {"number", "string"} => Keyed(y)[k] = x
<1> DEFINE y == ValueAt(Nesting, v)
           f == Keyed(v)
<1>1. /\ y \in AnyValue /\ Type(y) = "object"
      /\ y[2][k] = IF k \in Kept(f) THEN ValueAt(Nesting, f[k]) ELSE Absent
      /\ k \in Kept(f) => f[k] \in AnyValue /\ f[k] # Undef
  BY InsideCrossed
<1>2. Keyed(y) = y[2]
  BY <1>1 DEF Keyed
<1>3. k \in Kept(f) <=> f[k] \notin {Absent, Undef}
  BY DEF Kept
<1>4. ASSUME k \in Kept(f)
      PROVE  ValueAt(Nesting, f[k]) \notin {Absent, Undef}
  <2>1. ValueAt(Nesting, f[k]) # Undef /\ ValueAt(Nesting, f[k]) \in AnyValue
    BY <1>1, <1>4, CrossedDefined, SettledValue, ValuesAssumption
  <2> QED BY <2>1, AbsentIsNoValue
<1>5. ASSUME Type(f[k]) \in {"number", "string"}
      PROVE  k \in Kept(f) /\ ValueAt(Nesting, f[k]) = f[k]
  <2>1. f[k] \notin {Absent, Undef}
    BY <1>5, Tags DEF Type
  <2>2. f[k] \in AnyValue
    BY <1>1, <1>3, <2>1
  <2>3. f[k] \in Scalars
    BY <1>5, <2>2, HeldValues, HeldByTag
  <2> QED BY <1>3, <2>1, <2>3, CrossedParts, ValuesAssumption
<1> HIDE DEF y, f
<1>6. QED BY <1>1, <1>2, <1>3, <1>4, <1>5 DEF y, f

\* Metadata that is there when it is sent says the same when it has crossed.
LEMMA MetadataCrosses ==
  ASSUME NEW p, IsMessage("PushRequest", p), Encodable(p), IsJobMetadata(MetaOf(p)),
         Countable(JobMetadataOf(p).retry)
  PROVE  /\ JobMetadataOf(PlainOf(p)) = JobMetadataOf(p)
         /\ JobMetadataOf(p).retry \in CountedRetry
         /\ JobMetadataOf(p) = Metadata(JobMetadataOf(p).retry)
<1> DEFINE meta == MetaOf(p)
           read == MetaOf(PlainOf(p))
           retry == Keyed(meta)["retry"]
           retry2 == Keyed(read)["retry"]
           backoff == Keyed(retry)["backoff"]
           backoff2 == Keyed(retry2)["backoff"]
           num == Keyed(retry)["attempts"]
           made == Keyed(retry)["currentAttempt"]
           made2 == Keyed(retry2)["currentAttempt"]
           Counter(v) == IF v \in {Absent, Undef} THEN 0 ELSE v[2]
           type == Keyed(backoff)["type"]
           delay == Keyed(backoff)["delay"]
<1>1. {"retry", "attempts", "backoff", "type", "delay", "currentAttempt"} \subseteq Keys
  BY JobKeysAssumption DEF RetryKeys
<1>2. /\ retry \in {Absent, Undef} => retry2 \in {Absent, Undef}
      /\ retry \notin {Absent, Undef} => /\ retry \in AnyValue /\ retry2 = ValueAt(Nesting, retry)
                                         /\ retry2 \notin {Absent, Undef}
  <2>1. CASE p.metadata = Undef
    <3>1. meta = Obj(NoKeys) /\ read = Obj(NoKeys)
      BY <2>1, PushCrossed
    <3>2. Keyed(Obj(NoKeys)) = NoKeys
      BY DEF Keyed, Type, Obj
    <3>3. retry = Absent /\ retry2 = Absent
      BY <1>1, <3>1, <3>2 DEF NoKeys
    <3> QED BY <3>3
  <2>2. CASE p.metadata # Undef
    <3>1. meta = p.metadata /\ read = ValueAt(Nesting, p.metadata)
      BY <2>2, PushCrossed
    <3>2. p.metadata \in AnyValue /\ Type(p.metadata) = "object"
      BY <2>2, PushFields
    <3> HIDE DEF meta, read
    <3> QED BY <1>1, <3>1, <3>2, KeyCrosses
  <2> QED BY <2>1, <2>2
<1>3. /\ JobMetadataOf(p) = IF retry \in {Absent, Undef}
                            THEN Metadata(NoRetry)
                            ELSE Metadata(RetryMeta(num[2], type[2], delay[2], Counter(made)))
      /\ JobMetadataOf(PlainOf(p)) =
           IF retry2 \in {Absent, Undef}
           THEN Metadata(NoRetry)
           ELSE Metadata(RetryMeta(Keyed(retry2)["attempts"][2], Keyed(backoff2)["type"][2],
                                   Keyed(backoff2)["delay"][2], Counter(made2)))
  BY DEF JobMetadataOf
<1>4. \/ retry \in {Absent, Undef}
      \/ /\ num \in {"number"} \X Int /\ delay \in {"number"} \X Nat
         /\ type \in {Str("fixed"), Str("exponential")}
         /\ made \in {Absent, Undef} \cup ({"number"} \X Int)
  BY DEF IsJobMetadata
<1>5. NoRetry \in CountedRetry /\ Metadata(NoRetry).retry = NoRetry
  BY DEF NoRetry, CountedRetry, RetryEntry, Metadata
<1>6. CASE retry \in {Absent, Undef}
  <2>1. JobMetadataOf(p) = Metadata(NoRetry) /\ JobMetadataOf(PlainOf(p)) = Metadata(NoRetry)
    BY <1>2, <1>3, <1>6
  <2> QED BY <1>5, <2>1
<1>7. CASE retry \notin {Absent, Undef}
  <2> HIDE DEF retry2, retry
  <2>1. /\ num \in {"number"} \X Int /\ delay \in {"number"} \X Nat
        /\ made \in {Absent, Undef} \cup ({"number"} \X Int)
        /\ type \in {Str("fixed"), Str("exponential")}
        /\ retry \in AnyValue /\ retry2 = ValueAt(Nesting, retry) /\ retry2 \notin {Absent, Undef}
    BY <1>2, <1>4, <1>7
  <2>2. Type(num) = "number" /\ Type(delay) = "number" /\ Type(type) = "string"
    BY <2>1 DEF Type, Str
  <2>3. ASSUME NEW o, NEW k \in Keys, Type(Keyed(o)[k]) \in {"number", "string", "object"}
        PROVE  Type(o) = "object" /\ Keyed(o)[k] \notin {Absent, Undef}
    <3>1. Type(Absent) = "absent" /\ Type(Undef) = "undefined"
      BY DEF Type, Absent, Undef
    <3>2. CASE Type(o) # "object"
      <4>1. Keyed(o)[k] = Absent
        BY <3>2 DEF Keyed, NoKeys
      <4> QED BY <2>3, <3>1, <4>1
    <3> QED BY <2>3, <3>1, <3>2
  <2>4. Type(backoff) = "object" /\ Type(retry) = "object"
    BY <1>1, <2>2, <2>3
  <2>5. backoff \notin {Absent, Undef}
    BY <2>4 DEF Type, Absent, Undef
  <2>6. /\ Keyed(retry2)["attempts"] = num
        /\ backoff \in AnyValue /\ backoff2 = ValueAt(Nesting, backoff)
    BY <1>1, <2>1, <2>2, <2>4, <2>5, KeyCrosses
  <2>7. Keyed(backoff2)["type"] = type /\ Keyed(backoff2)["delay"] = delay
    <3> HIDE DEF backoff, backoff2
    <3> QED BY <1>1, <2>2, <2>4, <2>6, KeyCrosses
  <2> DEFINE r == RetryMeta(num[2], type[2], delay[2], Counter(made))
  <2>8. Counter(made2) = Counter(made) /\ Counter(made) \in Int
    <3>1. CASE made \in {Absent, Undef}
      <4>1. made2 \in {Absent, Undef}
        BY <1>1, <2>1, <2>4, <3>1, KeyCrosses
      <4> QED BY <3>1, <4>1
    <3>2. CASE made \in {"number"} \X Int
      <4>1. Type(made) = "number" /\ made[2] \in Int
        BY <3>2 DEF Type
      <4>2. made2 = made
        BY <1>1, <2>1, <2>4, <4>1, KeyCrosses
      <4>3. made \notin {Absent, Undef}
        BY <4>1 DEF Type, Absent, Undef
      <4> HIDE DEF made, made2
      <4> QED BY <4>1, <4>2, <4>3
    <3> HIDE DEF made
    <3> QED BY <2>1, <3>1, <3>2
  <2>9. JobMetadataOf(p) = Metadata(r) /\ JobMetadataOf(PlainOf(p)) = Metadata(r)
    <3> HIDE DEF Counter, made, made2
    <3> QED BY <1>3, <1>7, <2>1, <2>6, <2>7, <2>8
  <2>10. num[2] \in Int /\ delay[2] \in Nat /\ type[2] \in {"fixed", "exponential"}
    BY <2>1 DEF Str
  <2>11. Metadata(r).retry = r
    BY DEF Metadata
  <2>12. r \in CountedRetry
    <3>1. r.defined /\ r.attempts = num[2] /\ r.currentAttempt = Counter(made)
      BY DEF RetryMeta
    <3>2. num[2] >= 1 /\ Counter(made) >= 0
      BY <2>9, <2>11, <3>1 DEF Countable
    <3> HIDE DEF num, type, delay, made, Counter
    <3> QED BY <2>10, <2>8, <3>1, <3>2 DEF RetryMeta, CountedRetry, RetryEntry
  <2> QED BY <2>9, <2>12, <2>11
<1> QED BY <1>6, <1>7

\* The Job object made of a request that has crossed grants what the request asked for.
LEMMA RetriesCross ==
  ASSUME NEW p, IsMessage("PushRequest", p), Encodable(p), IsJobMetadata(MetaOf(p)),
         Countable(JobMetadataOf(p).retry)
  PROVE  Grants(JobMetadataOf(PlainOf(p)), JobMetadataOf(p).retry)
<1>1. /\ JobMetadataOf(PlainOf(p)) = Metadata(JobMetadataOf(p).retry)
      /\ JobMetadataOf(p).retry \in CountedRetry
  BY MetadataCrosses
<1> QED BY <1>1, RetriesAreGranted

-----------------------------------------------------------------------------
(* The inductive invariant.  While a message is under way its wire reads    *)
(* as the one that was written, whatever a newer sender put in between; a   *)
(* delivery is the one made of the request that pushed says.                *)

UnderWay == step \in {"sent", "received"}

MessageUnderWay ==
  /\ method \in DOMAIN QueueService /\ leg \in {"request", "response"}
  /\ IsMessage(TypeOf(method, leg), message)
  /\ Encodable(message)

WireUnderWay ==
  /\ wire \in Wires[Levels]
  /\ Decode(TypeOf(method, leg), wire) =
       Decode(TypeOf(method, leg), Encode(TypeOf(method, leg), message))

DeliveryUnderWay ==
  /\ IsMessage("PushRequest", pushed) /\ Encodable(pushed) /\ pushed.jobData # Undef
  /\ method = "listenQueue" /\ leg = "response" /\ message = Delivery(PlainOf(pushed))

IInv ==
  /\ step = "idle" => pushed = NoPush
  /\ UnderWay => MessageUnderWay /\ WireUnderWay
  /\ step = "received" => result = Decode(TypeOf(method, leg), wire)
  /\ UnderWay /\ pushed # NoPush => DeliveryUnderWay

\* What Write leaves under way is sound.
LEMMA WriteKeeps ==
  ASSUME NEW mth \in DOMAIN QueueService, NEW l \in {"request", "response"},
         NEW m, IsMessage(TypeOf(mth, l), m), Write(mth, l, m)
  PROVE  /\ step' \in {"sent", "refused"}
         /\ UnderWay' => MessageUnderWay' /\ WireUnderWay'
<1>1. step' \in {"sent", "refused"} /\ method' = mth /\ leg' = l /\ message' = m
  BY DEF Write
<1>2. ASSUME UnderWay' PROVE Encodable(m) /\ wire' = Encode(TypeOf(mth, l), m)
  BY <1>2 DEF Write, UnderWay
<1>3. ASSUME UnderWay' PROVE MessageUnderWay'
  BY <1>1, <1>2, <1>3 DEF MessageUnderWay
<1>4. ASSUME UnderWay' PROVE WireUnderWay'
  <2>1. Encode(TypeOf(mth, l), m) \in Wires[Levels]
    BY <1>2, <1>4, MethodTypes, MessageCrosses
  <2> QED BY <1>1, <1>2, <1>4, <2>1 DEF WireUnderWay
<1> QED BY <1>1, <1>3, <1>4

\* What decode returned for a message that is under way.
LEMMA ResultIs ==
  ASSUME IInv, step = "received"
  PROVE  /\ TypeOf(method, leg) \in CallTypes
         /\ result = IF DepthOf(message) < RecursionLimit
                     THEN Going(PlainOf(message))
                     ELSE Failed(TypeOf(method, leg))
<1>1. MessageUnderWay /\ WireUnderWay /\ result = Decode(TypeOf(method, leg), wire)
  BY DEF IInv, UnderWay
<1>2. TypeOf(method, leg) \in CallTypes
  BY <1>1, MethodTypes DEF MessageUnderWay
<1>3. Decode(TypeOf(method, leg), Encode(TypeOf(method, leg), message)) =
        IF DepthOf(message) < RecursionLimit
        THEN Going([name \in DOMAIN message |-> Plain(message[name])])
        ELSE Failed(TypeOf(method, leg))
  BY <1>1, <1>2, MessageCrosses DEF MessageUnderWay
<1> QED BY <1>1, <1>2, <1>3 DEF WireUnderWay, PlainOf

\* The invariant holds throughout.
THEOREM InvariantHolds == Spec => []IInv
<1>1. Init => IInv
  BY DEF Init, IInv, UnderWay
<1>2. IInv /\ [Next]_vars => IInv'
  <2> SUFFICES ASSUME IInv, [Next]_vars PROVE IInv'
    OBVIOUS
  <2>1. CASE Serialize
    <3>1. PICK s \in Sent : Write(s.method, s.leg, s.message)
      BY <2>1 DEF Serialize
    <3>2. /\ s.method \in DOMAIN QueueService /\ s.leg \in {"request", "response"}
          /\ IsMessage(TypeOf(s.method, s.leg), s.message)
      BY SentAssumption
    <3>3. step' \in {"sent", "refused"} /\ (UnderWay' => MessageUnderWay' /\ WireUnderWay')
      BY <3>1, <3>2, WriteKeeps
    <3>4. pushed' = NoPush
      <4>1. NoPush' = NoPush
        BY DEF NoPush
      <4> QED BY <2>1 DEF IInv, Serialize
    <3>5. (NoPush)' = NoPush
      BY DEF NoPush
    <3> QED BY <3>3, <3>4, <3>5 DEF IInv
  <2>2. ASSUME NEW x \in NewFields, NewerSender(x) PROVE IInv'
    <3>1. UnderWay /\ MessageUnderWay /\ WireUnderWay /\ step' # "received" /\ step' # "idle"
      BY <2>2 DEF IInv, UnderWay, NewerSender
    <3>2. PICK i \in 1..Len(wire) + 1 : wire' = InsertAt(wire, i, x)
      BY <2>2 DEF NewerSender
    <3>3. UNCHANGED <<step, method, leg, message, result, pushed>>
      BY <2>2 DEF NewerSender
    <3>4. TypeOf(method, leg) \in CallTypes
      BY <3>1, MethodTypes DEF MessageUnderWay
    <3>5. /\ wire' \in Wires[Levels]
          /\ Decode(TypeOf(method, leg), wire') = Decode(TypeOf(method, leg), wire)
      BY <3>1, <3>2, <3>4, NewerIsRead DEF WireUnderWay
    <3>6. MessageUnderWay' /\ WireUnderWay'
      BY <3>1, <3>3, <3>5 DEF MessageUnderWay, WireUnderWay
    <3>7. DeliveryUnderWay' <=> DeliveryUnderWay
      BY <3>3 DEF DeliveryUnderWay
    <3>8. NoPush' = NoPush
      BY DEF NoPush
    <3> QED BY <3>1, <3>3, <3>6, <3>7, <3>8 DEF IInv, UnderWay
  <2>3. CASE Deserialize
    <3>1. UnderWay /\ MessageUnderWay /\ WireUnderWay /\ step' = "received"
      BY <2>3 DEF IInv, UnderWay, Deserialize
    <3>2. UNCHANGED <<method, leg, message, wire, pushed>>
          /\ result' = Decode(TypeOf(method, leg), wire)
      BY <2>3 DEF Deserialize
    <3>3. MessageUnderWay' /\ WireUnderWay' /\ (DeliveryUnderWay' <=> DeliveryUnderWay)
      BY <3>1, <3>2 DEF MessageUnderWay, WireUnderWay, DeliveryUnderWay
    <3>4. NoPush' = NoPush
      BY DEF NoPush
    <3>5. result' = Decode(TypeOf(method', leg'), wire')
      BY <3>2
    <3> QED BY <3>1, <3>2, <3>3, <3>4, <3>5 DEF IInv, UnderWay
  <2>4. CASE Deliver
    <3>1. /\ step = "received" /\ method = "push" /\ leg = "request"
          /\ result.ok /\ result.message.jobData # Undef
          /\ Write("listenQueue", "response", Delivery(result.message))
          /\ pushed' = message
      BY <2>4 DEF Deliver
    <3>2. /\ TypeOf("push", "request") = "PushRequest"
          /\ TypeOf("listenQueue", "response") = "ListenQueueStreamResponse"
          /\ "listenQueue" \in DOMAIN QueueService
      BY DEF TypeOf, QueueService
    <3>3. IsMessage("PushRequest", message) /\ Encodable(message)
      BY <3>1, <3>2 DEF IInv, UnderWay, MessageUnderWay
    <3>4. result.message = PlainOf(message)
      BY <3>1, ResultIs DEF Going, Failed
    <3>5. message.jobData # Undef
      BY <3>1, <3>3, <3>4, PushCrossed
    <3>6. step' \in {"sent", "refused"} /\ (UnderWay' => MessageUnderWay' /\ WireUnderWay')
      BY <3>1, <3>2, DeliveryIsMessage, WriteKeeps
    <3>7. method' = "listenQueue" /\ leg' = "response" /\ message' = Delivery(PlainOf(message))
      BY <3>1, <3>4 DEF Write
    <3>8. DeliveryUnderWay'
      BY <3>1, <3>3, <3>5, <3>7 DEF DeliveryUnderWay
    <3> QED BY <3>6, <3>8 DEF IInv
  <2>5. CASE UNCHANGED vars
    <3>1. UNCHANGED <<step, method, leg, message, wire, result, pushed>>
      BY <2>5 DEF vars
    <3> QED BY <3>1 DEF IInv, UnderWay, MessageUnderWay, WireUnderWay, DeliveryUnderWay, NoPush
  <2> QED BY <2>1, <2>2, <2>3, <2>4, <2>5 DEF Next
<1> QED BY <1>1, <1>2, PTL DEF Spec

-----------------------------------------------------------------------------
\* The stubs of QueueServiceService: deserializing what was serialized gives the message
\* its caller passed, whatever fields a newer sender adds and wherever, and fails exactly
\* when the values in it nest too deep for decode.
THEOREM CallsArrive == Spec => []CallsArriveIntact
<1>1. ASSUME IInv PROVE CallsArriveIntact
  <2> SUFFICES ASSUME step = "received"
               PROVE  /\ result.ok <=> DepthOf(message) < RecursionLimit
                      /\ result.ok => result.message = PlainOf(message)
    BY DEF CallsArriveIntact, PlainOf
  <2>1. CASE DepthOf(message) < RecursionLimit
    BY <1>1, <2>1, ResultIs DEF Going
  <2>2. CASE ~(DepthOf(message) < RecursionLimit)
    BY <1>1, <2>2, ResultIs DEF Failed
  <2> QED BY <2>1, <2>2
<1> QED BY <1>1, InvariantHolds, PTL

\* push, Job.create, the Json column, pop and the dispatcher's write: the data and the
\* metadata a worker reads are what JSON makes of those that arrived with the push, and it
\* can read them unless the four levels a delivery wraps around them pass the limit of
\* decode.
THEOREM DeliveriesArrive == Spec => []DeliveredIfAccepted
<1>1. ASSUME IInv PROVE DeliveredIfAccepted
  <2> SUFFICES ASSUME step = "received", pushed # NoPush PROVE DeliveredIfAccepted
    BY DEF DeliveredIfAccepted
  <2> DEFINE p == pushed
             plain == PlainOf(Delivery(PlainOf(p)))
             job == plain.jobDataResponse[2].jobData[2]
             fits == 4 + Max({Depth(p.jobData), Depth(MetaOf(p))}) < RecursionLimit
  <2>1. /\ IsMessage("PushRequest", p) /\ Encodable(p) /\ p.jobData # Undef
        /\ message = Delivery(PlainOf(p)) /\ Encodable(message)
    BY <1>1 DEF IInv, UnderWay, MessageUnderWay, DeliveryUnderWay
  <2>2. /\ DepthOf(message) < RecursionLimit <=> fits
        /\ job["data"] = Json(Plain(p.jobData)) /\ job["_metadata"] = Json(Plain(MetaOf(p)))
    BY <2>1, DeliveryRead DEF PlainOf
  <2>3. /\ result.ok <=> DepthOf(message) < RecursionLimit
        /\ result.ok => result.message = plain
    <3>1. CASE DepthOf(message) < RecursionLimit
      BY <1>1, <2>1, <3>1, ResultIs DEF Going
    <3>2. CASE ~(DepthOf(message) < RecursionLimit)
      BY <1>1, <3>2, ResultIs DEF Failed
    <3> QED BY <3>1, <3>2
  <2> HIDE DEF plain
  <2> QED BY <2>2, <2>3 DEF DeliveredIfAccepted
<1> QED BY <1>1, InvariantHolds, PTL

\* Job.retry and Job.backoffTime: for any delay, any number of attempts from 1 and any
\* number of them made before, the Job object made of a push grants the retries that were
\* asked for, waits as asked before each, and then refuses.
THEOREM RetriesHold == Spec => []RetriesAsAsked
<1>1. ASSUME IInv PROVE RetriesAsAsked
  <2> SUFFICES ASSUME AsksForRetries
               PROVE  Grants(JobMetadataOf(result.message), JobMetadataOf(message).retry)
    BY DEF RetriesAsAsked
  <2>1. /\ step = "received" /\ method = "push" /\ leg = "request" /\ result.ok
        /\ IsJobMetadata(MetaOf(message)) /\ Countable(JobMetadataOf(message).retry)
    BY DEF AsksForRetries
  <2>2. TypeOf("push", "request") = "PushRequest"
    BY DEF TypeOf, QueueService
  <2>3. IsMessage("PushRequest", message) /\ Encodable(message)
    BY <1>1, <2>1, <2>2 DEF IInv, UnderWay, MessageUnderWay
  <2>4. result.message = PlainOf(message)
    BY <1>1, <2>1, ResultIs DEF Going, Failed
  <2> QED BY <2>1, <2>3, <2>4, RetriesCross
<1> QED BY <1>1, InvariantHolds, PTL

\* toJSON, fromJSON and fromPartial of every message: what one writes the other reads back,
\* under either name of a field, and a complete message is its own partial.
THEOREM JsonAndPartialHold == Spec => []JsonAndPartialKeep
<1>1. ASSUME IInv PROVE JsonAndPartialKeep
  <2> SUFFICES ASSUME UnderWay PROVE JsonAndPartialKeep
    BY DEF JsonAndPartialKeep, UnderWay
  <2> DEFINE type == TypeOf(method, leg)
             data == IF type = "PushRequest" THEN Keyed(message.jobData) ELSE NoKeys
  <2>1. type \in CallTypes /\ IsMessage(type, message) /\ Encodable(message)
    BY <1>1, MethodTypes DEF IInv, MessageUnderWay
  <2>2. JsonKeeps(type, message)
    <3>1. CASE type \in PlainTypes
      <4>1. HasFields(type, message)
        BY <2>1 DEF IsMessage
      <4> HIDE DEF type
      <4> QED BY <3>1, <4>1, PlainJson, FlatTypes, FlatKeeps
    <3>2. CASE type = "ListenQueueStreamResponse"
      BY <2>1, <3>2, StreamKept
    <3> QED BY <2>1, <3>1, <3>2 DEF CallTypes
  <2>3. ASSUME NEW k \in Keys, data[k] # Absent PROVE JsonKeeps("Value", ValueWrap(data[k]))
    <3>1. \A x \in Keys : NoKeys[x] = Absent
      BY DEF NoKeys
    <3>2. type = "PushRequest" /\ data = Keyed(message.jobData)
      BY <2>3, <3>1
    <3>3. message.jobData \in AnyValue /\ (message.jobData = Undef \/ Type(message.jobData) = "object")
      BY <2>1, <3>2, PushFields
    <3>4. Type(message.jobData) = "object"
      BY <2>3, <3>1, <3>2, <3>3 DEF Keyed
    <3>5. data[k] = Undef \/ k \in Kept(Keyed(message.jobData))
      BY <2>3, <3>2 DEF Kept
    <3>6. data[k] \in AnyValue
      BY <3>2, <3>3, <3>4, <3>5, InsideCrossed, HeldValues
    <3> QED BY <3>6, ValueKept
  <2> HIDE DEF data
  <2>4. \A k \in Keys : data[k] # Absent => JsonKeeps("Value", ValueWrap(data[k]))
    BY <2>3
  <2> QED BY <2>2, <2>4 DEF JsonAndPartialKeep, data
<1> QED BY <1>1, InvariantHolds, PTL
=============================================================================
