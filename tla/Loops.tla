--------------------------------- MODULE Loops ---------------------------------
(***************************************************************************)
(* Facts about loops over the elements of a sequence, as the models write  *)
(* them: FoldLeft with the body of the loop, and FlattenSeq.  The body and *)
(* the loop invariant are parameters; a proof instantiates this module     *)
(* with those of its loop.  Induction comes from the order of the finite   *)
(* sets by inclusion, which the library shows to be well founded.          *)
(***************************************************************************)
EXTENDS Integers, SequencesExt, FiniteSetTheorems, WellFoundedInduction, TLAPS

CONSTANTS Op(_, _),        \* Op(a, e): what the body makes of a for element e
          Inv(_, _, _, _)  \* Inv(base, s, k, a): from base, a is right after k elements of s

\* A set of natural numbers that is not empty has a least element: the shortest
\* of the intervals 0..n of its elements n.
LEMMA LeastNumber ==
  ASSUME NEW T \in SUBSET Nat, T # {}
  PROVE  \E m \in T : \A k \in T : m <= k
<1> DEFINE R == StrictSubsetOrdering(Nat)
           F == {0..n : n \in T}
<1>1. IsWellFoundedOn(R, FiniteSubsetsOf(Nat))
  BY FS_StrictSubsetOrderingWellFounded
<1>2. F \subseteq FiniteSubsetsOf(Nat) /\ F # {}
  <2>1. \A n \in T : IsFiniteSet(0..n)
    BY FS_Interval
  <2>2. F \subseteq FiniteSubsetsOf(Nat)
    BY <2>1 DEF FiniteSubsetsOf
  <2>3. F # {}
    OBVIOUS
  <2>4. QED BY <2>2, <2>3
<1> HIDE DEF R, F
<1>3. PICK x \in F : \A y \in F : ~(<<y, x>> \in R)
  BY <1>1, <1>2, WFMin
<1>4. PICK m \in T : x = 0..m
  BY DEF F
<1>5. ASSUME NEW k \in T, k < m PROVE FALSE
  <2>1. 0..k \in F
    BY DEF F
  <2>2. m \in 0..m /\ m \notin 0..k
    BY <1>5
  <2>3. 0..k \subseteq 0..m /\ 0..k # 0..m
    BY <1>5, <2>2
  <2>4. <<0..k, 0..m>> \in R
    BY <2>3 DEF R, StrictSubsetOrdering
  <2>5. QED BY <2>1, <2>4, <1>3, <1>4
<1>6. QED BY <1>5

\* What holds before the first element of a range and goes on to the next one
\* holds throughout.
LEMMA RangeInduction ==
  ASSUME NEW n \in Nat, NEW G \in SUBSET Nat, 0 \in G,
         \A k \in 1..n : k - 1 \in G => k \in G
  PROVE  0..n \subseteq G
<1> DEFINE T == (0..n) \ G
<1>1. CASE T = {}
  BY <1>1
<1>2. CASE T # {}
  <2>1. T \in SUBSET Nat
    OBVIOUS
  <2>2. PICK m \in T : \A k \in T : m <= k
    <3> HIDE DEF T
    <3> QED BY <1>2, <2>1, LeastNumber
  <2>3. m \in 1..n /\ m - 1 \in 0..n /\ m - 1 \notin T
    BY <2>2
  <2>4. QED BY <2>2, <2>3
<1>3. QED BY <1>1, <1>2

-----------------------------------------------------------------------------
(* FoldLeft.                                                               *)

\* The last number of an initial segment of the numbers, and of a set within it.
LEMMA SegmentMax ==
  ASSUME NEW n \in Nat, NEW t \in SUBSET (1..n), n \in t
  PROVE  Max(t) = n
<1>1. \A x \in t : (\A y \in t : x >= y) <=> x = n
  OBVIOUS
<1>2. QED BY <1>1 DEF Max

\* The function by which the library defines a fold exists.
IsFold(f, s, n, base) ==
  f = [t \in SUBSET (1..n) |-> IF t = {} THEN base ELSE Op(f[t \ {Max(t)}], s[Max(t)])]

LEMMA FoldFunctionExists ==
  ASSUME NEW n \in Nat, NEW s, NEW base
  PROVE  \E f : IsFold(f, s, n, base)
<1> DEFINE Body(f, t) == IF t = {} THEN base ELSE Op(f[t \ {Max(t)}], s[Max(t)])
           G == {m \in Nat : \E f : f = [t \in SUBSET (1..m) |-> Body(f, t)]}
<1>1. 0 \in G
  <2>1. SUBSET (1..0) = {{}}
    OBVIOUS
  <2> DEFINE g == [t \in SUBSET (1..0) |-> base]
  <2>2. g = [t \in SUBSET (1..0) |-> Body(g, t)]
    BY <2>1
  <2> HIDE DEF g, Body
  <2>3. QED BY <2>2
<1>2. ASSUME NEW k \in 1..n, k - 1 \in G PROVE k \in G
  <2>1. PICK f : f = [t \in SUBSET (1..(k - 1)) |-> Body(f, t)]
    BY <1>2
  <2> DEFINE g == [t \in SUBSET (1..k) |-> Body(f, t)]
  <2>2. ASSUME NEW t \in SUBSET (1..k), t # {}
        PROVE  t \ {Max(t)} \in SUBSET (1..(k - 1))
    <3>1. 1..k = (1..(k - 1)) \cup {k} /\ k \in Nat
      OBVIOUS
    <3>2. CASE k \in t
      <4>1. Max(t) = k
        BY <3>1, <3>2, SegmentMax
      <4>2. QED BY <3>1, <4>1
    <3>3. CASE k \notin t
      BY <3>1, <3>3
    <3>4. QED BY <3>2, <3>3
  <2>3. ASSUME NEW t \in SUBSET (1..(k - 1)) PROVE f[t] = g[t]
    <3>1. t \in SUBSET (1..k)
      OBVIOUS
    <3>2. f[t] = Body(f, t)
      <4> HIDE DEF Body
      <4> QED BY <2>1
    <3>3. QED BY <3>1, <3>2
  <2>4. ASSUME NEW t \in SUBSET (1..k) PROVE g[t] = Body(g, t)
    <3>1. CASE t = {}
      BY <3>1
    <3>2. CASE t # {}
      <4>1. f[t \ {Max(t)}] = g[t \ {Max(t)}]
        BY <2>2, <2>3, <3>2
      <4>2. QED BY <3>2, <4>1
    <3>3. QED BY <3>1, <3>2
  <2>5. g = [t \in SUBSET (1..k) |-> Body(g, t)]
    <3>1. g = [t \in SUBSET (1..k) |-> g[t]]
      OBVIOUS
    <3> HIDE DEF g, Body
    <3>2. QED BY <2>4, <3>1
  <2> HIDE DEF g, Body
  <2>6. QED BY <2>5
<1>3. n \in G
  <2>1. G \in SUBSET Nat
    OBVIOUS
  <2> HIDE DEF G
  <2>2. 0..n \subseteq G
    BY <1>1, <1>2, <2>1, RangeInduction
  <2>3. QED BY <2>2
<1>4. QED BY <1>3 DEF IsFold

\* A loop over s that is right before the first element, and that the body keeps
\* right, is right at the end.
LEMMA FoldInvariant ==
  ASSUME NEW s, NEW n \in Nat, DOMAIN s = 1..n, NEW base,
         Inv(base, s, 0, base),
         \A k \in 1..n : \A a : Inv(base, s, k - 1, a) => Inv(base, s, k, Op(a, s[k]))
  PROVE  Inv(base, s, n, FoldLeft(Op, base, s))
<1> DEFINE f == CHOOSE h : IsFold(h, s, n, base)
           G == {k \in Nat : k <= n => Inv(base, s, k, f[1..k])}
<1>1. IsFold(f, s, n, base)
  BY FoldFunctionExists
<1>2. FoldLeft(Op, base, s) = f[1..n]
  BY DEF FoldLeft, MapThenFoldSet, IsFold
<1> HIDE DEF f
<1>3. 0 \in G
  <2>1. 1..0 = {} /\ {} \in SUBSET (1..n)
    OBVIOUS
  <2>2. f[{}] = base
    BY <1>1, <2>1 DEF IsFold
  <2>3. QED BY <2>1, <2>2
<1>4. ASSUME NEW k \in 1..n, k - 1 \in G PROVE k \in G
  <2>1. /\ k \in Nat /\ k \in 1..k /\ k - 1 <= n
        /\ 1..k \in SUBSET (1..n) /\ (1..k) \ {k} = 1..(k - 1)
    <3>1. 1..k = (1..(k - 1)) \cup {k} /\ k \notin 1..(k - 1)
      OBVIOUS
    <3>2. (1..k) \ {k} = 1..(k - 1)
      BY <3>1
    <3>3. QED BY <3>2
  <2>2. Max(1..k) = k
    BY <2>1, SegmentMax
  <2>3. f[1..k] = Op(f[1..(k - 1)], s[k])
    BY <1>1, <2>1, <2>2 DEF IsFold
  <2>4. QED BY <1>4, <2>1, <2>3
<1>5. n \in G
  <2>1. G \in SUBSET Nat
    OBVIOUS
  <2> HIDE DEF G
  <2>2. 0..n \subseteq G
    BY <1>3, <1>4, <2>1, RangeInduction
  <2>3. QED BY <2>2
<1>6. QED BY <1>2, <1>5

-----------------------------------------------------------------------------
(* FlattenSeq.                                                             *)

IsFlat(f, ss, n) == f = [i \in 1..n |-> IF i = 1 THEN ss[i] ELSE f[i - 1] \o ss[i]]

LEMMA FlatFunctionExists ==
  ASSUME NEW ss, NEW n \in Nat, n > 0
  PROVE  \E f : IsFlat(f, ss, n)
<1> DEFINE G == {m \in Nat : m > 0 => \E f : IsFlat(f, ss, m)}
<1>1. 0 \in G
  OBVIOUS
<1>2. ASSUME NEW k \in 1..n, k - 1 \in G PROVE k \in G
  <2>1. CASE k = 1
    <3> DEFINE g == [i \in 1..1 |-> ss[i]]
    <3>1. g = [i \in 1..1 |-> IF i = 1 THEN ss[i] ELSE g[i - 1] \o ss[i]]
      OBVIOUS
    <3> HIDE DEF g
    <3>2. IsFlat(g, ss, 1)
      BY <3>1 DEF IsFlat
    <3>3. QED BY <2>1, <3>2
  <2>2. CASE k # 1
    <3>1. PICK f : IsFlat(f, ss, k - 1)
      BY <1>2, <2>2
    <3> DEFINE g == [i \in 1..k |-> IF i = 1 THEN ss[i] ELSE f[i - 1] \o ss[i]]
    <3>2. ASSUME NEW i \in 1..(k - 1) PROVE f[i] = g[i]
      <4>1. f[i] = IF i = 1 THEN ss[i] ELSE f[i - 1] \o ss[i]
        BY <3>1 DEF IsFlat
      <4>2. i \in 1..k
        OBVIOUS
      <4>3. QED BY <4>1, <4>2
    <3>3. ASSUME NEW i \in 1..k, i # 1 PROVE f[i - 1] = g[i - 1]
      <4>1. i - 1 \in 1..(k - 1)
        BY <3>3
      <4> HIDE DEF g
      <4>2. QED BY <3>2, <4>1
    <3>4. ASSUME NEW i \in 1..k PROVE g[i] = IF i = 1 THEN ss[i] ELSE g[i - 1] \o ss[i]
      BY <3>3
    <3>5. g = [i \in 1..k |-> g[i]]
      OBVIOUS
    <3> HIDE DEF g
    <3>6. IsFlat(g, ss, k)
      BY <3>4, <3>5 DEF IsFlat
    <3>7. QED BY <3>6
  <2>3. QED BY <2>1, <2>2
<1>3. n \in G
  <2>1. G \in SUBSET Nat
    OBVIOUS
  <2> HIDE DEF G
  <2>2. 0..n \subseteq G
    BY <1>1, <1>2, <2>1, RangeInduction
  <2>3. QED BY <2>2
<1>4. QED BY <1>3

\* The elements of two sequences, one after the other.
LEMMA ConcatElements ==
  ASSUME NEW S, NEW s \in Seq(S), NEW t \in Seq(S)
  PROVE  \A e : e \in ToSet(s \o t) <=> e \in ToSet(s) \/ e \in ToSet(t)
<1>1. DOMAIN (s \o t) = 1..(Len(s) + Len(t))
  OBVIOUS
<1>2. ASSUME NEW i \in DOMAIN s PROVE i \in DOMAIN (s \o t) /\ (s \o t)[i] = s[i]
  OBVIOUS
<1>3. ASSUME NEW i \in DOMAIN t PROVE Len(s) + i \in DOMAIN (s \o t) /\ (s \o t)[Len(s) + i] = t[i]
  OBVIOUS
<1>4. ASSUME NEW i \in DOMAIN (s \o t)
      PROVE  (s \o t)[i] \in ToSet(s) \/ (s \o t)[i] \in ToSet(t)
  <2>1. CASE i <= Len(s)
    <3>1. i \in DOMAIN s /\ (s \o t)[i] = s[i]
      BY <1>1, <2>1
    <3>2. QED BY <3>1 DEF ToSet
  <2>2. CASE i > Len(s)
    <3>1. i - Len(s) \in DOMAIN t /\ (s \o t)[i] = t[i - Len(s)]
      BY <1>1, <2>2
    <3>2. QED BY <3>1 DEF ToSet
  <2>3. QED BY <1>1, <2>1, <2>2
<1>5. QED BY <1>2, <1>3, <1>4 DEF ToSet

\* The elements of a flattened sequence are those of its parts.
LEMMA FlattenElements ==
  ASSUME NEW S, NEW ss \in Seq(Seq(S))
  PROVE  /\ FlattenSeq(ss) \in Seq(S)
         /\ \A e : e \in ToSet(FlattenSeq(ss)) <=> \E i \in DOMAIN ss : e \in ToSet(ss[i])
<1>1. CASE ss = <<>>
  <2>1. FlattenSeq(ss) = <<>>
    BY <1>1 DEF FlattenSeq
  <2>2. ToSet(<<>>) = {} /\ <<>> \in Seq(S) /\ DOMAIN ss = {}
    BY <1>1 DEF ToSet
  <2>3. QED BY <2>1, <2>2
<1>2. CASE ss # <<>>
  <2> DEFINE n == Len(ss)
             f == CHOOSE h : IsFlat(h, ss, n)
             G == {k \in Nat : k \in 1..n =>
                     /\ f[k] \in Seq(S)
                     /\ \A e : e \in ToSet(f[k]) <=> \E i \in 1..k : e \in ToSet(ss[i])}
  <2>1. n \in Nat /\ n > 0 /\ DOMAIN ss = 1..n /\ \A i \in 1..n : ss[i] \in Seq(S)
    BY <1>2
  <2>2. IsFlat(f, ss, n)
    <3> HIDE DEF n
    <3> QED BY <2>1, FlatFunctionExists
  <2>3. FlattenSeq(ss) = f[n]
    BY <2>1 DEF FlattenSeq, IsFlat
  <2> HIDE DEF f, n
  <2>4. 0 \in G
    OBVIOUS
  <2>5. ASSUME NEW k \in 1..n, k - 1 \in G PROVE k \in G
    <3>1. CASE k = 1
      <4>1. f[k] = ss[k]
        BY <2>2, <3>1 DEF IsFlat
      <4>2. 1..1 = {1}
        OBVIOUS
      <4>3. QED BY <2>1, <3>1, <4>1, <4>2
    <3>2. CASE k # 1
      <4>1. /\ k \in Nat /\ k - 1 \in 1..n /\ 1..k = (1..(k - 1)) \cup {k}
        BY <2>1, <3>2
      <4>2. f[k] = f[k - 1] \o ss[k]
        BY <2>2, <3>2 DEF IsFlat
      <4>3. /\ f[k - 1] \in Seq(S) /\ ss[k] \in Seq(S)
            /\ \A e : e \in ToSet(f[k - 1]) <=> \E i \in 1..(k - 1) : e \in ToSet(ss[i])
        BY <2>1, <2>5, <4>1
      <4>4. f[k] \in Seq(S)
        BY <4>2, <4>3
      <4>5. \A e : e \in ToSet(f[k]) <=> e \in ToSet(f[k - 1]) \/ e \in ToSet(ss[k])
        BY <4>2, <4>3, ConcatElements
      <4>6. \A e : e \in ToSet(f[k]) <=> \E i \in 1..k : e \in ToSet(ss[i])
        BY <4>1, <4>3, <4>5
      <4>7. QED BY <4>1, <4>4, <4>6
    <3>3. QED BY <3>1, <3>2
  <2>6. n \in G
    <3>1. G \in SUBSET Nat
      OBVIOUS
    <3> HIDE DEF G
    <3>2. 0..n \subseteq G
      BY <2>1, <2>4, <2>5, <3>1, RangeInduction
    <3>3. QED BY <2>1, <3>2
  <2>7. n \in 1..n
    BY <2>1
  <2>8. QED BY <2>1, <2>3, <2>6, <2>7
<1>3. QED BY <1>1, <1>2

-----------------------------------------------------------------------------
(* FlattenSeq, one part at a time.                                         *)

LEMMA JoinedSeq ==
  ASSUME NEW S, NEW s \in Seq(S), NEW t \in Seq(S)
  PROVE  /\ s \o t \in Seq(S) /\ Len(s \o t) = Len(s) + Len(t)
         /\ \A i \in 1..Len(s) : (s \o t)[i] = s[i]
         /\ \A i \in 1..Len(t) : (s \o t)[Len(s) + i] = t[i]
OBVIOUS

LEMMA EqualSeq ==
  ASSUME NEW S, NEW s \in Seq(S), NEW t \in Seq(S), Len(s) = Len(t),
         \A i \in 1..Len(s) : s[i] = t[i]
  PROVE  s = t
OBVIOUS

Associative(s, t, u) == (s \o t) \o u = s \o (t \o u)

LEMMA JoinAssociative ==
  ASSUME NEW S, NEW s \in Seq(S), NEW t \in Seq(S), NEW u \in Seq(S)
  PROVE  Associative(s, t, u)
<1> DEFINE st == s \o t
           tu == t \o u
           x == st \o u
           y == s \o tu
<1>1. /\ st \in Seq(S) /\ Len(st) = Len(s) + Len(t)
      /\ \A i \in 1..Len(s) : st[i] = s[i]
      /\ \A i \in 1..Len(t) : st[Len(s) + i] = t[i]
  BY JoinedSeq
<1>2. /\ tu \in Seq(S) /\ Len(tu) = Len(t) + Len(u)
      /\ \A i \in 1..Len(t) : tu[i] = t[i]
      /\ \A i \in 1..Len(u) : tu[Len(t) + i] = u[i]
  BY JoinedSeq
<1> HIDE DEF st, tu
<1>3. /\ x \in Seq(S) /\ Len(x) = Len(st) + Len(u)
      /\ \A i \in 1..Len(st) : x[i] = st[i]
      /\ \A i \in 1..Len(u) : x[Len(st) + i] = u[i]
  <2>1. st \in Seq(S)
    BY <1>1
  <2>2. QED BY <2>1, JoinedSeq
<1>4. /\ y \in Seq(S) /\ Len(y) = Len(s) + Len(tu)
      /\ \A i \in 1..Len(s) : y[i] = s[i]
      /\ \A i \in 1..Len(tu) : y[Len(s) + i] = tu[i]
  <2>1. tu \in Seq(S)
    BY <1>2
  <2>2. QED BY <2>1, JoinedSeq
<1>5. Len(s) \in Nat /\ Len(t) \in Nat /\ Len(u) \in Nat
  OBVIOUS
<1> HIDE DEF x, y
<1>6. ASSUME NEW i \in 1..Len(x) PROVE x[i] = y[i]
  <2>1. CASE i \in 1..Len(s)
    BY <1>1, <1>3, <1>4, <1>5, <2>1
  <2>2. CASE i \in (Len(s) + 1)..(Len(s) + Len(t))
    <3>1. PICK j \in 1..Len(t) : i = Len(s) + j
      <4>1. i - Len(s) \in 1..Len(t) /\ i = Len(s) + (i - Len(s))
        BY <1>5, <2>2
      <4>2. QED BY <4>1
    <3>2. i \in 1..Len(st) /\ j \in 1..Len(tu)
      BY <1>1, <1>2, <1>5, <3>1
    <3>3. QED BY <1>1, <1>2, <1>3, <1>4, <3>1, <3>2
  <2>3. CASE i \in (Len(s) + Len(t) + 1)..(Len(s) + Len(t) + Len(u))
    <3>1. PICK j \in 1..Len(u) : i = Len(s) + Len(t) + j
      <4>1. i - (Len(s) + Len(t)) \in 1..Len(u) /\ i = Len(s) + Len(t) + (i - (Len(s) + Len(t)))
        BY <1>5, <2>3
      <4>2. QED BY <4>1
    <3>2. i = Len(st) + j /\ Len(t) + j \in 1..Len(tu) /\ i = Len(s) + (Len(t) + j)
      BY <1>1, <1>2, <1>5, <3>1
    <3>3. QED BY <1>2, <1>3, <1>4, <3>1, <3>2
  <2>4. Len(x) = Len(s) + Len(t) + Len(u)
    BY <1>1, <1>3
  <2>5. QED BY <1>5, <2>1, <2>2, <2>3, <2>4
<1>7. Len(x) = Len(y)
  BY <1>1, <1>2, <1>3, <1>4, <1>5
<1>8. x = y
  BY <1>3, <1>4, <1>6, <1>7, EqualSeq
<1>9. QED BY <1>8 DEF x, y, st, tu, Associative

Alike(s, t, n) == \A i \in 1..n : s[i] = t[i]

\* Sequences that begin alike are flattened alike that far.
LEMMA FlatAgrees ==
  ASSUME NEW ss, NEW tt, NEW n \in Nat, NEW m \in Nat, NEW f, NEW g,
         IsFlat(f, ss, n), IsFlat(g, tt, m),
         n <= m, Alike(ss, tt, n)
  PROVE  Alike(f, g, n)
<1> DEFINE G == {k \in Nat : k \in 1..n => f[k] = g[k]}
<1>1. 0 \in G
  OBVIOUS
<1>2. ASSUME NEW k \in 1..n, k - 1 \in G PROVE k \in G
  <2>1. k \in 1..n /\ k \in 1..m /\ ss[k] = tt[k]
    BY DEF Alike
  <2>2. /\ f[k] = IF k = 1 THEN ss[k] ELSE f[k - 1] \o ss[k]
        /\ g[k] = IF k = 1 THEN tt[k] ELSE g[k - 1] \o tt[k]
    BY <2>1 DEF IsFlat
  <2>3. k # 1 => f[k - 1] = g[k - 1]
    BY <1>2
  <2>4. QED BY <2>1, <2>2, <2>3
<1>3. G \in SUBSET Nat
  OBVIOUS
<1> HIDE DEF G
<1>4. 0..n \subseteq G
  BY <1>1, <1>2, <1>3, RangeInduction
<1>5. QED BY <1>4 DEF G, Alike

\* A flattened sequence is the last value of the function behind it.
LEMMA FlattenIsFlat ==
  ASSUME NEW S, NEW ss \in Seq(S), ss # <<>>
  PROVE  \E f : IsFlat(f, ss, Len(ss)) /\ FlattenSeq(ss) = f[Len(ss)]
<1> DEFINE n == Len(ss)
           f == CHOOSE h : IsFlat(h, ss, n)
<1>1. n \in Nat /\ n > 0
  OBVIOUS
<1>2. FlattenSeq(ss) = f[n]
  BY <1>1 DEF FlattenSeq, IsFlat
<1> HIDE DEF n
<1>3. IsFlat(f, ss, n)
  BY <1>1, FlatFunctionExists
<1> HIDE DEF f
<1>4. QED BY <1>2, <1>3 DEF n

\* A part that is added at the end.
LEMMA FlattenAppend ==
  ASSUME NEW S, NEW ss \in Seq(Seq(S)), NEW s \in Seq(S)
  PROVE  FlattenSeq(Append(ss, s)) = FlattenSeq(ss) \o s
<1> DEFINE n == Len(ss)
           tt == Append(ss, s)
<1>1. /\ n \in Nat /\ tt \in Seq(Seq(S)) /\ tt # <<>> /\ Len(tt) = n + 1
      /\ (\A i \in 1..n : tt[i] = ss[i]) /\ tt[n + 1] = s
  <2> DEFINE X == Seq(S)
  <2>1. ss \in Seq(X) /\ s \in X
    OBVIOUS
  <2> HIDE DEF X
  <2>2. QED BY <2>1
<1> HIDE DEF tt
<1>2. PICK g : IsFlat(g, tt, n + 1) /\ FlattenSeq(tt) = g[n + 1]
  BY <1>1, FlattenIsFlat
<1>3. g[n + 1] = IF n + 1 = 1 THEN tt[n + 1] ELSE g[(n + 1) - 1] \o tt[n + 1]
  <2>1. n + 1 \in 1..(n + 1)
    BY <1>1
  <2>2. QED BY <1>2, <2>1 DEF IsFlat
<1>4. CASE ss = <<>>
  <2>1. n = 0 /\ FlattenSeq(ss) = <<>>
    BY <1>4 DEF FlattenSeq
  <2>2. <<>> \o s = s
    OBVIOUS
  <2>3. QED BY <1>1, <1>2, <1>3, <2>1, <2>2 DEF tt
<1>5. CASE ss # <<>>
  <2>1. n > 0 /\ n \in 1..n
    BY <1>1, <1>5
  <2>2. PICK f : IsFlat(f, ss, n) /\ FlattenSeq(ss) = f[n]
    BY <1>5, FlattenIsFlat
  <2>3. \A i \in 1..n : g[i] = f[i]
    <3> DEFINE m == n + 1
    <3>1. n <= m /\ m \in Nat /\ n \in Nat
      BY <1>1
    <3>2. Alike(ss, tt, n)
      BY <1>1 DEF Alike
    <3>3. IsFlat(f, ss, n) /\ IsFlat(g, tt, m)
      BY <1>2, <2>2
    <3> HIDE DEF n, m
    <3>4. Alike(f, g, n)
      BY <3>1, <3>2, <3>3, FlatAgrees
    <3>5. QED BY <3>4 DEF Alike
  <2>4. n + 1 # 1 /\ (n + 1) - 1 = n
    BY <1>1, <2>1
  <2>5. QED BY <1>1, <1>2, <1>3, <2>1, <2>2, <2>3, <2>4 DEF tt
<1>6. QED BY <1>4, <1>5

\* The first part, and the others.
LEMMA FlattenFirst ==
  ASSUME NEW S, NEW ss \in Seq(Seq(S)), ss # <<>>
  PROVE  FlattenSeq(ss) = ss[1] \o FlattenSeq(Tail(ss))
<1> DEFINE n == Len(ss)
           tt == Tail(ss)
<1>1. /\ n \in Nat /\ n > 0 /\ tt \in Seq(Seq(S)) /\ Len(tt) = n - 1 /\ ss[1] \in Seq(S)
      /\ \A i \in 1..(n - 1) : tt[i] = ss[i + 1] /\ tt[i] \in Seq(S)
  OBVIOUS
<1>2. PICK f : IsFlat(f, ss, n) /\ FlattenSeq(ss) = f[n]
  BY FlattenIsFlat
<1>3. \A k \in 1..n : f[k] = IF k = 1 THEN ss[k] ELSE f[k - 1] \o ss[k]
  <2> HIDE DEF n
  <2>1. QED BY <1>2 DEF IsFlat
<1> HIDE DEF n, tt
<1>4. CASE n = 1
  <2>1. tt = <<>> /\ FlattenSeq(<<>>) = <<>>
    BY <1>1, <1>4 DEF FlattenSeq
  <2>2. f[1] = ss[1]
    BY <1>3, <1>4
  <2>3. ss[1] \o <<>> = ss[1]
    BY <1>1
  <2>4. QED BY <1>2, <1>4, <2>1, <2>2, <2>3 DEF tt
<1>5. CASE n # 1
  <2>1. tt # <<>> /\ n - 1 \in Nat /\ n - 1 > 0
    BY <1>1, <1>5
  <2>2. PICK g : IsFlat(g, tt, n - 1) /\ FlattenSeq(tt) = g[n - 1]
    BY <1>1, <2>1, FlattenIsFlat
  <2>3. \A k \in 1..(n - 1) : g[k] = IF k = 1 THEN tt[k] ELSE g[k - 1] \o tt[k]
    BY <2>2 DEF IsFlat
  <2> DEFINE G == {k \in Nat : k \in 1..(n - 1) => g[k] \in Seq(S) /\ f[k + 1] = ss[1] \o g[k]}
  <2>4. 0 \in G
    OBVIOUS
  <2>5. ASSUME NEW k \in 1..(n - 1), k - 1 \in G PROVE k \in G
    <3>1. k \in Nat /\ k + 1 \in 1..n /\ k + 1 # 1 /\ (k + 1) - 1 = k /\ tt[k] = ss[k + 1] /\ tt[k] \in Seq(S)
      BY <1>1
    <3>2. f[k + 1] = f[k] \o tt[k]
      BY <1>3, <3>1
    <3>3. CASE k = 1
      <4>1. f[1] = ss[1] /\ g[1] = tt[1]
        BY <1>1, <1>3, <2>1, <2>3
      <4>2. QED BY <3>1, <3>2, <3>3, <4>1
    <3>4. CASE k # 1
      <4>1. k - 1 \in 1..(n - 1) /\ (k - 1) + 1 = k
        BY <1>1, <3>4
      <4>2. g[k - 1] \in Seq(S) /\ f[k] = ss[1] \o g[k - 1]
        BY <2>5, <4>1
      <4>3. g[k] = g[k - 1] \o tt[k]
        BY <2>3, <3>4
      <4>4. (ss[1] \o g[k - 1]) \o tt[k] = ss[1] \o (g[k - 1] \o tt[k])
        <5> DEFINE a == ss[1]
                   b == g[k - 1]
                   c == tt[k]
        <5>1. a \in Seq(S) /\ b \in Seq(S) /\ c \in Seq(S)
          BY <1>1, <3>1, <4>2
        <5> HIDE DEF a, b, c
        <5>2. Associative(a, b, c)
          BY <5>1, JoinAssociative
        <5>3. QED BY <5>2 DEF a, b, c, Associative
      <4>5. g[k] \in Seq(S)
        BY <3>1, <4>2, <4>3
      <4>6. QED BY <3>1, <3>2, <4>2, <4>3, <4>4, <4>5
    <3>5. QED BY <3>3, <3>4
  <2>6. G \in SUBSET Nat
    OBVIOUS
  <2> HIDE DEF G
  <2>7. 0..(n - 1) \subseteq G
    BY <2>1, <2>4, <2>5, <2>6, RangeInduction
  <2>8. n - 1 \in G /\ n - 1 \in 1..(n - 1) /\ (n - 1) + 1 = n
    BY <1>1, <2>1, <2>7
  <2>9. QED BY <1>2, <2>2, <2>8 DEF G, tt
<1>6. QED BY <1>1, <1>4, <1>5
=============================================================================
