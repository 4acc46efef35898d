------------------------------ MODULE RoutingProofs ------------------------------
(***************************************************************************)
(* Proofs about Normalize and Routing, for every set of leaves, any number *)
(* of updates, and any subscribed paths.                                   *)
(***************************************************************************)
EXTENDS Routing, FiniteSetTheorems, TLAPS

Segment == [name : STRING, sel : Seq(STRING \X STRING)]
Path    == Seq(Segment)

-----------------------------------------------------------------------------
(* Sequences, element by element.                                          *)

LEMMA SameElements ==
  ASSUME NEW X, NEW s \in Seq(X), NEW t \in Seq(X), Len(s) = Len(t),
         \A i \in 1..Len(s) : s[i] = t[i]
  PROVE  s = t
OBVIOUS

LEMMA JoinedElements ==
  ASSUME NEW X, NEW s \in Seq(X), NEW t \in Seq(X)
  PROVE  /\ s \o t \in Seq(X) /\ Len(s \o t) = Len(s) + Len(t)
         /\ \A i \in 1..Len(s) : (s \o t)[i] = s[i]
         /\ \A i \in 1..Len(t) : (s \o t)[Len(s) + i] = t[i]
OBVIOUS

LEMMA PartElements ==
  ASSUME NEW X, NEW s \in Seq(X), NEW a \in Nat, NEW b \in Nat, a > 0, b <= Len(s)
  PROVE  /\ SubSeq(s, a, b) \in Seq(X) /\ Len(SubSeq(s, a, b)) = IF a <= b THEN b - a + 1 ELSE 0
         /\ \A i \in 1..(b - a + 1) : SubSeq(s, a, b)[i] = s[a + i - 1]
OBVIOUS

LEMMA PrefixPart ==
  ASSUME NEW X, NEW s \in Seq(X), NEW n \in 0..Len(s)
  PROVE  /\ SubSeq(s, 1, n) \in Seq(X) /\ Len(SubSeq(s, 1, n)) = n
         /\ \A i \in 1..n : SubSeq(s, 1, n)[i] = s[i]
OBVIOUS

LEMMA RestPart ==
  ASSUME NEW X, NEW s \in Seq(X), NEW n \in 0..Len(s)
  PROVE  /\ SubSeq(s, n + 1, Len(s)) \in Seq(X) /\ Len(SubSeq(s, n + 1, Len(s))) = Len(s) - n
         /\ \A i \in 1..(Len(s) - n) : SubSeq(s, n + 1, Len(s))[i] = s[n + i]
OBVIOUS

LEMMA AppendElements ==
  ASSUME NEW X, NEW s \in Seq(X), NEW e \in X
  PROVE  /\ Append(s, e) \in Seq(X) /\ Append(s, e) # <<>> /\ Len(Append(s, e)) = Len(s) + 1
         /\ Front(Append(s, e)) = s /\ Last(Append(s, e)) = e /\ Append(s, e) = s \o <<e>>
         /\ \A i \in 1..Len(s) : Append(s, e)[i] = s[i]
         /\ Append(s, e)[Len(s) + 1] = e
<1> DEFINE q == Append(s, e)
<1>1. /\ q \in Seq(X) /\ q # <<>> /\ Len(q) = Len(s) + 1 /\ Len(s) \in Nat
      /\ (\A i \in 1..Len(s) : q[i] = s[i]) /\ q[Len(s) + 1] = e
  OBVIOUS
<1>2. q = s \o <<e>>
  OBVIOUS
<1> HIDE DEF q
<1>3. Last(q) = e
  BY <1>1 DEF Last
<1>4. Front(q) = s
  <2>1. Len(q) - 1 = Len(s) /\ Len(s) \in 0..Len(q)
    BY <1>1
  <2>2. /\ Front(q) \in Seq(X) /\ Len(Front(q)) = Len(s)
        /\ \A i \in 1..Len(s) : Front(q)[i] = q[i]
    BY <1>1, <2>1, PrefixPart DEF Front
  <2>3. QED BY <1>1, <2>2, SameElements
<1>5. QED BY <1>1, <1>2, <1>3, <1>4 DEF q

LEMMA FrontElements ==
  ASSUME NEW X, NEW s \in Seq(X), s # <<>>
  PROVE  /\ Front(s) \in Seq(X) /\ Len(Front(s)) = Len(s) - 1 /\ Len(s) > 0
         /\ \A i \in 1..(Len(s) - 1) : Front(s)[i] = s[i]
         /\ Last(s) = s[Len(s)] /\ Last(s) \in X /\ s = Append(Front(s), Last(s))
<1> DEFINE f == Front(s)
           q == Append(f, Last(s))
<1>1. /\ Len(s) \in Nat /\ Len(s) > 0 /\ Last(s) = s[Len(s)] /\ Last(s) \in X
      /\ Len(s) - 1 \in 0..Len(s)
  BY DEF Last
<1>2. f \in Seq(X) /\ Len(f) = Len(s) - 1 /\ \A i \in 1..(Len(s) - 1) : f[i] = s[i]
  BY <1>1, PrefixPart DEF Front
<1> HIDE DEF f
<1>3. /\ q \in Seq(X) /\ Len(q) = Len(f) + 1 /\ \A i \in 1..Len(f) : q[i] = f[i]
      /\ q[Len(f) + 1] = Last(s)
  BY <1>1, <1>2, AppendElements
<1> HIDE DEF q
<1>4. \A i \in 1..Len(s) : q[i] = s[i]
  BY <1>1, <1>2, <1>3
<1>5. q = s
  BY <1>1, <1>2, <1>3, <1>4, SameElements
<1>6. QED BY <1>1, <1>2, <1>5 DEF q, f

-----------------------------------------------------------------------------
(* The printed paths.                                                      *)

\* t is a text of path.
TextOf(t, path) ==
  /\ t \in Path /\ Len(t) = Len(path)
  /\ \A i \in DOMAIN path : t[i].name = path[i].name /\ ToSet(t[i].sel) = path[i].keys

PathOK(path) == path \in Seq(Element) /\ \A i \in DOMAIN path : IsFiniteSet(path[i].keys)

\* What pathToString prints.
LEMMA PrintedPath ==
  ASSUME NEW path, PathOK(path), NEW t \in pathToString(path)
  PROVE  TextOf(t, path)
<1> DEFINE orders == UNION {SetToSeqs(path[i].keys) : i \in DOMAIN path}
<1>1. PICK o \in {f \in [DOMAIN path -> orders] : \A i \in DOMAIN path : ToSet(f[i]) = path[i].keys} :
        t = [i \in DOMAIN path |-> [name |-> path[i].name, sel |-> o[i]]]
  BY DEF pathToString
<1>2. ASSUME NEW i \in DOMAIN path
      PROVE  /\ o[i] \in Seq(STRING \X STRING) /\ ToSet(o[i]) = path[i].keys
             /\ path[i].name \in STRING
  <2>1. o[i] \in orders /\ ToSet(o[i]) = path[i].keys
    BY <1>1
  <2>2. PICK j \in DOMAIN path : o[i] \in SetToSeqs(path[j].keys)
    BY <2>1
  <2>3. Cardinality(path[j].keys) \in Nat
    BY FS_CardinalityType DEF PathOK
  <2>4. path[j] \in Element /\ path[i] \in Element
    BY DEF PathOK
  <2>5. path[j].keys \subseteq STRING \X STRING /\ path[i].name \in STRING
    BY <2>4 DEF Element
  <2>6. o[i] \in [1..Cardinality(path[j].keys) -> path[j].keys]
    BY <2>2 DEF SetToSeqs
  <2>7. o[i] \in Seq(STRING \X STRING)
    <3> DEFINE c == Cardinality(path[j].keys)
               K == path[j].keys
    <3>1. c \in Nat /\ o[i] \in [1..c -> K] /\ K \subseteq STRING \X STRING
      BY <2>3, <2>5, <2>6
    <3> HIDE DEF c, K
    <3>2. QED BY <3>1
  <2>8. QED BY <2>1, <2>5, <2>7
<1>3. DOMAIN path = 1..Len(path) /\ Len(path) \in Nat
  BY DEF PathOK
<1>4. t \in Path /\ Len(t) = Len(path)
  BY <1>1, <1>2, <1>3 DEF Path, Segment
<1>5. QED BY <1>1, <1>2, <1>4 DEF TextOf

-----------------------------------------------------------------------------
(* The common prefix.                                                      *)

\* The number of segments, counted up to the k-th of them.
Counted(base, s, k, n) == (\A seg \in ToSet(s) : Pieces(seg) = 1) => n = base + k

Count == INSTANCE Loops WITH Op <- AddPieces, Inv <- Counted

\* Finitely many sequences have a longest common prefix.
LEMMA LongestPrefix ==
  ASSUME NEW X, NEW n \in Nat, n > 0, NEW s \in [1..n -> Seq(X)]
  PROVE  LET p == LongestCommonPrefix({s[i] : i \in 1..n})
         IN  p \in Seq(X) /\ \A i \in 1..n : IsPrefix(p, s[i])
<1> DEFINE S == {s[i] : i \in 1..n}
           C == CommonPrefixes(S)
           T == {Len(s[1]) - Len(q) : q \in C}
<1>1. 1 \in 1..n /\ s[1] \in S
  OBVIOUS
<1>2. ASSUME NEW q \in C
      PROVE  q \in Seq(X) /\ Len(q) <= Len(s[1]) /\ \A t \in S : IsPrefix(q, t)
  <2>1. \A t \in S : IsPrefix(q, t)
    BY DEF CommonPrefixes
  <2>2. PICK t \in S : q \in Prefixes(t)
    BY DEF CommonPrefixes
  <2>3. q \in Seq(X)
    <3>1. t \in Seq(X)
      OBVIOUS
    <3>2. QED BY <2>2, <3>1 DEF Prefixes
  <2>4. QED BY <1>1, <2>1, <2>3 DEF IsPrefix
<1>3. <<>> \in C
  <2>1. SubSeq(s[1], 1, 0) = <<>> /\ 0 \in 0..Len(s[1])
    BY <1>1
  <2>2. <<>> \in Prefixes(s[1])
    BY <2>1 DEF Prefixes
  <2>3. \A t \in S : IsPrefix(<<>>, t)
    BY DEF IsPrefix
  <2>4. QED BY <1>1, <2>2, <2>3 DEF CommonPrefixes
<1>4. T \in SUBSET Nat /\ T # {}
  <2>1. \A q \in C : Len(s[1]) - Len(q) \in Nat
    <3>1. s[1] \in Seq(X)
      BY <1>1
    <3> HIDE DEF C
    <3>2. QED BY <1>2, <3>1
  <2>2. QED BY <1>3, <2>1
<1>5. PICK m \in T : \A k \in T : m <= k
  <2> HIDE DEF T
  <2> QED BY <1>4, Count!LeastNumber
<1>6. PICK p \in C : m = Len(s[1]) - Len(p)
  OBVIOUS
<1>7. \A q \in C : Len(q) <= Len(p)
  <2>1. s[1] \in Seq(X)
    BY <1>1
  <2>2. ASSUME NEW q \in C PROVE Len(q) <= Len(p)
    <3>1. Len(q) \in Nat /\ Len(p) \in Nat /\ Len(s[1]) \in Nat
      <4> HIDE DEF C
      <4> QED BY <1>2, <2>1
    <3>2. Len(s[1]) - Len(p) <= Len(s[1]) - Len(q)
      BY <1>5, <1>6
    <3>3. QED BY <3>1, <3>2
  <2>3. QED BY <2>2
<1>8. LongestCommonPrefix(S) \in C
  <2> HIDE DEF C, S
  <2> QED BY <1>6, <1>7 DEF LongestCommonPrefix, C
<1>9. QED BY <1>2, <1>8

\* A sequence and a prefix of it, element by element.
LEMMA PrefixElements ==
  ASSUME NEW X, NEW p \in Seq(X), NEW s \in Seq(X)
  PROVE  IsPrefix(p, s) <=> Len(p) <= Len(s) /\ \A i \in 1..Len(p) : p[i] = s[i]
<1>1. SubSeq(p, 1, Len(p)) = p
  OBVIOUS
<1>2. CASE Len(p) <= Len(s)
  <2> DEFINE q == SubSeq(s, 1, Len(p))
  <2>1. q \in Seq(X) /\ Len(q) = Len(p) /\ \A i \in 1..Len(p) : q[i] = s[i]
    BY <1>2
  <2>2. p = q <=> \A i \in 1..Len(p) : p[i] = q[i]
    <3> HIDE DEF q
    <3> QED BY <2>1
  <2>3. QED BY <1>1, <1>2, <2>1, <2>2 DEF IsPrefix
<1>3. CASE ~(Len(p) <= Len(s))
  BY <1>3 DEF IsPrefix
<1>4. QED BY <1>2, <1>3

-----------------------------------------------------------------------------
(* The state: a response and its text.                                     *)

TextInv ==
  /\ sent \in Seq(Leaves) /\ text \in Seq(Path) /\ Len(text) = Len(sent)
  /\ \A i \in DOMAIN sent : TextOf(text[i], sent[i].path)
  /\ \A i, j \in DOMAIN sent : i # j => sent[i] # sent[j]

\* What is known of a leaf.
LEMMA LeafPath ==
  ASSUME NEW l \in Leaves
  PROVE  PathOK(l.path) /\ Len(l.path) > 0 /\ l.below \in Seq(STRING)
BY NormalizeAssumption DEF PathOK

\* A part of a path.
LEMMA PathPart ==
  ASSUME NEW path, PathOK(path), NEW a \in Nat, NEW b \in Nat, a > 0, b <= Len(path)
  PROVE  /\ PathOK(SubSeq(path, a, b)) /\ Len(SubSeq(path, a, b)) = IF a <= b THEN b - a + 1 ELSE 0
         /\ \A i \in 1..(b - a + 1) : SubSeq(path, a, b)[i] = path[a + i - 1]
<1> DEFINE q == SubSeq(path, a, b)
<1>1. path \in Seq(Element)
  BY DEF PathOK
<1>2. /\ q \in Seq(Element) /\ Len(q) = IF a <= b THEN b - a + 1 ELSE 0
      /\ \A i \in 1..(b - a + 1) : q[i] = path[a + i - 1]
  BY <1>1
<1>3. ASSUME NEW i \in DOMAIN q PROVE IsFiniteSet(q[i].keys)
  <2>1. i \in 1..(b - a + 1) /\ a + i - 1 \in DOMAIN path
    <3> HIDE DEF q
    <3> QED BY <1>1, <1>2
  <2>2. QED BY <1>2, <2>1 DEF PathOK
<1>4. QED BY <1>2, <1>3 DEF PathOK

\* The text of a path in two parts.
LEMMA TextJoined ==
  ASSUME NEW path, PathOK(path), NEW n \in 0..Len(path),
         NEW p, TextOf(p, SubSeq(path, 1, n)),
         NEW r, TextOf(r, SubSeq(path, n + 1, Len(path)))
  PROVE  TextOf(p \o r, path)
<1> DEFINE a == SubSeq(path, 1, n)
           b == SubSeq(path, n + 1, Len(path))
           t == p \o r
<1>1. path \in Seq(Element) /\ n \in Nat /\ Len(path) \in Nat /\ n <= Len(path)
  BY DEF PathOK
<1>2. /\ Len(a) = n /\ Len(b) = Len(path) - n
      /\ DOMAIN a = 1..n /\ DOMAIN b = 1..(Len(path) - n)
      /\ (\A i \in 1..n : a[i] = path[i])
      /\ (\A i \in 1..(Len(path) - n) : b[i] = path[n + i])
  BY <1>1
<1> HIDE DEF a, b
<1>3. /\ p \in Path /\ Len(p) = n /\ r \in Path /\ Len(r) = Len(path) - n
      /\ (\A i \in 1..n : p[i].name = path[i].name /\ ToSet(p[i].sel) = path[i].keys)
      /\ (\A i \in 1..(Len(path) - n) : /\ r[i].name = path[n + i].name
                                        /\ ToSet(r[i].sel) = path[n + i].keys)
  BY <1>2 DEF TextOf, a, b
<1>4. /\ t \in Path /\ Len(t) = Len(path)
      /\ (\A i \in 1..n : t[i] = p[i])
      /\ (\A i \in (n + 1)..Len(path) : t[i] = r[i - n])
  BY <1>1, <1>3 DEF Path
<1> HIDE DEF t
<1>5. ASSUME NEW i \in DOMAIN path
      PROVE  t[i].name = path[i].name /\ ToSet(t[i].sel) = path[i].keys
  <2>1. CASE i <= n
    BY <1>1, <1>3, <1>4, <2>1
  <2>2. CASE ~(i <= n)
    <3>1. i - n \in 1..(Len(path) - n) /\ n + (i - n) = i /\ i \in (n + 1)..Len(path)
      BY <1>1, <2>2
    <3>2. QED BY <1>3, <1>4, <3>1
  <2>3. QED BY <2>1, <2>2
<1>6. QED BY <1>4, <1>5 DEF TextOf, t


\* The paths of a response have the prefix of the notification in common.
LEMMA SharedPrefix ==
  ASSUME NEW m \in Nat, m > 0, NEW ls \in [1..m -> Leaves], NEW n \in {0, Shared(ls)},
         NEW i \in 1..m
  PROVE  n \in 0..Len(ls[i].path) /\ SubSeq(ls[1].path, 1, n) = SubSeq(ls[i].path, 1, n)
<1> DEFINE f == [j \in 1..m |-> Front(ls[j].path)]
           p == LongestCommonPrefix({f[j] : j \in 1..m})
<1>1. \A j \in 1..m : ls[j].path \in Seq(Element) /\ Len(ls[j].path) > 0
  BY LeafPath DEF PathOK
<1>2. ASSUME NEW j \in 1..m
      PROVE  /\ f[j] \in Seq(Element) /\ Len(f[j]) = Len(ls[j].path) - 1
             /\ \A k \in 1..Len(f[j]) : f[j][k] = ls[j].path[k]
  BY <1>1 DEF Front
<1>3. CASE n = 0
  <2>1. ls[1].path \in Seq(Element) /\ ls[i].path \in Seq(Element) /\ 1 \in 1..m
    BY <1>1
  <2>2. QED BY <1>3, <2>1
<1>4. CASE n = Shared(ls)
  <2>1. f \in [1..m -> Seq(Element)]
    BY <1>2
  <2>2. n = Len(p)
    <3>1. {Front(ls[j].path) : j \in DOMAIN ls} = {f[j] : j \in 1..m}
      OBVIOUS
    <3>2. QED BY <1>4, <3>1 DEF Shared
  <2> HIDE DEF f, p
  <2>3. p \in Seq(Element) /\ \A j \in 1..m : IsPrefix(p, f[j])
    BY <2>1, LongestPrefix DEF p
  <2>4. ASSUME NEW j \in 1..m
        PROVE  n <= Len(f[j]) /\ \A k \in 1..n : p[k] = f[j][k]
    <3>1. f[j] \in Seq(Element)
      BY <2>1
    <3>2. QED BY <2>2, <2>3, <3>1, PrefixElements
  <2>5. ASSUME NEW j \in 1..m
        PROVE  n \in 0..Len(ls[j].path) /\ SubSeq(ls[j].path, 1, n) = p
    <3> DEFINE q == SubSeq(ls[j].path, 1, n)
    <3>1. n \in Nat /\ n <= Len(ls[j].path) /\ \A k \in 1..n : p[k] = ls[j].path[k]
      BY <1>1, <1>2, <2>2, <2>3, <2>4
    <3>2. q \in Seq(Element) /\ Len(q) = n /\ \A k \in 1..n : q[k] = ls[j].path[k]
      <4>1. ls[j].path \in Seq(Element) /\ n \in 0..Len(ls[j].path)
        BY <1>1, <3>1
      <4>2. QED BY <4>1, PrefixPart
    <3> HIDE DEF q
    <3>3. q = p
      BY <2>2, <2>3, <3>1, <3>2
    <3>4. QED BY <1>1, <3>1, <3>3 DEF q
  <2>6. QED BY <2>5
<1>5. QED BY <1>3, <1>4

\* What is printed of a response.
LEMMA PrintedText ==
  ASSUME NEW m \in Nat, m > 0, NEW ls \in [1..m -> Leaves], NEW n \in {0, Shared(ls)},
         NEW t \in Printed(ls, n)
  PROVE  t \in Seq(Path) /\ Len(t) = m /\ \A i \in 1..m : TextOf(t[i], ls[i].path)
<1> DEFINE rest == [i \in DOMAIN ls |-> pathToString(SubSeq(ls[i].path, n + 1, Len(ls[i].path)))]
           R    == {f \in [DOMAIN ls -> UNION {rest[i] : i \in DOMAIN ls}] :
                      \A i \in DOMAIN ls : f[i] \in rest[i]}
           pre  == pathToString(SubSeq(ls[1].path, 1, n))
<1>1. PICK p \in pre, r \in R : t = [i \in DOMAIN ls |-> p \o r[i]]
  <2>1. Printed(ls, n) = {[i \in DOMAIN ls |-> p \o r[i]] : p \in pre, r \in R}
    BY DEF Printed
  <2> HIDE DEF R, pre
  <2>2. QED BY <2>1
<1>2. ASSUME NEW i \in 1..m PROVE TextOf(t[i], ls[i].path)
  <2> DEFINE path == ls[i].path
  <2>1. PathOK(path) /\ n \in 0..Len(path) /\ SubSeq(ls[1].path, 1, n) = SubSeq(path, 1, n)
    BY LeafPath, SharedPrefix
  <2>2. n \in Nat /\ n + 1 \in Nat /\ n + 1 > 0 /\ Len(path) \in Nat /\ n <= Len(path)
    BY <2>1 DEF PathOK
  <2>3. t[i] = p \o r[i] /\ r[i] \in pathToString(SubSeq(path, n + 1, Len(path)))
    BY <1>1
  <2>4. p \in pathToString(SubSeq(path, 1, n))
    BY <1>1, <2>1
  <2> HIDE DEF path
  <2>5. PathOK(SubSeq(path, 1, n)) /\ PathOK(SubSeq(path, n + 1, Len(path)))
    <3>1. PathOK(SubSeq(path, 1, n))
      <4>1. 1 \in Nat /\ 1 > 0
        OBVIOUS
      <4>2. QED BY <2>1, <2>2, <4>1, PathPart
    <3>2. PathOK(SubSeq(path, n + 1, Len(path)))
      <4> DEFINE a == n + 1
                 b == Len(path)
      <4>1. PathOK(path) /\ a \in Nat /\ b \in Nat /\ a > 0 /\ b <= Len(path)
        BY <2>1, <2>2
      <4> HIDE DEF a, b
      <4>2. PathOK(SubSeq(path, a, b))
        BY <4>1, PathPart
      <4>3. QED BY <4>2 DEF a, b
    <3>3. QED BY <3>1, <3>2
  <2>6. TextOf(p, SubSeq(path, 1, n)) /\ TextOf(r[i], SubSeq(path, n + 1, Len(path)))
    BY <2>3, <2>4, <2>5, PrintedPath
  <2>7. TextOf(t[i], path)
    BY <2>1, <2>3, <2>6, TextJoined
  <2>8. QED BY <2>7 DEF path
<1>3. t \in [1..m -> Path]
  BY <1>1, <1>2 DEF TextOf
<1>4. t \in Seq(Path) /\ Len(t) = m
  BY <1>3
<1>5. QED BY <1>2, <1>4

LEMMA TextStep == TextInv /\ [Next]_<<sent, text>> => TextInv'
<1> SUFFICES ASSUME TextInv, [Next]_<<sent, text>> PROVE TextInv'
  OBVIOUS
<1>1. CASE Receive
  <2>1. PICK ls \in UNION {TupleOf(Leaves, n) : n \in 1..MaxUpdates} :
          /\ \A i, j \in DOMAIN ls : i # j => ls[i] # ls[j]
          /\ \E n \in {0, Shared(ls)} : text' \in Printed(ls, n)
          /\ sent' = ls
    BY <1>1 DEF Receive
  <2>2. PICK m \in 1..MaxUpdates : ls \in [1..m -> Leaves]
    BY <2>1 DEF TupleOf
  <2>3. PICK n \in {0, Shared(ls)} : text' \in Printed(ls, n)
    BY <2>1
  <2>4. m \in Nat /\ m > 0 /\ ls \in Seq(Leaves) /\ Len(ls) = m /\ DOMAIN ls = 1..m
    BY <2>2, NormalizeAssumption
  <2>5. text' \in Seq(Path) /\ Len(text') = m /\ \A i \in 1..m : TextOf(text'[i], ls[i].path)
    BY <2>2, <2>3, <2>4, PrintedText
  <2>6. QED BY <2>1, <2>4, <2>5 DEF TextInv
<1>2. CASE Return
  BY <1>2 DEF Return, TextInv
<1>3. CASE UNCHANGED <<sent, text>>
  BY <1>3 DEF TextInv
<1>4. QED BY <1>1, <1>2, <1>3 DEF Next

\* The text of a response names the places of its leaves and all of their keys,
\* however the keys were ordered and the prefix was printed.
THEOREM TextInvariant == Spec => []TextInv
<1>1. Init => TextInv
  BY DEF Init, TextInv
<1>2. QED BY <1>1, TextStep, PTL DEF Spec


-----------------------------------------------------------------------------
(* One update of a tree.                                                   *)

Step     == STRING \X Nat
Position == Seq(Step)

TreeOK(tree) == DOMAIN tree \subseteq Position /\ IsFiniteSet(DOMAIN tree)

\* Where Assign puts the value.
PlaceOf(at, name, below) == Append(at, <<name, 0>>) \o Plain(below)

LEMMA PlainPosition ==
  ASSUME NEW names \in Seq(STRING)
  PROVE  /\ Plain(names) \in Position /\ Len(Plain(names)) = Len(names)
         /\ \A i \in 1..Len(names) : Plain(names)[i] = <<names[i], 0>>
         /\ StepNames(Plain(names)) = names
<1>1. \A i \in DOMAIN names : <<names[i], 0>> \in Step
  BY DEF Step
<1>2. QED BY <1>1 DEF Plain, Position, StepNames

LEMMA StepNamesElements ==
  ASSUME NEW at \in Position
  PROVE  /\ StepNames(at) \in Seq(STRING) /\ Len(StepNames(at)) = Len(at)
         /\ \A i \in 1..Len(at) : StepNames(at)[i] = at[i][1]
<1>1. \A i \in DOMAIN at : at[i][1] \in STRING
  BY DEF Position, Step
<1>2. QED BY <1>1 DEF StepNames, Position

LEMMA StepNamesJoined ==
  ASSUME NEW p \in Position, NEW q \in Position
  PROVE  p \o q \in Position /\ StepNames(p \o q) = StepNames(p) \o StepNames(q)
<1> DEFINE r == p \o q
           a == StepNames(p)
           b == StepNames(q)
           c == StepNames(r)
           d == a \o b
<1>1. /\ r \in Position /\ Len(r) = Len(p) + Len(q)
      /\ (\A i \in 1..Len(p) : r[i] = p[i]) /\ (\A i \in 1..Len(q) : r[Len(p) + i] = q[i])
      /\ Len(p) \in Nat /\ Len(q) \in Nat
  BY JoinedElements DEF Position
<1> HIDE DEF r
<1>2. /\ a \in Seq(STRING) /\ Len(a) = Len(p) /\ \A i \in 1..Len(p) : a[i] = p[i][1]
      /\ b \in Seq(STRING) /\ Len(b) = Len(q) /\ \A i \in 1..Len(q) : b[i] = q[i][1]
      /\ c \in Seq(STRING) /\ Len(c) = Len(r) /\ \A i \in 1..Len(r) : c[i] = r[i][1]
  BY <1>1, StepNamesElements
<1> HIDE DEF a, b, c
<1>3. /\ d \in Seq(STRING) /\ Len(d) = Len(p) + Len(q)
      /\ (\A i \in 1..Len(p) : d[i] = a[i]) /\ (\A i \in 1..Len(q) : d[Len(p) + i] = b[i])
  <2>1. /\ d \in Seq(STRING) /\ Len(d) = Len(a) + Len(b)
        /\ (\A i \in 1..Len(a) : d[i] = a[i]) /\ (\A i \in 1..Len(b) : d[Len(a) + i] = b[i])
    <3>1. a \in Seq(STRING) /\ b \in Seq(STRING)
      BY <1>2
    <3>2. QED BY <3>1, JoinedElements
  <2> HIDE DEF d
  <2>2. QED BY <1>2, <2>1
<1> HIDE DEF d
<1>4. ASSUME NEW i \in 1..Len(r) PROVE c[i] = d[i]
  <2>1. CASE i \in 1..Len(p)
    <3>1. c[i] = r[i][1] /\ r[i] = p[i]
      BY <1>1, <1>2, <2>1
    <3>2. d[i] = a[i] /\ a[i] = p[i][1]
      BY <1>2, <1>3, <2>1
    <3>3. QED BY <3>1, <3>2
  <2>2. CASE i \notin 1..Len(p)
    <3>1. PICK j \in 1..Len(q) : i = Len(p) + j
      <4>1. i - Len(p) \in 1..Len(q) /\ i = Len(p) + (i - Len(p))
        BY <1>1, <2>2
      <4>2. QED BY <4>1
    <3>2. c[i] = q[j][1] /\ d[i] = q[j][1]
      BY <1>1, <1>2, <1>3, <3>1
    <3>3. QED BY <3>2
  <2>3. QED BY <2>1, <2>2
<1>5. c = d
  BY <1>1, <1>2, <1>3, <1>4, SameElements
<1>6. QED BY <1>1, <1>5 DEF a, b, c, d, r

LEMMA StepNamesOne ==
  ASSUME NEW name, NEW n
  PROVE  StepNames(<< <<name, n>> >>) = <<name>>
BY DEF StepNames

LEMMA StepNamesNext ==
  ASSUME NEW at \in Position, NEW name \in STRING, NEW n \in Nat
  PROVE  /\ <<name, n>> \in Step /\ Append(at, <<name, n>>) \in Position
         /\ StepNames(Append(at, <<name, n>>)) = Append(StepNames(at), name)
<1> DEFINE step == <<name, n>>
<1>1. step \in Step
  BY DEF Step
<1>2. StepNames(<<step>>) = <<name>>
  BY StepNamesOne
<1> HIDE DEF step
<1>3. <<step>> \in Position
  BY <1>1 DEF Position
<1>4. Append(at, step) = at \o <<step>> /\ Append(at, step) \in Position
  BY <1>1, AppendElements DEF Position
<1>5. StepNames(at) \in Seq(STRING)
  BY StepNamesElements
<1>6. Append(StepNames(at), name) = StepNames(at) \o <<name>>
  BY <1>5, AppendElements
<1>7. QED BY <1>1, <1>2, <1>3, <1>4, <1>6, StepNamesJoined DEF step

\* new is tree with a value at its place below name, and nothing else there.
Assigned(tree, at, name, below, val, new) ==
  LET place == PlaceOf(at, name, below)
  IN  /\ TreeOK(new) /\ place \in Position
      /\ StepNames(place) = StepNames(at) \o <<name>> \o below
      /\ DOMAIN new = {place} \cup (DOMAIN tree \ Under(tree, at, name))
      /\ new[place] = val
      /\ \A p \in DOMAIN new : p # place => p \in DOMAIN tree /\ new[p] = tree[p]

\* The effect of m[name] = value.
LEMMA AssignEffect ==
  ASSUME NEW tree, TreeOK(tree), NEW at \in Position, NEW name \in STRING,
         NEW below \in Seq(STRING), NEW val
  PROVE  Assigned(tree, at, name, below, val, Assign(tree, at, name, below, val))
<1> DEFINE new   == Assign(tree, at, name, below, val)
           place == PlaceOf(at, name, below)
<1>1. /\ <<name, 0>> \in Step /\ << <<name, 0>> >> \in Position
      /\ Append(at, <<name, 0>>) = at \o << <<name, 0>> >>
      /\ StepNames(<< <<name, 0>> >>) = <<name>>
  BY DEF Step, Position, StepNames
<1>2. place \in Position /\ StepNames(place) = StepNames(at) \o <<name>> \o below
  <2>1. Plain(below) \in Position /\ StepNames(Plain(below)) = below
    BY PlainPosition
  <2>2. /\ at \o << <<name, 0>> >> \in Position
        /\ StepNames(at \o << <<name, 0>> >>) = StepNames(at) \o <<name>>
    BY <1>1, StepNamesJoined
  <2>3. QED BY <1>1, <2>1, <2>2, StepNamesJoined DEF PlaceOf
<1>3. new = [p \in {place} \cup (DOMAIN tree \ Under(tree, at, name)) |->
               IF p = place THEN val ELSE tree[p]]
  BY DEF Assign, PlaceOf
<1> HIDE DEF new, place
<1>4. DOMAIN new = {place} \cup (DOMAIN tree \ Under(tree, at, name))
  BY <1>3
<1>5. TreeOK(new)
  <2>1. IsFiniteSet(DOMAIN tree \ Under(tree, at, name))
    BY FS_Subset DEF TreeOK
  <2>2. IsFiniteSet(DOMAIN new)
    <3> DEFINE D == DOMAIN tree \ Under(tree, at, name)
    <3>1. DOMAIN new = D \cup {place}
      BY <1>4
    <3> HIDE DEF D
    <3>2. QED BY <2>1, <3>1, FS_AddElement DEF D
  <2>3. QED BY <1>2, <1>4, <2>2 DEF TreeOK
<1>6. QED BY <1>2, <1>3, <1>4, <1>5 DEF new, place, Assigned

\* The elements of an array have numbers.
LEMMA ElementNumbers ==
  ASSUME NEW tree, TreeOK(tree), NEW at \in Position, NEW name
  PROVE  Elements(tree, at, name) \in SUBSET Nat /\ IsFiniteSet(Elements(tree, at, name))
<1> DEFINE U == Under(tree, at, name)
           T == {p[Len(at) + 1][2] : p \in U}
<1>1. ASSUME NEW p \in U PROVE p[Len(at) + 1][2] \in Nat
  <2>1. p \in Position /\ Len(p) > Len(at)
    BY DEF Under, TreeOK
  <2>2. Len(at) + 1 \in 1..Len(p)
    BY <2>1 DEF Position
  <2>3. QED BY <2>1, <2>2 DEF Position, Step
<1>2. IsFiniteSet(U)
  BY FS_Subset DEF TreeOK, Under
<1>3. IsFiniteSet(T)
  <2> DEFINE f == [p \in U |-> p[Len(at) + 1][2]]
  <2>1. f \in [U -> T] /\ \A t \in T : \E p \in U : f[p] = t
    OBVIOUS
  <2>2. f \in Surjection(U, T)
    <3> HIDE DEF f, U, T
    <3> QED BY <2>1 DEF Surjection
  <2>3. QED BY <1>2, <2>2, FS_Surjection
<1>4. Elements(tree, at, name) = T \ {0}
  BY DEF Elements
<1> HIDE DEF T
<1>5. IsFiniteSet(T \ {0})
  BY <1>3, FS_Subset
<1>6. QED BY <1>1, <1>4, <1>5 DEF T

LEMMA MinOfNumbers ==
  ASSUME NEW T \in SUBSET Nat, T # {}
  PROVE  Min(T) \in T /\ \A k \in T : Min(T) <= k
BY Count!LeastNumber DEF Min

\* A step into a segment keeps the tree but for the key of a list element it
\* may add.
LEMMA EnterEffect ==
  ASSUME NEW pos, TreeOK(pos.tree), pos.at \in Position, NEW seg \in Segment
  PROVE  LET q == Enter(pos, seg)
         IN  /\ TreeOK(q.tree)
             /\ \E n \in Nat : q.at = Append(pos.at, <<seg.name, n>>)
             /\ \A p \in DOMAIN q.tree :
                  \/ p \in DOMAIN pos.tree /\ q.tree[p] = pos.tree[p]
                  \/ /\ seg.sel # <<>> /\ p = Append(q.at, <<seg.sel[1][1], 0>>)
                     /\ q.tree[p] = seg.sel[1][2]
<1> DEFINE q == Enter(pos, seg)
<1>1. ASSUME NEW D, NEW t, t = Without(pos.tree, D)
      PROVE  /\ TreeOK(t) /\ \A p \in DOMAIN t : p \in DOMAIN pos.tree /\ t[p] = pos.tree[p]
  <2>1. DOMAIN t \subseteq DOMAIN pos.tree /\ \A p \in DOMAIN t : t[p] = pos.tree[p]
    BY <1>1 DEF Without, Restrict
  <2>2. QED BY <2>1, FS_Subset DEF TreeOK
<1>2. seg.name \in STRING /\ seg.sel \in Seq(STRING \X STRING)
  BY DEF Segment
<1>3. CASE seg.sel = <<>>
  <2>1. q = EnterMap(pos, seg)
    BY <1>3 DEF Enter
  <2>2. /\ q.at = Append(pos.at, <<seg.name, 0>>)
        /\ q.tree = IF IsMap(pos.tree, pos.at, seg.name) THEN pos.tree
                    ELSE Without(pos.tree, Under(pos.tree, pos.at, seg.name))
    BY <2>1 DEF EnterMap
  <2>3. QED BY <1>1, <1>2, <2>2
<1>4. CASE seg.sel # <<>>
  <2> DEFINE k     == seg.sel[1][1]
             v     == seg.sel[1][2]
             elems == Elements(pos.tree, pos.at, seg.name)
             key(i) == pos.at \o << <<seg.name, i>>, <<k, 0>> >>
             found == {i \in elems : key(i) \in DOMAIN pos.tree /\ pos.tree[key(i)] = v}
             base  == IF elems # {} THEN pos.tree
                      ELSE Without(pos.tree, Under(pos.tree, pos.at, seg.name))
             n     == IF found # {} THEN Min(found) ELSE Cardinality(elems) + 1
             at    == Append(pos.at, <<seg.name, n>>)
  <2>1. q = [at |-> at, tree |-> IF found # {} THEN base ELSE Assign(base, at, k, <<>>, v)]
    BY <1>4 DEF Enter, EnterElement
  <2>2. k \in STRING /\ v \in STRING
    BY <1>2, <1>4
  <2>3. elems \in SUBSET Nat /\ IsFiniteSet(elems)
    BY ElementNumbers
  <2> HIDE DEF k, v, elems
  <2>4. found \in SUBSET Nat
    BY <2>3
  <2> HIDE DEF found
  <2>5. n \in Nat
    <3>1. Cardinality(elems) \in Nat
      BY <2>3, FS_CardinalityType
    <3>2. found # {} => Min(found) \in Nat
      BY <2>4, MinOfNumbers
    <3>3. QED BY <3>1, <3>2
  <2>6. at \in Position
    BY <1>2, <2>5 DEF Position, Step
  <2>7. TreeOK(base) /\ \A p \in DOMAIN base : p \in DOMAIN pos.tree /\ base[p] = pos.tree[p]
    BY <1>1
  <2>a. Plain(<<>>) = <<>> /\ <<>> \in Seq(STRING)
    BY DEF Plain
  <2>b. PlaceOf(at, k, <<>>) = Append(at, <<k, 0>>)
    <3>1. Append(at, <<k, 0>>) \in Seq(Step)
      BY <2>2, <2>6 DEF Position, Step
    <3>2. Append(at, <<k, 0>>) \o <<>> = Append(at, <<k, 0>>)
      BY <3>1
    <3>3. QED BY <2>a, <3>2 DEF PlaceOf
  <2> HIDE DEF base, at
  <2>8. CASE found # {}
    <3>1. q.tree = base /\ q.at = at
      BY <2>1, <2>8
    <3>2. \E i \in Nat : q.at = Append(pos.at, <<seg.name, i>>)
      BY <2>5, <3>1 DEF at
    <3> HIDE DEF q
    <3>3. QED BY <2>7, <3>1, <3>2 DEF q
  <2>9. CASE found = {}
    <3> DEFINE new == Assign(base, at, k, <<>>, v)
    <3>1. q.tree = new /\ q.at = at
      BY <2>1, <2>9
    <3>2. TreeOK(base) /\ at \in Position /\ k \in STRING /\ <<>> \in Seq(STRING)
      BY <2>2, <2>6, <2>7, <2>a
    <3>3. Assigned(base, at, k, <<>>, v, new)
      BY <3>2, AssignEffect
    <3>4. /\ TreeOK(new) /\ new[PlaceOf(at, k, <<>>)] = v
          /\ \A p \in DOMAIN new : p # PlaceOf(at, k, <<>>) => p \in DOMAIN base /\ new[p] = base[p]
      BY <3>3 DEF Assigned
    <3> HIDE DEF new, n, q
    <3>6. /\ TreeOK(q.tree)
          /\ \A p \in DOMAIN q.tree :
                  \/ p \in DOMAIN pos.tree /\ q.tree[p] = pos.tree[p]
                  \/ p = Append(q.at, <<k, 0>>) /\ q.tree[p] = v
      BY <2>7, <2>b, <3>1, <3>4
    <3>7. q.at = Append(pos.at, <<seg.name, n>>)
      BY <3>1 DEF at
    <3>8. QED BY <1>4, <2>5, <3>6, <3>7 DEF k, v, q
  <2>10. QED BY <2>8, <2>9
<1>5. QED BY <1>3, <1>4


-----------------------------------------------------------------------------
(* Names of segments.                                                      *)

LEMMA NamesElements ==
  ASSUME NEW s \in Path
  PROVE  /\ Names(s) \in Seq(STRING) /\ Len(Names(s)) = Len(s)
         /\ \A i \in 1..Len(s) : Names(s)[i] = s[i].name
<1>1. \A i \in DOMAIN s : s[i].name \in STRING
  <2>1. \A i \in DOMAIN s : s[i] \in Segment
    BY DEF Path
  <2>2. QED BY <2>1 DEF Segment
<1>2. QED BY <1>1 DEF Names, Path

LEMMA NamesNext ==
  ASSUME NEW s \in Path, NEW k \in 1..Len(s)
  PROVE  Names(SubSeq(s, 1, k)) = Append(Names(SubSeq(s, 1, k - 1)), s[k].name)
<1> DEFINE a == SubSeq(s, 1, k)
           b == SubSeq(s, 1, k - 1)
<1>1. /\ a \in Path /\ Len(a) = k /\ \A i \in 1..k : a[i] = s[i]
      /\ b \in Path /\ Len(b) = k - 1 /\ \A i \in 1..(k - 1) : b[i] = s[i]
  <2>1. k \in 0..Len(s) /\ k - 1 \in 0..Len(s) /\ s \in Seq(Segment)
    BY DEF Path
  <2>2. QED BY <2>1, PrefixPart DEF Path
<1> HIDE DEF a, b
<1>2. /\ Names(a) \in Seq(STRING) /\ Len(Names(a)) = k /\ \A i \in 1..k : Names(a)[i] = s[i].name
      /\ Names(b) \in Seq(STRING) /\ Len(Names(b)) = k - 1
      /\ \A i \in 1..(k - 1) : Names(b)[i] = s[i].name
  BY <1>1, NamesElements
<1>3. s[k].name \in STRING /\ k \in Nat /\ k > 0
  <2>1. s[k] \in Segment
    BY DEF Path
  <2>2. QED BY <2>1 DEF Segment, Path
<1> DEFINE c == Append(Names(b), s[k].name)
<1>4. Names(a) = c
  <2>1. /\ c \in Seq(STRING) /\ Len(c) = k /\ c[k] = s[k].name
        /\ \A i \in 1..(k - 1) : c[i] = s[i].name
    BY <1>2, <1>3
  <2> HIDE DEF c
  <2>2. \A i \in 1..k : c[i] = s[i].name
    BY <1>3, <2>1
  <2>3. QED BY <1>2, <2>1, <2>2, SameElements
<1>5. QED BY <1>4 DEF a, b

-----------------------------------------------------------------------------
(* Nothing is invented.                                                    *)

\* v is a key of one of the segments parts, and p its place.
KeyAt(parts, p, v) ==
  \E j \in DOMAIN parts : \E kv \in ToSet(parts[j].sel) :
    StepNames(p) = Append(Names(SubSeq(parts, 1, j)), kv[1]) /\ v = kv[2]

\* Of the way down: k segments are entered, and only keys of them were added.
Entered(base, s, k, pos) ==
  s \in Path /\ base.at = <<>> /\ TreeOK(base.tree) =>
    /\ TreeOK(pos.tree) /\ pos.at \in Position
    /\ StepNames(pos.at) = Names(SubSeq(s, 1, k))
    /\ \A p \in DOMAIN pos.tree : \/ p \in DOMAIN base.tree /\ pos.tree[p] = base.tree[p]
                                  \/ KeyAt(s, p, pos.tree[p])

WayDown == INSTANCE Loops WITH Op <- Enter, Inv <- Entered

\* A step of the way down.
LEMMA EnterStep ==
  ASSUME NEW base, NEW s, NEW k \in 1..Len(s), NEW pos, Entered(base, s, k - 1, pos)
  PROVE  Entered(base, s, k, Enter(pos, s[k]))
<1> SUFFICES ASSUME s \in Path, base.at = <<>>, TreeOK(base.tree)
             PROVE  Entered(base, s, k, Enter(pos, s[k]))
  BY DEF Entered
<1> DEFINE q == Enter(pos, s[k])
           seg == s[k]
<1>1. seg \in Segment /\ k \in DOMAIN s /\ k \in Nat
  BY DEF Path
<1>2. /\ TreeOK(pos.tree) /\ pos.at \in Position
      /\ StepNames(pos.at) = Names(SubSeq(s, 1, k - 1))
      /\ \A p \in DOMAIN pos.tree : \/ p \in DOMAIN base.tree /\ pos.tree[p] = base.tree[p]
                                    \/ KeyAt(s, p, pos.tree[p])
  BY DEF Entered
<1>3. /\ TreeOK(q.tree)
      /\ \E n \in Nat : q.at = Append(pos.at, <<seg.name, n>>)
      /\ \A p \in DOMAIN q.tree :
           \/ p \in DOMAIN pos.tree /\ q.tree[p] = pos.tree[p]
           \/ /\ seg.sel # <<>> /\ p = Append(q.at, <<seg.sel[1][1], 0>>)
              /\ q.tree[p] = seg.sel[1][2]
  BY <1>1, <1>2, EnterEffect
<1> HIDE DEF q
<1>4. PICK n \in Nat : q.at = Append(pos.at, <<seg.name, n>>)
  BY <1>3
<1>5. q.at \in Position /\ StepNames(q.at) = Names(SubSeq(s, 1, k))
  <2>1. Names(SubSeq(s, 1, k)) = Append(StepNames(pos.at), seg.name)
    BY <1>2, NamesNext
  <2>2. seg.name \in STRING
    BY <1>1 DEF Segment
  <2>3. QED BY <1>2, <1>4, <2>1, <2>2, StepNamesNext
<1>6. ASSUME NEW p \in DOMAIN q.tree, seg.sel # <<>>, p = Append(q.at, <<seg.sel[1][1], 0>>),
             q.tree[p] = seg.sel[1][2]
      PROVE  KeyAt(s, p, q.tree[p])
  <2>1. seg.sel[1] \in ToSet(seg.sel) /\ seg.sel[1][1] \in STRING
    BY <1>1, <1>6 DEF Segment, ToSet
  <2>2. StepNames(p) = Append(Names(SubSeq(s, 1, k)), seg.sel[1][1])
    <3>1. q.at \in Position /\ seg.sel[1][1] \in STRING /\ 0 \in Nat
      BY <1>5, <2>1
    <3>2. StepNames(Append(q.at, <<seg.sel[1][1], 0>>)) = Append(StepNames(q.at), seg.sel[1][1])
      BY <3>1, StepNamesNext
    <3>3. QED BY <1>5, <1>6, <3>2
  <2>3. QED BY <1>1, <1>6, <2>1, <2>2 DEF KeyAt
<1>7. QED BY <1>2, <1>3, <1>5, <1>6 DEF Entered, q

\* The way down to the last segment.
LEMMA EnterAll ==
  ASSUME NEW s \in Path, NEW tree, TreeOK(tree)
  PROVE  Entered([tree |-> tree, at |-> <<>>], s, Len(s),
                 FoldLeft(Enter, [tree |-> tree, at |-> <<>>], s))
<1> DEFINE base == [tree |-> tree, at |-> <<>>]
<1>1. /\ WayDown!FoldLeft(Enter, base, s) = FoldLeft(Enter, base, s)
  BY DEF WayDown!FoldLeft, WayDown!MapThenFoldSet, WayDown!Max, FoldLeft, MapThenFoldSet, Max
<1>2. Entered(base, s, 0, base)
  <2>1. <<>> \in Position /\ StepNames(<<>>) = <<>> /\ Names(SubSeq(s, 1, 0)) = <<>>
    BY DEF Position, StepNames, Names, Path
  <2>2. QED BY <2>1 DEF Entered
<1>3. DOMAIN s = 1..Len(s) /\ Len(s) \in Nat
  BY DEF Path
<1> HIDE DEF base
<1>4. \A k \in 1..Len(s) : \A pos : Entered(base, s, k - 1, pos) => Entered(base, s, k, Enter(pos, s[k]))
  BY EnterStep
<1>5. Entered(base, s, Len(s), WayDown!FoldLeft(Enter, base, s))
  BY <1>2, <1>3, <1>4, WayDown!FoldInvariant
<1>6. QED BY <1>1, <1>5 DEF base


\* A key of the segments but the last is a key of the segments.
LEMMA KeyAtFront ==
  ASSUME NEW s \in Path, s # <<>>, NEW p, NEW v, KeyAt(Front(s), p, v)
  PROVE  KeyAt(s, p, v)
<1> DEFINE f == Front(s)
<1>1. f \in Path /\ Len(f) = Len(s) - 1 /\ \A i \in 1..(Len(s) - 1) : f[i] = s[i]
  BY FrontElements DEF Path
<1>2. PICK j \in DOMAIN f : \E kv \in ToSet(f[j].sel) :
        StepNames(p) = Append(Names(SubSeq(f, 1, j)), kv[1]) /\ v = kv[2]
  BY DEF KeyAt
<1>3. j \in 1..(Len(s) - 1) /\ j \in DOMAIN s
  <2> HIDE DEF f
  <2> QED BY <1>1 DEF Path
<1>4. SubSeq(f, 1, j) = SubSeq(s, 1, j)
  <2> DEFINE a == SubSeq(f, 1, j)
             b == SubSeq(s, 1, j)
  <2>1. j \in Nat /\ j <= Len(s) - 1 /\ Len(s) \in Nat
    BY <1>3 DEF Path
  <2>2. b \in Path /\ Len(b) = j /\ \A i \in 1..j : b[i] = s[i]
    BY <2>1 DEF Path
  <2> HIDE DEF f
  <2>3. a \in Path /\ Len(a) = j /\ \A i \in 1..j : a[i] = f[i]
    BY <1>1, <2>1 DEF Path
  <2> HIDE DEF a, b
  <2>4. \A i \in 1..j : a[i] = b[i]
    BY <1>1, <2>1, <2>2, <2>3
  <2>5. a = b
    BY <2>2, <2>3, <2>4 DEF Path
  <2>6. QED BY <2>5 DEF a, b
<1>5. f[j] = s[j]
  BY <1>1, <1>3
<1> HIDE DEF f
<1>6. QED BY <1>2, <1>3, <1>4, <1>5 DEF KeyAt

UpdateOK(u) ==
  /\ u.path \in Path /\ u.below \in Seq(STRING)
  /\ u.path # <<>> /\ Last(u.path).sel # <<>> => u.below # <<>>

\* Position p has the value v of update u, or one of its keys.
Holds(u, p, v) ==
  \/ StepNames(p) = Names(u.path) \o u.below /\ v = u.val
  \/ KeyAt(u.path, p, v)

\* t has nothing that is not in tree but keys of the segments parts.
KeysAdded(tree, parts, t) ==
  \A p \in DOMAIN t : (p \in DOMAIN tree /\ t[p] = tree[p]) \/ KeyAt(parts, p, t[p])

UpdateAdded(tree, u, t) ==
  /\ TreeOK(t)
  /\ \A p \in DOMAIN t : (p \in DOMAIN tree /\ t[p] = tree[p]) \/ Holds(u, p, t[p])

\* The last step of setNestedValue.
LEMMA LastAssignment ==
  ASSUME NEW u, NEW tree, NEW t, TreeOK(t), KeysAdded(tree, u.path, t),
         NEW at \in Position, NEW name \in STRING, NEW below \in Seq(STRING),
         StepNames(at) \o <<name>> \o below = Names(u.path) \o u.below
  PROVE  UpdateAdded(tree, u, Assign(t, at, name, below, u.val))
<1> DEFINE new   == Assign(t, at, name, below, u.val)
           place == PlaceOf(at, name, below)
<1>1. Assigned(t, at, name, below, u.val, new)
  BY AssignEffect
<1> HIDE DEF new
<1>2. /\ TreeOK(new) /\ new[place] = u.val
      /\ StepNames(place) = Names(u.path) \o u.below
      /\ \A p \in DOMAIN new : p # place => p \in DOMAIN t /\ new[p] = t[p]
  BY <1>1 DEF Assigned
<1> HIDE DEF place
<1>3. ASSUME NEW p \in DOMAIN new
      PROVE  (p \in DOMAIN tree /\ new[p] = tree[p]) \/ Holds(u, p, new[p])
  <2>1. CASE p = place
    BY <1>2, <2>1 DEF Holds
  <2>2. CASE p # place
    BY <1>2, <2>2 DEF Holds, KeysAdded
  <2>3. QED BY <2>1, <2>2
<1>4. UpdateAdded(tree, u, new)
  BY <1>2, <1>3 DEF UpdateAdded
<1>5. QED BY <1>4 DEF new

\* What setNestedValue adds to a tree.
LEMMA SetNestedEffect ==
  ASSUME NEW u, UpdateOK(u), u.path # <<>>, NEW tree, TreeOK(tree)
  PROVE  UpdateAdded(tree, u, setNestedValue(tree, u.path, u.below, u.val))
<1> DEFINE parts == u.path
           n     == Len(parts)
           f     == Front(parts)
           base  == [tree |-> tree, at |-> <<>>]
           here  == FoldLeft(Enter, base, f)
           last  == Last(parts)
           elem  == EnterElement(here, last)
           new   == setNestedValue(tree, parts, u.below, u.val)
<1>1. /\ parts \in Path /\ n \in Nat /\ n > 0 /\ last = parts[n] /\ last \in Segment
      /\ f \in Path /\ Len(f) = n - 1 /\ f = SubSeq(parts, 1, n - 1)
      /\ SubSeq(parts, 1, n) = parts /\ SubSeq(f, 1, n - 1) = f
      /\ u.below \in Seq(STRING) /\ (last.sel # <<>> => u.below # <<>>)
  BY DEF UpdateOK, Path, Front, Last
<1>2. /\ TreeOK(here.tree) /\ here.at \in Position /\ StepNames(here.at) = Names(f)
      /\ KeysAdded(tree, parts, here.tree)
  <2>1. Entered(base, f, Len(f), here)
    BY <1>1, EnterAll
  <2> HIDE DEF here
  <2>2. /\ TreeOK(here.tree) /\ here.at \in Position /\ StepNames(here.at) = Names(f)
        /\ \A p \in DOMAIN here.tree : \/ p \in DOMAIN base.tree /\ here.tree[p] = base.tree[p]
                                       \/ KeyAt(f, p, here.tree[p])
    BY <1>1, <2>1 DEF Entered
  <2>3. parts \in Path /\ parts # <<>>
    BY <1>1
  <2>4. \A p, v : KeyAt(f, p, v) => KeyAt(parts, p, v)
    BY <2>3, KeyAtFront
  <2>5. QED BY <2>2, <2>4 DEF KeysAdded
<1>3. Names(parts) = Append(Names(f), last.name) /\ last.name \in STRING
  <2>1. n \in 1..Len(parts)
    BY <1>1
  <2> HIDE DEF f, parts, n, last
  <2>2. Names(SubSeq(parts, 1, n)) = Append(Names(SubSeq(parts, 1, n - 1)), parts[n].name)
    BY <1>1, <2>1, NamesNext DEF n
  <2>3. last.name \in STRING
    BY <1>1 DEF Segment
  <2>4. QED BY <1>1, <2>2, <2>3
<1>4. new = IF last.sel = <<>> THEN Assign(here.tree, here.at, last.name, u.below, u.val)
            ELSE IF u.below # <<>> THEN Assign(elem.tree, elem.at, Head(u.below), Tail(u.below), u.val)
            ELSE Assign(elem.tree, elem.at, last.sel[1][1], <<>>, u.val)
  BY DEF setNestedValue
<1>6. CASE last.sel = <<>>
  <2>1. new = Assign(here.tree, here.at, last.name, u.below, u.val)
    BY <1>4, <1>6
  <2>2. StepNames(here.at) \o <<last.name>> \o u.below = Names(parts) \o u.below
    <3>1. StepNames(here.at) \in Seq(STRING)
      BY <1>2, StepNamesElements
    <3> HIDE DEF here, last
    <3>2. StepNames(here.at) \o <<last.name>> = Names(parts)
      BY <1>2, <1>3, <3>1
    <3>3. QED BY <3>2
  <2>3. /\ TreeOK(here.tree) /\ KeysAdded(tree, u.path, here.tree) /\ here.at \in Position
        /\ last.name \in STRING /\ u.below \in Seq(STRING)
    BY <1>1, <1>2, <1>3
  <2>4. StepNames(here.at) \o <<last.name>> \o u.below = Names(u.path) \o u.below
    BY <2>2
  <2> HIDE DEF here, last
  <2>5. UpdateAdded(tree, u, Assign(here.tree, here.at, last.name, u.below, u.val))
    BY <2>3, <2>4, LastAssignment
  <2>6. QED BY <2>1, <2>5
<1>7. CASE last.sel # <<>>
  <2>1. elem = Enter(here, last)
    BY <1>7 DEF Enter
  <2> HIDE DEF here, last, elem, new
  <2>2. /\ TreeOK(elem.tree)
        /\ \E i \in Nat : elem.at = Append(here.at, <<last.name, i>>)
        /\ \A p \in DOMAIN elem.tree :
             \/ p \in DOMAIN here.tree /\ elem.tree[p] = here.tree[p]
             \/ /\ last.sel # <<>> /\ p = Append(elem.at, <<last.sel[1][1], 0>>)
                /\ elem.tree[p] = last.sel[1][2]
    BY <1>1, <1>2, <2>1, EnterEffect
  <2>3. PICK i \in Nat : elem.at = Append(here.at, <<last.name, i>>)
    BY <2>2
  <2>4. elem.at \in Position /\ StepNames(elem.at) = Names(parts)
    <3>1. QED BY <1>2, <1>3, <2>3, StepNamesNext
  <2>5. KeysAdded(tree, parts, elem.tree)
    <3>1. ASSUME NEW p \in DOMAIN elem.tree, p = Append(elem.at, <<last.sel[1][1], 0>>),
                 elem.tree[p] = last.sel[1][2]
          PROVE  KeyAt(parts, p, elem.tree[p])
      <4>1. last.sel[1] \in ToSet(last.sel) /\ last.sel[1][1] \in STRING
        BY <1>1, <1>7 DEF Segment, ToSet
      <4>2. StepNames(Append(elem.at, <<last.sel[1][1], 0>>)) = Append(StepNames(elem.at), last.sel[1][1])
        <5>1. elem.at \in Position /\ last.sel[1][1] \in STRING /\ 0 \in Nat
          BY <2>4, <4>1
        <5>2. QED BY <5>1, StepNamesNext
      <4>3. n \in DOMAIN parts /\ parts[n] = last /\ SubSeq(parts, 1, n) = parts
        BY <1>1 DEF Path
      <4>4. QED BY <2>4, <3>1, <4>1, <4>2, <4>3 DEF KeyAt
    <3>2. QED BY <1>2, <2>2, <3>1 DEF KeysAdded
  <2>6. u.below # <<>> /\ Head(u.below) \in STRING /\ Tail(u.below) \in Seq(STRING)
    <3> DEFINE b == u.below
    <3>1. b \in Seq(STRING) /\ b # <<>>
      BY <1>1, <1>7
    <3> HIDE DEF b
    <3>2. Head(b) \in STRING /\ Tail(b) \in Seq(STRING)
      BY <3>1
    <3>3. QED BY <3>1, <3>2 DEF b
  <2>7. new = Assign(elem.tree, elem.at, Head(u.below), Tail(u.below), u.val)
    BY <1>4, <1>7, <2>6
  <2>8. StepNames(elem.at) \o <<Head(u.below)>> \o Tail(u.below) = Names(parts) \o u.below
    <3>1. Names(parts) \in Seq(STRING)
      BY <1>1, NamesElements
    <3>2. \A a \in Seq(STRING), b \in Seq(STRING) : b # <<>> => a \o <<Head(b)>> \o Tail(b) = a \o b
      OBVIOUS
    <3>3. QED BY <1>1, <2>4, <2>6, <3>1, <3>2
  <2>9. TreeOK(elem.tree)
    BY <2>2
  <2>10. /\ TreeOK(elem.tree) /\ KeysAdded(tree, u.path, elem.tree) /\ elem.at \in Position
         /\ Head(u.below) \in STRING /\ Tail(u.below) \in Seq(STRING)
         /\ StepNames(elem.at) \o <<Head(u.below)>> \o Tail(u.below) = Names(u.path) \o u.below
    BY <2>4, <2>5, <2>6, <2>8, <2>9
  <2>11. UpdateAdded(tree, u, Assign(elem.tree, elem.at, Head(u.below), Tail(u.below), u.val))
    BY <2>10, LastAssignment
  <2>12. new = setNestedValue(tree, u.path, u.below, u.val)
    BY DEF new
  <2>13. QED BY <2>7, <2>11, <2>12
<1>8. QED BY <1>6, <1>7

\* After k updates every position has the value of one of them, or its key.
Built(base, s, k, tree) ==
  base = <<>> /\ (\A i \in DOMAIN s : UpdateOK(s[i])) =>
    /\ TreeOK(tree)
    /\ \A p \in DOMAIN tree : \E i \in DOMAIN s : Holds(s[i], p, tree[p])

TreeLoop == INSTANCE Loops WITH Op <- AddUpdate, Inv <- Built

LEMMA TreeBuilt ==
  ASSUME NEW n \in Nat, NEW s, DOMAIN s = 1..n, \A i \in 1..n : UpdateOK(s[i])
  PROVE  LET tree == FoldLeft(AddUpdate, <<>>, s)
         IN  /\ TreeOK(tree)
             /\ \A p \in DOMAIN tree : \E i \in 1..n : Holds(s[i], p, tree[p])
<1> DEFINE base == <<>>
<1>1. TreeLoop!FoldLeft(AddUpdate, base, s) = FoldLeft(AddUpdate, base, s)
  BY DEF TreeLoop!FoldLeft, TreeLoop!MapThenFoldSet, TreeLoop!Max, FoldLeft, MapThenFoldSet, Max
<1>2. Built(base, s, 0, base)
  <2>1. DOMAIN base = {}
    OBVIOUS
  <2>2. QED BY <2>1, FS_EmptySet DEF Built, TreeOK
<1>3. ASSUME NEW k \in 1..n, NEW tree, Built(base, s, k - 1, tree)
      PROVE  Built(base, s, k, AddUpdate(tree, s[k]))
  <2>1. /\ TreeOK(tree) /\ UpdateOK(s[k])
        /\ \A p \in DOMAIN tree : \E i \in 1..n : Holds(s[i], p, tree[p])
    BY <1>3 DEF Built
  <2>2. CASE s[k].path = <<>>
    BY <2>1, <2>2 DEF AddUpdate, Built
  <2>3. CASE s[k].path # <<>>
    <3> DEFINE new == AddUpdate(tree, s[k])
    <3>1. new = setNestedValue(tree, s[k].path, s[k].below, s[k].val)
      BY <2>3 DEF AddUpdate
    <3> HIDE DEF new
    <3>2. /\ TreeOK(new)
          /\ \A p \in DOMAIN new : (p \in DOMAIN tree /\ new[p] = tree[p]) \/ Holds(s[k], p, new[p])
      BY <2>1, <2>3, <3>1, SetNestedEffect DEF UpdateAdded
    <3>3. Built(base, s, k, new)
      BY <2>1, <3>2 DEF Built
    <3>4. QED BY <3>3 DEF new
  <2>4. QED BY <2>2, <2>3
<1> HIDE DEF base
<1>4. Built(base, s, n, TreeLoop!FoldLeft(AddUpdate, base, s))
  BY <1>2, <1>3, TreeLoop!FoldInvariant
<1>5. QED BY <1>1, <1>4 DEF Built, base


-----------------------------------------------------------------------------
(* A response, normalized.                                                 *)

\* A text has the names of its path.
LEMMA TextNames ==
  ASSUME NEW path, PathOK(path), NEW t, TextOf(t, path), NEW j \in 0..Len(path)
  PROVE  /\ Names(SubSeq(t, 1, j)) = Names(SubSeq(path, 1, j))
         /\ Names(t) = Names(path)
<1> DEFINE a == SubSeq(t, 1, j)
           b == SubSeq(path, 1, j)
<1>1. /\ t \in Path /\ path \in Seq(Element) /\ Len(t) = Len(path) /\ j \in Nat
      /\ (\A i \in 1..Len(path) : t[i].name = path[i].name)
  BY DEF TextOf, PathOK
<1>2. /\ DOMAIN a = 1..j /\ (\A i \in 1..j : a[i] = t[i])
      /\ DOMAIN b = 1..j /\ (\A i \in 1..j : b[i] = path[i])
  BY <1>1 DEF Path
<1>3. DOMAIN t = DOMAIN path
  BY <1>1 DEF Path
<1>4. Names(t) = Names(path)
  BY <1>1, <1>3 DEF Names
<1> HIDE DEF a, b
<1>5. Names(a) = Names(b)
  <2>1. \A i \in 1..j : a[i].name = b[i].name
    BY <1>1, <1>2
  <2>2. QED BY <1>2, <2>1 DEF Names
<1>6. QED BY <1>4, <1>5 DEF a, b

\* The names of a path in two parts.
LEMMA NamesJoined ==
  ASSUME NEW t \in Path, NEW n \in 0..Len(t), NEW j \in 0..(Len(t) - n)
  PROVE  LET rel == SubSeq(t, n + 1, Len(t))
         IN  /\ rel \in Path /\ Len(rel) = Len(t) - n
             /\ \A i \in 1..Len(rel) : rel[i] = t[n + i]
             /\ Names(SubSeq(t, 1, n)) \o Names(SubSeq(rel, 1, j)) = Names(SubSeq(t, 1, n + j))
             /\ Names(SubSeq(t, 1, n)) \o Names(rel) = Names(t)
<1> DEFINE m   == Len(t)
           rel == SubSeq(t, n + 1, m)
<1>1. t \in Seq(Segment) /\ m \in Nat /\ n \in Nat /\ n <= m /\ \A i \in 1..m : t[i] \in Segment
  BY DEF Path
<1>2. rel \in Path /\ Len(rel) = m - n /\ \A i \in 1..(m - n) : rel[i] = t[n + i]
  BY <1>1 DEF Path
<1> HIDE DEF rel
<1>3. ASSUME NEW k \in 0..(m - n)
      PROVE  Names(SubSeq(t, 1, n)) \o Names(SubSeq(rel, 1, k)) = Names(SubSeq(t, 1, n + k))
  <2> DEFINE a == SubSeq(t, 1, n)
             b == SubSeq(rel, 1, k)
             c == SubSeq(t, 1, n + k)
  <2>1. /\ a \in Path /\ Len(a) = n /\ (\A i \in 1..n : a[i] = t[i])
        /\ c \in Path /\ Len(c) = n + k /\ (\A i \in 1..(n + k) : c[i] = t[i])
    BY <1>1 DEF Path
  <2>2. b \in Path /\ Len(b) = k /\ (\A i \in 1..k : b[i] = rel[i])
    BY <1>1, <1>2 DEF Path
  <2> HIDE DEF a, b, c
  <2> DEFINE x == Names(a)
             y == Names(b)
             z == Names(c)
             w == x \o y
  <2>3. /\ x \in Seq(STRING) /\ Len(x) = n /\ (\A i \in 1..n : x[i] = a[i].name)
        /\ y \in Seq(STRING) /\ Len(y) = k /\ (\A i \in 1..k : y[i] = b[i].name)
        /\ z \in Seq(STRING) /\ Len(z) = n + k /\ (\A i \in 1..(n + k) : z[i] = c[i].name)
    <3>1. a \in Path /\ b \in Path /\ c \in Path
      BY <2>1, <2>2
    <3>2. /\ x \in Seq(STRING) /\ Len(x) = Len(a) /\ (\A i \in 1..Len(a) : x[i] = a[i].name)
          /\ y \in Seq(STRING) /\ Len(y) = Len(b) /\ (\A i \in 1..Len(b) : y[i] = b[i].name)
          /\ z \in Seq(STRING) /\ Len(z) = Len(c) /\ (\A i \in 1..Len(c) : z[i] = c[i].name)
      BY <3>1, NamesElements
    <3> HIDE DEF x, y, z
    <3>3. QED BY <2>1, <2>2, <3>2
  <2> HIDE DEF x, y, z
  <2>4. /\ w \in Seq(STRING) /\ Len(w) = n + k
        /\ (\A i \in 1..n : w[i] = x[i]) /\ (\A i \in 1..k : w[n + i] = y[i])
    <3>1. x \in Seq(STRING) /\ y \in Seq(STRING)
      BY <2>3
    <3>2. /\ w \in Seq(STRING) /\ Len(w) = Len(x) + Len(y)
          /\ (\A i \in 1..Len(x) : w[i] = x[i]) /\ (\A i \in 1..Len(y) : w[Len(x) + i] = y[i])
      BY <3>1, JoinedElements
    <3> HIDE DEF w
    <3>3. QED BY <2>3, <3>2
  <2> HIDE DEF w
  <2>5. ASSUME NEW i \in 1..(n + k) PROVE w[i] = z[i]
    <3>1. CASE i \in 1..n
      <4>1. w[i] = x[i] /\ x[i] = a[i].name /\ a[i] = t[i]
        BY <2>1, <2>3, <2>4, <3>1
      <4>2. z[i] = c[i].name /\ c[i] = t[i]
        BY <2>1, <2>3
      <4>3. QED BY <4>1, <4>2
    <3>2. CASE i \notin 1..n
      <4>1. PICK h \in 1..k : i = n + h
        <5>1. i - n \in 1..k /\ i = n + (i - n)
          BY <1>1, <3>2
        <5>2. QED BY <5>1
      <4>2. w[i] = y[h] /\ y[h] = b[h].name /\ b[h] = rel[h]
        BY <2>2, <2>3, <2>4, <4>1
      <4>3. rel[h] = t[i]
        <5>1. h \in 1..(m - n)
          BY <1>1, <4>1
        <5>2. QED BY <1>2, <4>1, <5>1
      <4>4. z[i] = c[i].name /\ c[i] = t[i]
        BY <2>1, <2>3
      <4>5. QED BY <4>2, <4>3, <4>4
    <3>3. QED BY <3>1, <3>2
  <2>6. w = z
    <3>1. Len(w) = Len(z) /\ w \in Seq(STRING) /\ z \in Seq(STRING) /\ Len(w) = n + k
      BY <2>3, <2>4
    <3>2. QED BY <2>5, <3>1, SameElements
  <2>7. QED BY <2>6 DEF w, x, y, z, a, b, c
<1>4. SubSeq(rel, 1, m - n) = rel /\ SubSeq(t, 1, n + (m - n)) = t
  <2>1. n + (m - n) = m
    BY <1>1
  <2>2. SubSeq(t, 1, m) = t
    BY <1>1
  <2>3. SubSeq(rel, 1, m - n) = rel
    BY <1>1, <1>2 DEF Path
  <2>4. QED BY <2>1, <2>2, <2>3
<1>5. m - n \in 0..(m - n)
  BY <1>1
<1>6. Names(SubSeq(t, 1, n)) \o Names(rel) = Names(t)
  BY <1>3, <1>4, <1>5
<1>7. QED BY <1>2, <1>3, <1>6 DEF rel, m

\* Without slashes in its key values, a prefix has as many pieces as segments.
LEMMA PrefixCounted ==
  ASSUME NEW p \in Path, \A seg \in ToSet(p) : Pieces(seg) = 1
  PROVE  prefixLen(p) = Len(p)
<1>1. Count!FoldLeft(AddPieces, 0, p) = FoldLeft(AddPieces, 0, p)
  BY DEF Count!FoldLeft, Count!MapThenFoldSet, Count!Max, FoldLeft, MapThenFoldSet, Max
<1>2. Count!ToSet(p) = ToSet(p)
  BY DEF Count!ToSet, ToSet
<1>3. Counted(0, p, 0, 0)
  BY DEF Counted
<1>4. DOMAIN p = 1..Len(p) /\ Len(p) \in Nat
  BY DEF Path
<1>5. ASSUME NEW k \in 1..Len(p), NEW a, Counted(0, p, k - 1, a)
      PROVE  Counted(0, p, k, AddPieces(a, p[k]))
  <2>1. a = k - 1 /\ Pieces(p[k]) = 1
    BY <1>4, <1>5 DEF Counted, ToSet
  <2>2. AddPieces(a, p[k]) = k
    BY <1>4, <2>1 DEF AddPieces
  <2>3. QED BY <1>4, <2>2 DEF Counted
<1>6. Counted(0, p, Len(p), Count!FoldLeft(AddPieces, 0, p))
  BY <1>3, <1>4, <1>5, Count!FoldInvariant
<1>7. FoldLeft(AddPieces, 0, p) = 0 + Len(p)
  BY <1>1, <1>6 DEF Counted
<1>8. QED BY <1>4, <1>7 DEF prefixLen

\* The updates of a response.
LEMMA ResponseUpdates ==
  ASSUME TextInv
  PROVE  /\ Len(sent) \in Nat /\ DOMAIN sent = 1..Len(sent) /\ DOMAIN Updates = 1..Len(sent)
         /\ Len(Updates) = Len(sent)
         /\ \A i \in 1..Len(sent) :
              /\ sent[i] \in Leaves /\ text[i] \in Path /\ TextOf(text[i], sent[i].path)
              /\ Updates[i].path = text[i] /\ Updates[i].below = sent[i].below
              /\ Updates[i].val = sent[i].val
<1>1. /\ sent \in Seq(Leaves) /\ text \in Seq(Path) /\ Len(text) = Len(sent)
      /\ Len(sent) \in Nat /\ DOMAIN sent = 1..Len(sent)
      /\ \A i \in 1..Len(sent) : TextOf(text[i], sent[i].path)
  BY DEF TextInv
<1>2. \A i \in 1..Len(sent) : sent[i] \in Leaves /\ text[i] \in Path
  BY <1>1
<1>3. /\ DOMAIN Updates = 1..Len(sent) /\ Len(Updates) = Len(sent)
      /\ \A i \in 1..Len(sent) :
           Updates[i] = [path |-> text[i], below |-> sent[i].below, val |-> sent[i].val]
  BY <1>1 DEF Updates
<1> HIDE DEF Updates
<1>4. QED BY <1>1, <1>2, <1>3

\* The common prefix of a response that is normalized, and how it is counted.
LEMMA CommonPrefix ==
  ASSUME TextInv, SlashFree, hasLeafUpdates(Updates)
  PROVE  LET c == commonPathPrefix(Updates)
         IN  /\ c \in Path /\ prefixLen(c) = Len(c) /\ Len(c) \in Nat
             /\ \A i \in 1..Len(sent) : Len(c) <= Len(text[i]) /\ c = SubSeq(text[i], 1, Len(c))
<1> DEFINE m == Len(sent)
           c == commonPathPrefix(Updates)
           f == [i \in 1..m |-> Updates[i].path]
<1>1. m \in Nat /\ m > 0
  BY ResponseUpdates DEF hasLeafUpdates
<1>2. f \in [1..m -> Seq(Segment)] /\ \A i \in 1..m : f[i] = text[i]
  BY ResponseUpdates DEF Path
<1>3. c = LongestCommonPrefix({f[i] : i \in 1..m})
  <2>1. {Updates[i].path : i \in DOMAIN Updates} = {f[i] : i \in 1..m}
    BY ResponseUpdates
  <2>2. QED BY <2>1 DEF commonPathPrefix
<1>4. c \in Seq(Segment) /\ \A i \in 1..m : IsPrefix(c, f[i])
  <2> HIDE DEF f, m, c
  <2>1. LET p == LongestCommonPrefix({f[i] : i \in 1..m})
        IN  p \in Seq(Segment) /\ \A i \in 1..m : IsPrefix(p, f[i])
    BY <1>1, <1>2, LongestPrefix
  <2>2. QED BY <1>3, <2>1
<1>5. prefixLen(c) = Len(c)
  <2>1. \A seg \in ToSet(c) : Pieces(seg) = 1
    BY DEF SlashFree
  <2>2. c \in Path
    BY <1>4 DEF Path
  <2> HIDE DEF c
  <2>3. QED BY <2>1, <2>2, PrefixCounted
<1> HIDE DEF c, f
<1>6. ASSUME NEW i \in 1..m
      PROVE  Len(c) <= Len(text[i]) /\ c = SubSeq(text[i], 1, Len(c))
  <2> DEFINE t == text[i]
             d == SubSeq(t, 1, Len(c))
  <2>1. t \in Seq(Segment) /\ c \in Seq(Segment) /\ IsPrefix(c, t)
    BY <1>2, <1>4
  <2> HIDE DEF t
  <2>2. Len(c) <= Len(t) /\ \A k \in 1..Len(c) : c[k] = t[k]
    BY <2>1, PrefixElements
  <2>3. Len(c) \in 0..Len(t)
    BY <2>1, <2>2
  <2>4. d \in Seq(Segment) /\ Len(d) = Len(c) /\ \A k \in 1..Len(c) : d[k] = t[k]
    BY <2>1, <2>3, PrefixPart
  <2> HIDE DEF d
  <2>5. \A k \in 1..Len(c) : c[k] = d[k]
    BY <2>2, <2>4
  <2>6. c = d
    BY <2>1, <2>4, <2>5, SameElements
  <2>7. QED BY <2>2, <2>6 DEF d, t
<1>7. QED BY <1>4, <1>5, <1>6 DEF c, m, Path

\* The updates below their common prefix.
Rest == LET n == Len(commonPathPrefix(Updates))
        IN  [i \in DOMAIN Updates |-> Relative(Updates[i], n)]

\* What a response is normalized to.
LEMMA NormalizedForms ==
  ASSUME TextInv, SlashFree, NEW u \in Normalized
  PROVE  \/ /\ hasLeafUpdates(Updates)
            /\ u.path = commonPathPrefix(Updates) /\ u.tree = FoldLeft(AddUpdate, <<>>, Rest)
         \/ \E i \in 1..Len(sent) :
              u = [path |-> text[i], tree |-> [at \in {Plain(sent[i].below)} |-> sent[i].val]]
<1>1. CASE hasLeafUpdates(Updates)
  <2> DEFINE c == commonPathPrefix(Updates)
             w == [path |-> c, tree |-> buildTreeFromUpdates(Updates)]
  <2>1. NormalizeSubscribeNotifications(Updates) = <<w>>
    BY <1>1 DEF NormalizeSubscribeNotifications
  <2>2. ToSet(<<w>>) = {w}
    BY DEF ToSet
  <2>3. u = w
    <3> HIDE DEF w
    <3> QED BY <2>1, <2>2 DEF Normalized
  <2>4. u.path = c /\ u.tree = buildTreeFromUpdates(Updates)
    BY <2>3
  <2>5. prefixLen(c) = Len(c)
    BY <1>1, CommonPrefix
  <2>6. buildTreeFromUpdates(Updates) = FoldLeft(AddUpdate, <<>>, Rest)
    BY <2>5 DEF buildTreeFromUpdates, Rest
  <2>7. QED BY <1>1, <2>4, <2>6
<1>2. CASE ~hasLeafUpdates(Updates)
  <2> DEFINE g == [i \in DOMAIN Updates |->
                     [path |-> Updates[i].path,
                      tree |-> [at \in {Plain(Updates[i].below)} |-> Updates[i].val]]]
  <2>1. NormalizeSubscribeNotifications(Updates) = g
    BY <1>2 DEF NormalizeSubscribeNotifications
  <2>2. PICK i \in DOMAIN Updates : u = g[i]
    <3>1. u \in ToSet(g)
      BY <2>1 DEF Normalized
    <3>2. DOMAIN g = DOMAIN Updates
      OBVIOUS
    <3> HIDE DEF g
    <3>3. QED BY <3>1, <3>2 DEF ToSet
  <2>3. /\ i \in 1..Len(sent) /\ Updates[i].path = text[i]
        /\ Updates[i].below = sent[i].below /\ Updates[i].val = sent[i].val
    BY ResponseUpdates
  <2>4. QED BY <2>2, <2>3
<1>3. QED BY <1>1, <1>2

\* An update below the common prefix: the rest of the text of its leaf, and no
\* list entry that is a scalar.
LEMMA RestUpdates ==
  ASSUME TextInv, SlashFree, hasLeafUpdates(Updates)
  PROVE  LET n == Len(commonPathPrefix(Updates))
         IN  /\ DOMAIN Rest = 1..Len(sent)
             /\ \A i \in 1..Len(sent) :
                  /\ UpdateOK(Rest[i])
                  /\ Rest[i].path = SubSeq(text[i], n + 1, Len(text[i]))
                  /\ Rest[i].below = sent[i].below /\ Rest[i].val = sent[i].val
<1> DEFINE n == Len(commonPathPrefix(Updates))
<1>1. DOMAIN Rest = 1..Len(sent)
  BY ResponseUpdates DEF Rest
<1>2. n \in Nat /\ \A i \in 1..Len(sent) : n <= Len(text[i])
  BY CommonPrefix
<1>3. ASSUME NEW i \in 1..Len(sent)
      PROVE  /\ UpdateOK(Rest[i])
             /\ Rest[i].path = SubSeq(text[i], n + 1, Len(text[i]))
             /\ Rest[i].below = sent[i].below /\ Rest[i].val = sent[i].val
  <2> DEFINE t == text[i]
             l == sent[i]
             m == Len(t)
             rel == SubSeq(t, n + 1, m)
             u == Rest[i]
             o == Updates[i]
  <2>1. /\ l \in Leaves /\ t \in Path /\ TextOf(t, l.path)
        /\ o.path = t /\ o.below = l.below /\ o.val = l.val /\ i \in DOMAIN Updates
        /\ o = [path |-> t, below |-> l.below, val |-> l.val]
    <3>1. i \in DOMAIN sent
      BY ResponseUpdates
    <3>2. QED BY <3>1, ResponseUpdates DEF Updates
  <2>2. u = Relative(o, n)
    BY <2>1 DEF Rest
  <2> HIDE DEF t, l, u, o, n, m
  <2>3. u.path = SubSeq(t, n + 1, Len(t)) /\ u.below = l.below /\ u.val = l.val
    BY <2>1, <2>2 DEF Relative
  <2>4. /\ m \in Nat /\ n \in 0..m /\ t \in Seq(Segment)
    BY <1>2, <2>1 DEF Path, m, t
  <2>5. /\ rel \in Seq(Segment) /\ Len(rel) = m - n
        /\ \A k \in 1..(m - n) : rel[k] = t[n + k]
    BY <2>4, RestPart DEF m
  <2>6. u.path = rel
    BY <2>3 DEF m
  <2> HIDE DEF rel
  <2>7. /\ l.path \in Seq(Element) /\ l.path # <<>> /\ l.below \in Seq(STRING)
        /\ (Last(l.path).keys # {} => l.below # <<>>)
    BY <2>1, NormalizeAssumption
  <2>8. ASSUME rel # <<>>, Last(rel).sel # <<>> PROVE l.below # <<>>
    <3>1. Len(rel) > 0 /\ Last(rel) = t[m] /\ m > 0
      BY <2>4, <2>5, <2>8 DEF Last
    <3>2. m = Len(l.path) /\ m \in DOMAIN l.path /\ Last(l.path) = l.path[m]
      BY <2>1, <2>4, <2>7, <3>1 DEF TextOf, Last, m
    <3>3. ToSet(t[m].sel) = Last(l.path).keys
      BY <2>1, <3>2 DEF TextOf
    <3>4. t[m].sel \in Seq(STRING \X STRING) /\ t[m].sel # <<>>
      <4>1. t[m] \in Segment
        BY <2>4, <3>1 DEF m
      <4>2. QED BY <2>8, <3>1, <4>1 DEF Segment
    <3>5. t[m].sel[1] \in ToSet(t[m].sel)
      BY <3>4 DEF ToSet
    <3>6. QED BY <2>7, <3>3, <3>5
  <2>9. UpdateOK(u)
    BY <2>3, <2>5, <2>6, <2>7, <2>8 DEF UpdateOK, Path
  <2>10. QED BY <2>3, <2>9 DEF u, t, l
<1>4. QED BY <1>1, <1>3 DEF n

\* A value of a tree that is built from the updates of a response is that of a
\* leaf, or a key of one.
LEMMA SoundWithin ==
  ASSUME TextInv, SlashFree, hasLeafUpdates(Updates), NEW u,
         u.path = commonPathPrefix(Updates), NEW i \in 1..Len(sent),
         NEW at \in DOMAIN u.tree, Holds(Rest[i], at, u.tree[at])
  PROVE  at \in Carries(u, sent[i]) \/ HoldsKey(u, at, sent[i])
<1> DEFINE c   == commonPathPrefix(Updates)
           n   == Len(c)
           t   == text[i]
           l   == sent[i]
           rel == SubSeq(t, n + 1, Len(t))
<1>1. /\ c = SubSeq(t, 1, n) /\ n \in 0..Len(t) /\ t \in Path /\ Len(t) \in Nat
  <2>1. t \in Path
    BY ResponseUpdates
  <2>2. n \in Nat /\ n <= Len(t) /\ c = SubSeq(t, 1, n)
    BY CommonPrefix
  <2>3. Len(t) \in Nat
    BY <2>1 DEF Path
  <2>4. QED BY <2>1, <2>2, <2>3
<1>2. /\ l \in Leaves /\ TextOf(t, l.path) /\ PathOK(l.path) /\ Len(t) = Len(l.path)
      /\ l.path \in Seq(Element) /\ l.below \in Seq(STRING)
  BY ResponseUpdates, LeafPath DEF TextOf, PathOK
<1>3. Rest[i].path = rel /\ Rest[i].below = l.below /\ Rest[i].val = l.val
  BY RestUpdates
<1>4. \A j \in 0..(Len(t) - n) :
        /\ rel \in Path /\ Len(rel) = Len(t) - n /\ (\A k \in 1..Len(rel) : rel[k] = t[n + k])
        /\ Names(SubSeq(t, 1, n)) \o Names(SubSeq(rel, 1, j)) = Names(SubSeq(t, 1, n + j))
        /\ Names(SubSeq(t, 1, n)) \o Names(rel) = Names(t)
  BY <1>1, NamesJoined
<1>5. 0 \in 0..(Len(t) - n)
  BY <1>1
<1>6. /\ \A j \in 0..Len(t) : Names(SubSeq(t, 1, j)) = Names(SubSeq(l.path, 1, j))
      /\ Names(t) = Names(l.path)
  <2>1. \A j \in 0..Len(l.path) : /\ Names(SubSeq(t, 1, j)) = Names(SubSeq(l.path, 1, j))
                                  /\ Names(t) = Names(l.path)
    BY <1>2, TextNames
  <2>2. 0 \in 0..Len(l.path)
    BY <1>1, <1>2
  <2>3. QED BY <1>2, <2>1, <2>2
<1>7. /\ Names(SubSeq(t, 1, n)) \in Seq(STRING) /\ Names(rel) \in Seq(STRING)
  <2>1. SubSeq(t, 1, n) \in Path
    BY <1>1 DEF Path
  <2>2. rel \in Path
    BY <1>4, <1>5
  <2>3. QED BY <2>1, <2>2, NamesElements
<1> HIDE DEF c, n, t, l, rel
<1>8. u.path = SubSeq(t, 1, n)
  BY <1>1 DEF c
<1>9. CASE StepNames(at) = Names(rel) \o l.below /\ u.tree[at] = l.val
  <2>1. Names(u.path) \o StepNames(at) = Names(SubSeq(t, 1, n)) \o (Names(rel) \o l.below)
    BY <1>8, <1>9
  <2>2. \A x \in Seq(STRING), y \in Seq(STRING), z \in Seq(STRING) : x \o (y \o z) = (x \o y) \o z
    OBVIOUS
  <2>3. Names(u.path) \o StepNames(at) = (Names(SubSeq(t, 1, n)) \o Names(rel)) \o l.below
    BY <1>2, <1>7, <2>1, <2>2
  <2>4. Names(u.path) \o StepNames(at) = FullNames(l)
    BY <1>4, <1>5, <1>6, <2>3 DEF FullNames
  <2>5. QED BY <1>9, <2>4 DEF Carries, l
<1>10. CASE KeyAt(rel, at, u.tree[at])
  <2>9. PICK j \in DOMAIN rel : \E kv \in ToSet(rel[j].sel) :
          StepNames(at) = Append(Names(SubSeq(rel, 1, j)), kv[1]) /\ u.tree[at] = kv[2]
    BY <1>10 DEF KeyAt
  <2>1. PICK kv \in ToSet(rel[j].sel) :
          StepNames(at) = Append(Names(SubSeq(rel, 1, j)), kv[1]) /\ u.tree[at] = kv[2]
    BY <2>9
  <2>2. j \in 1..(Len(t) - n) /\ j \in 0..(Len(t) - n) /\ rel[j] = t[n + j]
    <3>1. rel \in Path /\ Len(rel) = Len(t) - n /\ (\A k \in 1..Len(rel) : rel[k] = t[n + k])
      BY <1>4, <1>5
    <3>2. DOMAIN rel = 1..Len(rel)
      BY <3>1 DEF Path
    <3>3. QED BY <1>1, <3>1, <3>2
  <2>3. n + j \in 0..Len(t) /\ n + j \in DOMAIN l.path
    BY <1>1, <1>2, <2>2
  <2>4. kv \in l.path[n + j].keys /\ kv[1] \in STRING
    <3>1. kv \in l.path[n + j].keys
      BY <1>2, <2>2, <2>3 DEF TextOf
    <3>2. l.path[n + j] \in Element
      BY <1>2, <2>3
    <3>3. QED BY <3>1, <3>2 DEF Element
  <2>5. Names(u.path) \o StepNames(at) = Append(Names(SubSeq(l.path, 1, n + j)), kv[1])
    <3> DEFINE x == Names(SubSeq(t, 1, n))
               y == Names(SubSeq(rel, 1, j))
    <3>1. x \in Seq(STRING) /\ y \in Seq(STRING)
      <4>1. SubSeq(rel, 1, j) \in Path
        BY <1>4, <1>5, <2>2 DEF Path
      <4>2. QED BY <1>7, <4>1, NamesElements
    <3>2. x \o y = Names(SubSeq(l.path, 1, n + j))
      BY <1>4, <1>6, <2>2, <2>3
    <3>3. Names(u.path) \o StepNames(at) = x \o Append(y, kv[1])
      BY <1>8, <2>1
    <3> HIDE DEF x, y
    <3>4. x \o Append(y, kv[1]) = Append(x \o y, kv[1])
      BY <2>4, <3>1
    <3>5. QED BY <3>2, <3>3, <3>4
  <2>6. HoldsKey(u, at, l)
    BY <2>1, <2>3, <2>4, <2>5 DEF HoldsKey
  <2>7. QED BY <2>6 DEF l
<1>11. QED BY <1>3, <1>9, <1>10 DEF Holds

\* Every value of a normalized notification is that of a leaf of the response,
\* at its place, or a key of one.
LEMMA SoundUpdate ==
  ASSUME TextInv, SlashFree, NEW u \in Normalized, NEW at \in DOMAIN u.tree
  PROVE  \E i \in 1..Len(sent) : at \in Carries(u, sent[i]) \/ HoldsKey(u, at, sent[i])
<1>1. CASE /\ hasLeafUpdates(Updates)
           /\ u.path = commonPathPrefix(Updates) /\ u.tree = FoldLeft(AddUpdate, <<>>, Rest)
  <2>1. /\ Len(sent) \in Nat /\ DOMAIN Rest = 1..Len(sent)
        /\ \A i \in 1..Len(sent) : UpdateOK(Rest[i])
    BY <1>1, ResponseUpdates, RestUpdates
  <2>2. \A p \in DOMAIN FoldLeft(AddUpdate, <<>>, Rest) : \E i \in 1..Len(sent) :
          Holds(Rest[i], p, FoldLeft(AddUpdate, <<>>, Rest)[p])
    BY <2>1, TreeBuilt
  <2>3. PICK i \in 1..Len(sent) : Holds(Rest[i], at, u.tree[at])
    BY <1>1, <2>2
  <2>4. QED BY <1>1, <2>3, SoundWithin
<1>2. CASE \E i \in 1..Len(sent) :
             u = [path |-> text[i], tree |-> [at_1 \in {Plain(sent[i].below)} |-> sent[i].val]]
  <2>1. PICK i \in 1..Len(sent) :
             u = [path |-> text[i], tree |-> [at_1 \in {Plain(sent[i].below)} |-> sent[i].val]]
    BY <1>2
  <2> DEFINE l == sent[i]
             t == text[i]
             b == l.below
  <2>2. l \in Leaves /\ TextOf(t, l.path)
    BY ResponseUpdates
  <2>3. PathOK(l.path) /\ b \in Seq(STRING) /\ 0 \in 0..Len(l.path)
    BY <2>2, LeafPath DEF PathOK
  <2>4. /\ u.path = t /\ at = Plain(b) /\ u.tree[at] = l.val
    BY <2>1
  <2> HIDE DEF l, t, b
  <2>5. Names(t) = Names(l.path)
    BY <2>2, <2>3, TextNames
  <2>6. StepNames(at) = b
    BY <2>3, <2>4, PlainPosition
  <2>7. at \in Carries(u, l)
    BY <2>4, <2>5, <2>6 DEF Carries, FullNames, b
  <2>8. QED BY <2>7 DEF l
<1>3. QED BY <1>1, <1>2, NormalizedForms

\* However the switch orders and splits a response, and whatever it has in
\* common, the client puts no value at a place where the switch did not report
\* it: of client.go 482-774, as long as the prefix is counted right.
THEOREM NoValueInvented == Spec => []NothingInvented
<1>1. TextInv => NothingInvented
  <2>1. TextInv => DOMAIN sent = 1..Len(sent)
    BY ResponseUpdates
  <2>2. QED BY <2>1, SoundUpdate DEF NothingInvented
<1>2. QED BY <1>1, TextInvariant, PTL

-----------------------------------------------------------------------------
(* The first elements of a place.                                          *)

Up(p, k) == SubSeq(p, 1, k)

LEMMA UpElements ==
  ASSUME NEW p \in Seq(Element), NEW k \in 0..Len(p)
  PROVE  /\ Up(p, k) \in Seq(Element) /\ Len(Up(p, k)) = k
         /\ \A i \in 1..k : Up(p, k)[i] = p[i]
BY PrefixPart DEF Up

LEMMA UpSame ==
  ASSUME NEW p \in Seq(Element), NEW q \in Seq(Element), NEW k \in 0..Len(p), k <= Len(q)
  PROVE  Up(p, k) = Up(q, k) <=> \A i \in 1..k : p[i] = q[i]
<1> DEFINE a == Up(p, k)
           b == Up(q, k)
<1>1. a \in Seq(Element) /\ Len(a) = k /\ \A i \in 1..k : a[i] = p[i]
  BY UpElements
<1>2. b \in Seq(Element) /\ Len(b) = k /\ \A i \in 1..k : b[i] = q[i]
  <2>1. k \in 0..Len(q)
    OBVIOUS
  <2>2. QED BY <2>1, UpElements
<1> HIDE DEF a, b
<1>3. a = b => \A i \in 1..k : p[i] = q[i]
  BY <1>1, <1>2
<1>4. ASSUME \A i \in 1..k : p[i] = q[i] PROVE a = b
  <2>1. \A i \in 1..Len(a) : a[i] = b[i]
    BY <1>1, <1>2, <1>4
  <2>2. Len(a) = Len(b)
    BY <1>1, <1>2
  <2>3. QED BY <1>1, <1>2, <2>1, <2>2, SameElements
<1>5. QED BY <1>3, <1>4 DEF a, b

LEMMA UpNext ==
  ASSUME NEW p \in Seq(Element), NEW q \in Seq(Element), NEW k \in 1..Len(p), k <= Len(q)
  PROVE  Up(p, k) = Up(q, k) <=> Up(p, k - 1) = Up(q, k - 1) /\ p[k] = q[k]
<1>1. /\ k \in 0..Len(p) /\ k - 1 \in 0..Len(p) /\ k - 1 <= Len(q) /\ k \in Nat
      /\ \A i \in 1..k : i \in 1..(k - 1) \/ i = k
  OBVIOUS
<1>2. Up(p, k) = Up(q, k) <=> \A i \in 1..k : p[i] = q[i]
  BY <1>1, UpSame
<1>3. Up(p, k - 1) = Up(q, k - 1) <=> \A i \in 1..(k - 1) : p[i] = q[i]
  BY <1>1, UpSame
<1>4. QED BY <1>1, <1>2, <1>3

LEMMA UpZero == \A p, q : Up(p, 0) = Up(q, 0)
BY DEF Up

LEMMA UpLess ==
  ASSUME NEW p \in Seq(Element), NEW q \in Seq(Element), NEW k \in 0..Len(p), k <= Len(q),
         Up(p, k) = Up(q, k), NEW j \in 0..k
  PROVE  Up(p, j) = Up(q, j) /\ (j > 0 => p[j] = q[j])
<1>1. \A i \in 1..k : p[i] = q[i]
  BY UpSame
<1>2. j \in 0..Len(p) /\ j <= Len(q) /\ (\A i \in 1..j : i \in 1..k) /\ (j > 0 => j \in 1..k)
  OBVIOUS
<1>3. Up(p, j) = Up(q, j) <=> \A i \in 1..j : p[i] = q[i]
  BY <1>2, UpSame
<1>4. QED BY <1>1, <1>2, <1>3

LEMMA UpWhole ==
  ASSUME NEW p \in Seq(Element)
  PROVE  Up(p, Len(p)) = p
BY DEF Up

LEMMA UpLength ==
  ASSUME NEW p \in Seq(Element), NEW q \in Seq(Element), NEW i \in 0..Len(p), NEW k \in 0..Len(q),
         Up(p, i) = Up(q, k)
  PROVE  i = k
<1>1. Len(Up(p, i)) = i /\ Len(Up(q, k)) = k
  BY UpElements
<1>2. QED BY <1>1

\* A place that is a part of another one.
LEMMA UpPrefix ==
  ASSUME NEW p \in Seq(Element), NEW q \in Seq(Element)
  PROVE  IsPrefix(p, q) <=> Len(p) <= Len(q) /\ Up(p, Len(p)) = Up(q, Len(p))
BY DEF IsPrefix, Up

-----------------------------------------------------------------------------
(* Facts, their places, and the trees that hold them.                      *)

\* p and q enter the same value, or list, with their i-th elements.
Sibling(p, q, i) ==
  i \in DOMAIN p /\ i \in DOMAIN q /\ Up(p, i - 1) = Up(q, i - 1) /\ p[i].name = q[i].name

KeyNames(e) == {kv[1] : kv \in e.keys}

\* The facts of a tree whose list entries have one key each.
Coherent(F) ==
  /\ \A f \in F : f.at \in Seq(Element) /\ f.at # <<>>
  /\ \A f \in F : \A i \in DOMAIN f.at : \A kv, kw \in f.at[i].keys : kv = kw
  /\ \A f, g \in F : IsPrefix(f.at, g.at) => f = g
  /\ \A f, g \in F : \A i \in Nat : Sibling(f.at, g.at, i) => KeyNames(f.at[i]) = KeyNames(g.at[i])
  /\ \A f \in F : \A i \in DOMAIN f.at : \A kv \in f.at[i].keys :
       \E h \in F : h.at = KeyPlace(Up(f.at, i), kv) /\ h.val = kv[2]

\* The position of the first k elements of a place, with numbers for the
\* entries of lists.
Number(ix, p, i) == IF p[i].keys = {} THEN 0 ELSE ix[Up(p, i)]

At(ix, p, k) == [i \in 1..k |-> <<p[i].name, Number(ix, p, i)>>]

\* Every list numbers its entries from 1 on.
Numbered(D, ix) ==
  /\ \A f \in D : \A i \in DOMAIN f.at : f.at[i].keys # {} => ix[Up(f.at, i)] > 0
  /\ \A f, g \in D : \A i \in Nat :
       /\ Sibling(f.at, g.at, i) /\ f.at[i].keys # {} /\ g.at[i].keys # {}
       /\ ix[Up(f.at, i)] = ix[Up(g.at, i)]
       => f.at[i] = g.at[i]
  /\ \A f \in D : \A i \in DOMAIN f.at : f.at[i].keys # {} =>
       \A m \in 1..ix[Up(f.at, i)] : \E g \in D :
         Sibling(f.at, g.at, i) /\ g.at[i].keys # {} /\ ix[Up(g.at, i)] = m

\* The tree holds the facts D, and a key wherever there is an entry.
Represents(tree, F, D, ix) ==
  /\ Coherent(F) /\ D \subseteq F /\ ix \in [Seq(Element) -> Nat] /\ TreeOK(tree)
  /\ DOMAIN tree = {At(ix, f.at, Len(f.at)) : f \in D}
  /\ \A f \in D : tree[At(ix, f.at, Len(f.at))] = f.val
  /\ \A f \in D : \A i \in DOMAIN f.at : \A kv \in f.at[i].keys :
       \E h \in D : h.at = KeyPlace(Up(f.at, i), kv) /\ h.val = kv[2]
  /\ Numbered(D, ix)

\* The entries among the first k elements of p are in the tree.
Walked(D, p, k) ==
  \A i \in 1..k : p[i].keys # {} => \E h \in D : i \in DOMAIN h.at /\ Up(h.at, i) = Up(p, i)

\* The places of facts.
LEMMA FactPlace ==
  ASSUME NEW F, Coherent(F), NEW f \in F
  PROVE  /\ f.at \in Seq(Element) /\ Len(f.at) \in Nat /\ Len(f.at) > 0
         /\ DOMAIN f.at = 1..Len(f.at)
         /\ \A i \in 1..Len(f.at) : f.at[i] \in Element
<1>1. f.at \in Seq(Element) /\ f.at # <<>>
  BY DEF Coherent
<1>2. QED BY <1>1

LEMMA ElementEqual ==
  ASSUME NEW a \in Element, NEW b \in Element, a.name = b.name, a.keys = b.keys
  PROVE  a = b
BY DEF Element

\* Elements of one list, or of none.
LEMMA SiblingKinds ==
  ASSUME NEW F, Coherent(F), NEW f \in F, NEW g \in F, NEW i \in Nat, Sibling(f.at, g.at, i)
  PROVE  /\ f.at[i].keys = {} <=> g.at[i].keys = {}
         /\ f.at[i].keys = {} => f.at[i] = g.at[i] /\ Up(f.at, i) = Up(g.at, i)
         /\ f.at[i].keys = g.at[i].keys => f.at[i] = g.at[i] /\ Up(f.at, i) = Up(g.at, i)
<1>1. KeyNames(f.at[i]) = KeyNames(g.at[i])
  BY DEF Coherent
<1>2. f.at[i].keys = {} <=> g.at[i].keys = {}
  BY <1>1 DEF KeyNames
<1>3. /\ f.at \in Seq(Element) /\ g.at \in Seq(Element) /\ f.at[i] \in Element /\ g.at[i] \in Element
      /\ i \in 1..Len(f.at) /\ i <= Len(g.at)
      /\ f.at[i].name = g.at[i].name /\ Up(f.at, i - 1) = Up(g.at, i - 1)
  BY FactPlace DEF Sibling
<1>4. f.at[i].keys = g.at[i].keys => f.at[i] = g.at[i]
  BY <1>3, ElementEqual
<1>5. f.at[i] = g.at[i] => Up(f.at, i) = Up(g.at, i)
  BY <1>3, UpNext
<1>6. QED BY <1>2, <1>4, <1>5

\* The position of a place.
LEMMA AtElements ==
  ASSUME NEW ix \in [Seq(Element) -> Nat], NEW p \in Seq(Element), NEW k \in 0..Len(p)
  PROVE  /\ At(ix, p, k) \in Position /\ Len(At(ix, p, k)) = k
         /\ \A i \in 1..k : /\ At(ix, p, k)[i] = <<p[i].name, Number(ix, p, i)>>
                            /\ Number(ix, p, i) \in Nat /\ p[i].name \in STRING
                            /\ At(ix, p, k)[i][1] = p[i].name
                            /\ At(ix, p, k)[i][2] = Number(ix, p, i)
<1> DEFINE a == At(ix, p, k)
<1>1. k \in Nat /\ \A i \in 1..k : i \in 0..Len(p) /\ i \in 1..Len(p)
  OBVIOUS
<1>2. ASSUME NEW i \in 1..k PROVE Number(ix, p, i) \in Nat /\ p[i].name \in STRING
  <2>1. Up(p, i) \in Seq(Element) /\ p[i] \in Element
    BY <1>1, UpElements
  <2>2. ix[Up(p, i)] \in Nat
    BY <2>1
  <2>3. QED BY <2>1, <2>2 DEF Number, Element
<1>3. \A i \in 1..k : <<p[i].name, Number(ix, p, i)>> \in Step
  BY <1>2 DEF Step
<1>4. a = [i \in 1..k |-> <<p[i].name, Number(ix, p, i)>>]
  BY DEF At
<1> HIDE DEF a
<1>5. a \in Position /\ Len(a) = k /\ \A i \in 1..k : a[i] = <<p[i].name, Number(ix, p, i)>>
  BY <1>1, <1>3, <1>4 DEF Position
<1>6. \A i \in 1..k : a[i][1] = p[i].name /\ a[i][2] = Number(ix, p, i)
  BY <1>5
<1>7. QED BY <1>2, <1>5, <1>6 DEF a

\* A position leads to one place only: entries that are known have numbers of
\* their own.
LEMMA SamePlace ==
  ASSUME NEW tree, NEW F, NEW D, NEW ix, Represents(tree, F, D, ix),
         NEW f \in D, NEW g \in F, NEW k \in Nat, k <= Len(f.at), k <= Len(g.at),
         Walked(D, g.at, k),
         \A i \in 1..k : f.at[i].name = g.at[i].name /\ Number(ix, f.at, i) = Number(ix, g.at, i)
  PROVE  Up(f.at, k) = Up(g.at, k)
<1> DEFINE p == f.at
           q == g.at
           G == {j \in Nat : j <= k => Up(p, j) = Up(q, j)}
<1>1. /\ Coherent(F) /\ f \in F /\ p \in Seq(Element) /\ q \in Seq(Element)
      /\ DOMAIN p = 1..Len(p) /\ DOMAIN q = 1..Len(q) /\ Len(p) \in Nat /\ Len(q) \in Nat
  <2>1. Coherent(F) /\ f \in F
    BY DEF Represents
  <2>2. QED BY <2>1, FactPlace
<1>2. 0 \in G
  BY UpZero
<1>3. ASSUME NEW j \in 1..k, j - 1 \in G PROVE j \in G
  <2>1. /\ j \in Nat /\ j \in 1..Len(p) /\ j <= Len(q) /\ j \in 1..Len(q)
        /\ Up(p, j - 1) = Up(q, j - 1)
        /\ p[j].name = q[j].name /\ Number(ix, p, j) = Number(ix, q, j)
    BY <1>1, <1>3
  <2>2. Sibling(p, q, j)
    BY <1>1, <2>1 DEF Sibling
  <2>3. /\ p[j].keys = {} <=> q[j].keys = {}
        /\ p[j].keys = {} => Up(p, j) = Up(q, j)
    BY <1>1, <2>1, <2>2, SiblingKinds
  <2>4. CASE p[j].keys = {}
    BY <2>1, <2>3, <2>4
  <2>5. CASE p[j].keys # {}
    <3>1. q[j].keys # {} /\ ix[Up(p, j)] = ix[Up(q, j)]
      BY <2>1, <2>3, <2>5 DEF Number
    <3>2. PICK h \in D : j \in DOMAIN h.at /\ Up(h.at, j) = Up(q, j)
      BY <3>1 DEF Walked
    <3>3. h.at \in Seq(Element) /\ j \in 1..Len(h.at) /\ h \in F
      <4>1. h \in F
        BY DEF Represents
      <4>2. QED BY <1>1, <3>2, <4>1, FactPlace
    <3>4. Up(h.at, j - 1) = Up(q, j - 1) /\ h.at[j] = q[j]
      BY <1>1, <2>1, <3>2, <3>3, UpNext
    <3>5. Sibling(p, h.at, j)
      BY <1>1, <2>1, <3>2, <3>4 DEF Sibling
    <3>6. Numbered(D, ix)
      BY DEF Represents
    <3>7. p[j] = h.at[j]
      BY <2>1, <2>5, <3>1, <3>2, <3>4, <3>5, <3>6 DEF Numbered
    <3>8. Up(p, j) = Up(q, j)
      BY <1>1, <2>1, <3>4, <3>7, UpNext
    <3>9. QED BY <2>1, <3>8
  <2>6. QED BY <2>4, <2>5
<1>4. k \in G
  <2>1. G \in SUBSET Nat
    OBVIOUS
  <2> HIDE DEF G
  <2>2. 0..k \subseteq G
    BY <1>2, <1>3, <2>1, Count!RangeInduction
  <2>3. QED BY <2>2
<1>5. QED BY <1>4

\* What is below a key of the map at the place of k - 1 elements.
LEMMA UnderFacts ==
  ASSUME NEW tree, NEW F, NEW D, NEW ix, Represents(tree, F, D, ix),
         NEW g \in F, NEW k \in 1..Len(g.at), Walked(D, g.at, k - 1)
  PROVE  LET U == Under(tree, At(ix, g.at, k - 1), g.at[k].name)
         IN  /\ \A p \in U : \E f \in D :
                  /\ Sibling(f.at, g.at, k) /\ p = At(ix, f.at, Len(f.at))
                  /\ p[k][2] = Number(ix, f.at, k) /\ Len(p) = Len(f.at)
             /\ \A f \in D : Sibling(f.at, g.at, k) => At(ix, f.at, Len(f.at)) \in U
<1> DEFINE q  == g.at
           a  == At(ix, q, k - 1)
           nm == q[k].name
           U  == Under(tree, a, nm)
<1>1. /\ Coherent(F) /\ D \subseteq F /\ ix \in [Seq(Element) -> Nat]
      /\ DOMAIN tree = {At(ix, f.at, Len(f.at)) : f \in D}
  BY DEF Represents
<1>2. q \in Seq(Element) /\ Len(q) \in Nat /\ DOMAIN q = 1..Len(q) /\ k \in DOMAIN q /\ k \in Nat /\ k > 0
  BY <1>1, FactPlace
<1>3. /\ a \in Position /\ Len(a) = k - 1
      /\ \A i \in 1..(k - 1) : a[i] = <<q[i].name, Number(ix, q, i)>>
  <2>1. k - 1 \in 0..Len(q)
    BY <1>2
  <2>2. QED BY <1>1, <1>2, <2>1, AtElements
<1> HIDE DEF a
<1>4. ASSUME NEW f \in D
      PROVE  LET p == At(ix, f.at, Len(f.at))
             IN  /\ f.at \in Seq(Element) /\ Len(f.at) \in Nat /\ DOMAIN f.at = 1..Len(f.at)
                 /\ p \in Position /\ Len(p) = Len(f.at)
                 /\ \A i \in 1..Len(f.at) : /\ p[i] = <<f.at[i].name, Number(ix, f.at, i)>>
                                            /\ p[i][1] = f.at[i].name
                                            /\ p[i][2] = Number(ix, f.at, i)
  <2>1. f.at \in Seq(Element) /\ Len(f.at) \in Nat /\ DOMAIN f.at = 1..Len(f.at)
    BY <1>1, FactPlace
  <2>2. Len(f.at) \in 0..Len(f.at)
    BY <2>1
  <2>3. QED BY <1>1, <2>1, <2>2, AtElements
<1>5. ASSUME NEW p \in U
      PROVE  \E f \in D : /\ Sibling(f.at, q, k) /\ p = At(ix, f.at, Len(f.at))
                          /\ p[k][2] = Number(ix, f.at, k) /\ Len(p) = Len(f.at)
  <2>1. p \in DOMAIN tree /\ Len(p) > k - 1 /\ IsPrefix(a, p) /\ p[k][1] = nm
    BY <1>2, <1>3 DEF Under
  <2>2. PICK f \in D : p = At(ix, f.at, Len(f.at))
    BY <1>1, <2>1
  <2>3. /\ f.at \in Seq(Element) /\ Len(f.at) \in Nat /\ DOMAIN f.at = 1..Len(f.at)
        /\ p \in Position /\ Len(p) = Len(f.at)
        /\ \A i \in 1..Len(f.at) : /\ p[i] = <<f.at[i].name, Number(ix, f.at, i)>>
                                   /\ p[i][1] = f.at[i].name /\ p[i][2] = Number(ix, f.at, i)
    BY <1>4, <2>2
  <2>4. k \in 1..Len(f.at) /\ k - 1 \in Nat /\ k - 1 <= Len(f.at) /\ k - 1 <= Len(q)
    BY <1>2, <2>1, <2>3
  <2>5. \A i \in 1..(k - 1) : a[i] = p[i]
    <3>1. a \in Seq(Step) /\ p \in Seq(Step)
      BY <1>3, <2>3 DEF Position
    <3>2. QED BY <1>3, <2>1, <3>1, PrefixElements
  <2>6. ASSUME NEW i \in 1..(k - 1)
        PROVE  f.at[i].name = q[i].name /\ Number(ix, f.at, i) = Number(ix, q, i)
    <3>1. i \in 1..Len(f.at)
      BY <2>4
    <3>2. <<f.at[i].name, Number(ix, f.at, i)>> = <<q[i].name, Number(ix, q, i)>>
      BY <1>3, <2>3, <2>5, <3>1
    <3>3. QED BY <3>2
  <2>7. Up(f.at, k - 1) = Up(q, k - 1)
    BY <2>4, <2>6, SamePlace
  <2>8. f.at[k].name = nm /\ p[k][2] = Number(ix, f.at, k)
    BY <2>1, <2>3, <2>4
  <2>9. Sibling(f.at, q, k)
    BY <1>2, <2>3, <2>4, <2>7, <2>8 DEF Sibling
  <2>10. QED BY <2>2, <2>3, <2>8, <2>9
<1>6. ASSUME NEW f \in D, Sibling(f.at, q, k) PROVE At(ix, f.at, Len(f.at)) \in U
  <2> DEFINE p == At(ix, f.at, Len(f.at))
  <2>1. /\ f.at \in Seq(Element) /\ Len(f.at) \in Nat /\ DOMAIN f.at = 1..Len(f.at)
        /\ p \in Position /\ Len(p) = Len(f.at) /\ p \in DOMAIN tree
        /\ \A i \in 1..Len(f.at) : /\ p[i] = <<f.at[i].name, Number(ix, f.at, i)>>
                                   /\ p[i][1] = f.at[i].name
    BY <1>1, <1>4
  <2> HIDE DEF p
  <2>2. k \in 1..Len(f.at) /\ Up(f.at, k - 1) = Up(q, k - 1) /\ f.at[k].name = nm
    BY <1>6, <2>1 DEF Sibling
  <2>3. ASSUME NEW i \in 1..(k - 1) PROVE a[i] = p[i]
    <3>1. /\ i \in 0..(k - 1) /\ i > 0 /\ k - 1 \in 0..Len(f.at) /\ k - 1 <= Len(q)
          /\ i \in 1..Len(f.at)
      BY <1>2, <2>1, <2>2
    <3>2. Up(f.at, i) = Up(q, i) /\ f.at[i] = q[i]
      BY <1>2, <2>1, <2>2, <3>1, UpLess
    <3>3. Number(ix, f.at, i) = Number(ix, q, i)
      BY <3>2 DEF Number
    <3>4. QED BY <1>3, <2>1, <3>1, <3>2, <3>3
  <2>4. IsPrefix(a, p)
    <3>1. a \in Seq(Step) /\ p \in Seq(Step)
      BY <1>3, <2>1 DEF Position
    <3>2. Len(a) <= Len(p)
      BY <1>2, <1>3, <2>1, <2>2
    <3>3. QED BY <1>3, <2>3, <3>1, <3>2, PrefixElements
  <2>5. Len(p) > Len(a) /\ Len(a) + 1 = k /\ p[k][1] = nm
    BY <1>2, <1>3, <2>1, <2>2
  <2>6. p \in U
    BY <2>1, <2>4, <2>5 DEF Under
  <2>7. QED BY <2>6 DEF p
<1>7. QED BY <1>5, <1>6 DEF a

LEMMA AtNext ==
  ASSUME NEW ix \in [Seq(Element) -> Nat], NEW p \in Seq(Element), NEW k \in 1..Len(p)
  PROVE  At(ix, p, k) = Append(At(ix, p, k - 1), <<p[k].name, Number(ix, p, k)>>)
<1> DEFINE a == At(ix, p, k)
           b == At(ix, p, k - 1)
           e == <<p[k].name, Number(ix, p, k)>>
           c == Append(b, e)
<1>1. k \in 0..Len(p) /\ k - 1 \in 0..Len(p) /\ k \in Nat /\ k \in 1..k
  OBVIOUS
<1>2. /\ a \in Seq(Step) /\ Len(a) = k /\ a[k] = e
      /\ \A i \in 1..k : a[i] = <<p[i].name, Number(ix, p, i)>>
      /\ Number(ix, p, k) \in Nat /\ p[k].name \in STRING
  BY <1>1, AtElements DEF Position
<1>3. b \in Seq(Step) /\ Len(b) = k - 1 /\ \A i \in 1..(k - 1) : b[i] = <<p[i].name, Number(ix, p, i)>>
  BY <1>1, AtElements DEF Position
<1>4. e \in Step
  BY <1>2 DEF Step
<1> HIDE DEF a, b, e
<1>5. c \in Seq(Step) /\ Len(c) = Len(b) + 1 /\ (\A i \in 1..Len(b) : c[i] = b[i]) /\ c[Len(b) + 1] = e
  BY <1>3, <1>4
<1> HIDE DEF c
<1>6. ASSUME NEW i \in 1..k PROVE a[i] = c[i]
  <2>1. CASE i = k
    BY <1>1, <1>2, <1>3, <1>5, <2>1
  <2>2. CASE i # k
    <3>1. i \in 1..(k - 1)
      BY <1>1, <2>2
    <3>2. QED BY <1>2, <1>3, <1>5, <3>1
  <2>3. QED BY <2>1, <2>2
<1>7. a = c
  <2>1. Len(a) = k /\ Len(c) = k
    BY <1>1, <1>2, <1>3, <1>5
  <2>2. QED BY <1>2, <1>5, <1>6, <2>1, SameElements
<1>8. QED BY <1>7 DEF a, b, c, e

\* A tree with the same scalars.
SameTree(t, tree) == DOMAIN t = DOMAIN tree /\ \A p \in DOMAIN tree : t[p] = tree[p]

LEMMA RepresentsSame ==
  ASSUME NEW tree, NEW F, NEW D, NEW ix, Represents(tree, F, D, ix), NEW t, SameTree(t, tree)
  PROVE  Represents(t, F, D, ix)
<1>1. /\ Coherent(F) /\ D \subseteq F /\ ix \in [Seq(Element) -> Nat] /\ TreeOK(tree)
      /\ DOMAIN tree = {At(ix, f.at, Len(f.at)) : f \in D}
      /\ (\A f \in D : tree[At(ix, f.at, Len(f.at))] = f.val)
      /\ (\A f \in D : \A i \in DOMAIN f.at : \A kv \in f.at[i].keys :
            \E h \in D : h.at = KeyPlace(Up(f.at, i), kv) /\ h.val = kv[2])
      /\ Numbered(D, ix)
  BY DEF Represents
<1>2. DOMAIN t = DOMAIN tree /\ \A p \in DOMAIN tree : t[p] = tree[p]
  BY DEF SameTree
<1>3. TreeOK(t)
  BY <1>1, <1>2 DEF TreeOK
<1>4. \A f \in D : t[At(ix, f.at, Len(f.at))] = f.val
  BY <1>1, <1>2
<1>5. QED BY <1>1, <1>2, <1>3, <1>4 DEF Represents

LEMMA WithoutNothing ==
  ASSUME NEW tree
  PROVE  SameTree(Without(tree, {}), tree) /\ SameTree(tree, tree)
BY DEF SameTree, Without, Restrict

\* A plain segment that is not the last one leads into a map.
LEMMA PlainEntered ==
  ASSUME NEW tree, NEW F, NEW D, NEW ix, Represents(tree, F, D, ix),
         NEW g \in F, NEW k \in 1..Len(g.at), k < Len(g.at), g.at[k].keys = {},
         Walked(D, g.at, k - 1), NEW seg, seg.name = g.at[k].name
  PROVE  LET q == EnterMap([tree |-> tree, at |-> At(ix, g.at, k - 1)], seg)
         IN  Represents(q.tree, F, D, ix) /\ q.at = At(ix, g.at, k)
<1> DEFINE a == At(ix, g.at, k - 1)
           q == EnterMap([tree |-> tree, at |-> a], seg)
           U == Under(tree, a, seg.name)
<1>1. /\ Coherent(F) /\ D \subseteq F /\ ix \in [Seq(Element) -> Nat]
  BY DEF Represents
<1>2. g.at \in Seq(Element) /\ Len(g.at) \in Nat /\ k \in Nat
  BY <1>1, FactPlace
<1>3. Len(a) = k - 1
  <2>1. k - 1 \in 0..Len(g.at)
    BY <1>2
  <2>2. QED BY <1>1, <1>2, <2>1, AtElements
<1>4. q.at = At(ix, g.at, k)
  <2>1. Number(ix, g.at, k) = 0
    BY DEF Number
  <2>2. q.at = Append(a, <<g.at[k].name, 0>>)
    BY DEF EnterMap
  <2>3. QED BY <1>1, <1>2, <2>1, <2>2, AtNext
<1>5. q.tree = IF IsMap(tree, a, seg.name) THEN tree ELSE Without(tree, U)
  BY DEF EnterMap
<1>6. ASSUME U # {} PROVE IsMap(tree, a, seg.name)
  <2>1. PICK p \in U : TRUE
    BY <1>6
  <2>2. PICK f \in D : /\ Sibling(f.at, g.at, k) /\ p = At(ix, f.at, Len(f.at))
                       /\ p[k][2] = Number(ix, f.at, k) /\ Len(p) = Len(f.at)
    BY <2>1, UnderFacts
  <2>3. f \in F /\ f.at \in Seq(Element) /\ Len(f.at) \in Nat /\ k \in 1..Len(f.at)
    BY <1>1, <2>2, FactPlace DEF Sibling
  <2>4. f.at[k].keys = {} /\ Up(f.at, k) = Up(g.at, k)
    BY <1>1, <1>2, <2>2, <2>3, SiblingKinds
  <2>5. Len(f.at) # k
    <3>1. SUFFICES ASSUME Len(f.at) = k PROVE FALSE
      OBVIOUS
    <3>2. IsPrefix(f.at, g.at)
      BY <1>2, <2>3, <2>4, <3>1, UpPrefix
    <3>3. f = g
      BY <1>1, <2>3, <3>2 DEF Coherent
    <3>4. QED BY <3>1, <3>3
  <2>6. Len(p) > Len(a) + 1 /\ p[Len(a) + 1][2] = 0
    <3>1. Len(a) + 1 = k
      BY <1>2, <1>3
    <3>2. p[k][2] = 0
      BY <2>2, <2>4 DEF Number
    <3>3. QED BY <1>2, <2>2, <2>3, <2>5, <3>1, <3>2
  <2>7. QED BY <2>6 DEF IsMap
<1>7. SameTree(q.tree, tree)
  <2> HIDE DEF q, U
  <2>1. CASE U = {}
    BY <1>5, <2>1, WithoutNothing
  <2>2. CASE U # {}
    BY <1>5, <1>6, <2>2, WithoutNothing
  <2>3. QED BY <2>1, <2>2
<1> HIDE DEF q
<1>8. Represents(q.tree, F, D, ix)
  BY <1>7, RepresentsSame
<1>9. QED BY <1>4, <1>8 DEF q

\* A finite set of positive numbers without gaps.
LEMMA WithoutGaps ==
  ASSUME NEW E \in SUBSET Nat, IsFiniteSet(E), 0 \notin E, \A n \in E : \A m \in 1..n : m \in E
  PROVE  E = 1..Cardinality(E) /\ Cardinality(E) \in Nat
<1> DEFINE c == Cardinality(E)
<1>1. c \in Nat
  BY FS_CardinalityType
<1>2. \A n \in Nat : IsFiniteSet(1..n) /\ Cardinality(1..n) = n
  <2>1. ASSUME NEW n \in Nat PROVE IsFiniteSet(1..n) /\ Cardinality(1..n) = n
    <3>1. 1 \in Int /\ n \in Int
      OBVIOUS
    <3>2. IsFiniteSet(1..n) /\ Cardinality(1..n) = IF 1 > n THEN 0 ELSE n - 1 + 1
      BY <3>1, FS_Interval
    <3>3. QED BY <3>2
  <2>2. QED BY <2>1
<1> HIDE DEF c
<1>3. ASSUME NEW m \in 1..c, m \notin E PROVE FALSE
  <2>1. E \subseteq 1..(m - 1) /\ m - 1 \in Nat
    <3>1. ASSUME NEW n \in E PROVE n \in 1..(m - 1)
      <4>1. n \in Nat /\ n # 0 /\ ~(m \in 1..n)
        BY <1>3
      <4>2. QED BY <1>1, <4>1
    <3>2. QED BY <1>1, <3>1
  <2>2. Cardinality(E) <= Cardinality(1..(m - 1))
    BY <1>2, <2>1, FS_Subset
  <2>3. c <= m - 1
    BY <1>2, <2>1, <2>2 DEF c
  <2>4. QED BY <1>1, <1>3, <2>3
<1>4. ASSUME NEW n \in E, n > c PROVE FALSE
  <2>1. 1..n \subseteq E /\ n \in Nat
    BY <1>4
  <2>2. Cardinality(1..n) <= Cardinality(E)
    BY <2>1, FS_Subset
  <2>3. n <= c
    BY <1>2, <2>1, <2>2 DEF c
  <2>4. QED BY <1>1, <1>4, <2>1, <2>3
<1>5. E \subseteq 1..c
  <2>1. ASSUME NEW n \in E PROVE n \in 1..c
    <3>1. n \in Nat /\ n # 0 /\ ~(n > c)
      BY <1>4
    <3>2. QED BY <1>1, <3>1
  <2>2. QED BY <2>1
<1>6. QED BY <1>1, <1>3, <1>5 DEF c

\* Places that begin alike have positions that begin alike.
LEMMA AtSame ==
  ASSUME NEW ix \in [Seq(Element) -> Nat], NEW p \in Seq(Element), NEW q \in Seq(Element),
         NEW k \in 0..Len(p), k <= Len(q), Up(p, k) = Up(q, k)
  PROVE  At(ix, p, k) = At(ix, q, k)
<1>1. ASSUME NEW i \in 1..k PROVE p[i].name = q[i].name /\ Number(ix, p, i) = Number(ix, q, i)
  <2>1. i \in 0..k /\ i > 0
    OBVIOUS
  <2>2. Up(p, i) = Up(q, i) /\ p[i] = q[i]
    BY <2>1, UpLess
  <2>3. QED BY <2>2 DEF Number
<1>2. \A i \in 1..k : <<p[i].name, Number(ix, p, i)>> = <<q[i].name, Number(ix, q, i)>>
  BY <1>1
<1>3. QED BY <1>2 DEF At

\* Where the key of an entry is.
LEMMA KeyPosition ==
  ASSUME NEW ix \in [Seq(Element) -> Nat], NEW p \in Seq(Element), NEW k \in 1..Len(p),
         NEW kv, kv[1] \in STRING
  PROVE  LET h == KeyPlace(Up(p, k), kv)
         IN  /\ h \in Seq(Element) /\ Len(h) = k + 1 /\ Up(h, k) = Up(p, k)
             /\ h[k + 1] = [name |-> kv[1], keys |-> {}]
             /\ At(ix, h, k + 1) = Append(At(ix, p, k), <<kv[1], 0>>)
<1> DEFINE e == [name |-> kv[1], keys |-> {}]
           u == Up(p, k)
           h == KeyPlace(u, kv)
<1>1. e \in Element /\ e.name = kv[1] /\ e.keys = {}
  BY DEF Element
<1>2. u \in Seq(Element) /\ Len(u) = k /\ k \in Nat /\ k > 0 /\ \A i \in 1..k : u[i] = p[i]
  <2>1. k \in 0..Len(p) /\ k \in Nat /\ k > 0
    OBVIOUS
  <2>2. QED BY <2>1, UpElements
<1>3. h = Append(u, e)
  BY DEF KeyPlace
<1> HIDE DEF e, u, h
<1>4. h \in Seq(Element) /\ Len(h) = k + 1 /\ h[k + 1] = e /\ \A i \in 1..k : h[i] = u[i]
  BY <1>1, <1>2, <1>3
<1>5. Up(h, k) = Up(p, k)
  <2>1. k \in 0..Len(h) /\ k <= Len(p) /\ \A i \in 1..k : h[i] = p[i]
    BY <1>2, <1>4
  <2>2. QED BY <1>4, <2>1, UpSame
<1>6. At(ix, h, k) = At(ix, p, k)
  <2>1. k \in 0..Len(h) /\ k <= Len(p)
    BY <1>2, <1>4
  <2>2. QED BY <1>4, <1>5, <2>1, AtSame
<1>7. At(ix, h, k + 1) = Append(At(ix, h, k), <<kv[1], 0>>)
  <2> DEFINE m == k + 1
  <2>1. m \in 1..Len(h) /\ m - 1 = k /\ h \in Seq(Element)
    BY <1>2, <1>4
  <2> HIDE DEF m
  <2>5. At(ix, h, m) = Append(At(ix, h, m - 1), <<h[m].name, Number(ix, h, m)>>)
    BY <2>1, AtNext
  <2>2. At(ix, h, k + 1) = Append(At(ix, h, k), <<h[k + 1].name, Number(ix, h, k + 1)>>)
    BY <2>1, <2>5 DEF m
  <2>3. Number(ix, h, k + 1) = 0 /\ h[k + 1].name = kv[1]
    BY <1>1, <1>4 DEF Number
  <2>4. QED BY <2>1, <2>2, <2>3
<1>8. QED BY <1>4, <1>5, <1>6, <1>7 DEF e, h, u

\* The k-th segment of the way to g leads into an entry of a list.
AtEntry(tree, F, D, ix, g, k, kv) ==
  /\ Represents(tree, F, D, ix) /\ g \in F /\ k \in 1..Len(g.at) /\ g.at[k].keys = {kv}
  /\ Walked(D, g.at, k - 1)

\* The elements of the list are its entries, numbered from 1 on.
LEMMA EntryElements ==
  ASSUME NEW tree, NEW F, NEW D, NEW ix, NEW g, NEW k, NEW kv, AtEntry(tree, F, D, ix, g, k, kv)
  PROVE  LET a     == At(ix, g.at, k - 1)
             elems == Elements(tree, a, g.at[k].name)
         IN  /\ \A i \in elems : \E f \in D :
                  Sibling(f.at, g.at, k) /\ f.at[k].keys # {} /\ i = ix[Up(f.at, k)] /\ i > 0
             /\ \A f \in D : Sibling(f.at, g.at, k) => f.at[k].keys # {} /\ ix[Up(f.at, k)] \in elems
             /\ elems = 1..Cardinality(elems) /\ Cardinality(elems) \in Nat
             /\ Under(tree, a, g.at[k].name) # {} => elems # {}
<1> DEFINE a     == At(ix, g.at, k - 1)
           U     == Under(tree, a, g.at[k].name)
           elems == Elements(tree, a, g.at[k].name)
<1>1. /\ Represents(tree, F, D, ix) /\ g \in F /\ k \in 1..Len(g.at) /\ g.at[k].keys # {}
      /\ Walked(D, g.at, k - 1)
  BY DEF AtEntry
<1>2. /\ Coherent(F) /\ D \subseteq F /\ ix \in [Seq(Element) -> Nat] /\ TreeOK(tree)
      /\ Numbered(D, ix) /\ k \in Nat
  BY <1>1 DEF Represents
<1>3. g.at \in Seq(Element) /\ Len(g.at) \in Nat /\ k - 1 \in 0..Len(g.at)
  BY <1>1, <1>2, FactPlace
<1>4. a \in Position /\ Len(a) = k - 1 /\ Len(a) + 1 = k
  <2>1. a \in Position /\ Len(a) = k - 1
    BY <1>2, <1>3, AtElements
  <2> HIDE DEF a
  <2>2. QED BY <1>2, <2>1
<1>5. ASSUME NEW f \in D, Sibling(f.at, g.at, k)
      PROVE  /\ f \in F /\ k \in DOMAIN f.at /\ f.at[k].keys # {} /\ ix[Up(f.at, k)] \in Nat /\ ix[Up(f.at, k)] > 0
             /\ Number(ix, f.at, k) = ix[Up(f.at, k)]
             /\ f.at \in Seq(Element) /\ Len(f.at) \in Nat
  <2>1. f \in F /\ k \in DOMAIN f.at /\ f.at \in Seq(Element) /\ k \in 0..Len(f.at) /\ Len(f.at) \in Nat
    BY <1>2, <1>5, FactPlace DEF Sibling
  <2>2. f.at[k].keys # {}
    BY <1>1, <1>2, <1>5, <2>1, SiblingKinds
  <2>3. ix[Up(f.at, k)] > 0
    BY <1>2, <2>1, <2>2 DEF Numbered
  <2>4. ix[Up(f.at, k)] \in Nat
    BY <1>2, <2>1, UpElements
  <2>5. QED BY <2>1, <2>2, <2>3, <2>4 DEF Number
<1>6. elems = {p[k][2] : p \in U} \ {0}
  BY <1>4 DEF Elements
<1>7. /\ \A p \in U : \E f \in D : Sibling(f.at, g.at, k) /\ p[k][2] = Number(ix, f.at, k)
      /\ \A f \in D : Sibling(f.at, g.at, k) => At(ix, f.at, Len(f.at)) \in U
  BY <1>1, UnderFacts
<1>8. elems \in SUBSET Nat /\ IsFiniteSet(elems)
  BY <1>2, <1>4, ElementNumbers
<1> HIDE DEF U, a, elems
<1>9. \A i \in elems : \E f \in D :
        Sibling(f.at, g.at, k) /\ f.at[k].keys # {} /\ i = ix[Up(f.at, k)] /\ i > 0
  BY <1>5, <1>6, <1>7
<1>10. ASSUME NEW f \in D, Sibling(f.at, g.at, k)
       PROVE  f.at[k].keys # {} /\ ix[Up(f.at, k)] \in elems
  <2> DEFINE p == At(ix, f.at, Len(f.at))
  <2>1. p \in U
    BY <1>7, <1>10
  <2>2. p[k][2] = Number(ix, f.at, k)
    <3>1. k \in 1..Len(f.at) /\ Len(f.at) \in 0..Len(f.at)
      BY <1>5, <1>10
    <3>2. QED BY <1>2, <1>5, <1>10, <3>1, AtElements
  <2> HIDE DEF p
  <2>3. QED BY <1>5, <1>6, <1>10, <2>1, <2>2
<1>11. ASSUME NEW n \in elems, NEW m \in 1..n PROVE m \in elems
  <2>1. PICK f \in D : Sibling(f.at, g.at, k) /\ f.at[k].keys # {} /\ n = ix[Up(f.at, k)]
    BY <1>9
  <2>2. k \in DOMAIN f.at /\ f.at \in Seq(Element) /\ Len(f.at) \in Nat /\ f \in F
    BY <1>5, <2>1
  <2>3. PICK h \in D : Sibling(f.at, h.at, k) /\ h.at[k].keys # {} /\ ix[Up(h.at, k)] = m
    BY <1>2, <2>1, <2>2 DEF Numbered
  <2>4. Sibling(h.at, g.at, k)
    BY <2>1, <2>3 DEF Sibling
  <2>5. QED BY <1>10, <2>3, <2>4
<1>12. 0 \notin elems
  BY <1>6
<1>13. elems = 1..Cardinality(elems) /\ Cardinality(elems) \in Nat
  BY <1>8, <1>11, <1>12, WithoutGaps
<1>14. U # {} => elems # {}
  BY <1>7, <1>10
<1>15. QED BY <1>9, <1>10, <1>13, <1>14 DEF a, U, elems

\* Every entry of the list has its key.
LEMMA EntryKey ==
  ASSUME NEW tree, NEW F, NEW D, NEW ix, NEW g, NEW k, NEW kv, AtEntry(tree, F, D, ix, g, k, kv),
         NEW f \in D, Sibling(f.at, g.at, k)
  PROVE  LET place == At(ix, g.at, k - 1) \o << <<g.at[k].name, ix[Up(f.at, k)]>>, <<kv[1], 0>> >>
         IN  /\ place \in DOMAIN tree
             /\ \E w : f.at[k].keys = {<<kv[1], w>>} /\ tree[place] = w
<1> DEFINE a == At(ix, g.at, k - 1)
           x == <<g.at[k].name, ix[Up(f.at, k)]>>
           y == <<kv[1], 0>>
<1>1. /\ Represents(tree, F, D, ix) /\ g \in F /\ k \in 1..Len(g.at) /\ g.at[k].keys = {kv}
  BY DEF AtEntry
<1>2. /\ Coherent(F) /\ D \subseteq F /\ ix \in [Seq(Element) -> Nat] /\ k \in Nat /\ f \in F
      /\ DOMAIN tree = {At(ix, h.at, Len(h.at)) : h \in D}
      /\ \A h \in D : tree[At(ix, h.at, Len(h.at))] = h.val
  BY <1>1 DEF Represents
<1>3. /\ g.at \in Seq(Element) /\ Len(g.at) \in Nat /\ f.at \in Seq(Element) /\ Len(f.at) \in Nat
      /\ k \in 1..Len(f.at) /\ k \in DOMAIN f.at /\ f.at[k] \in Element /\ f.at[k].name = g.at[k].name
      /\ Up(f.at, k - 1) = Up(g.at, k - 1) /\ k - 1 \in 0..Len(f.at) /\ k - 1 <= Len(g.at)
      /\ g.at[k].name \in STRING
  <2>1. g.at \in Seq(Element) /\ f.at \in Seq(Element) /\ Len(f.at) \in Nat /\ k \in 1..Len(f.at)
    BY <1>1, <1>2, FactPlace DEF Sibling
  <2>2. g.at[k] \in Element /\ f.at[k] \in Element
    BY <1>1, <2>1
  <2>3. g.at[k].name \in STRING
    BY <2>2 DEF Element
  <2>4. QED BY <1>1, <1>2, <2>1, <2>2, <2>3 DEF Sibling
<1>4. f.at[k].keys # {} /\ KeyNames(f.at[k]) = KeyNames(g.at[k])
  <2>1. KeyNames(f.at[k]) = KeyNames(g.at[k])
    BY <1>1, <1>2 DEF Coherent
  <2>2. QED BY <1>1, <2>1 DEF KeyNames
<1>5. PICK kw \in f.at[k].keys : TRUE
  BY <1>4
<1>6. kw[1] = kv[1]
  <2>1. kw[1] \in KeyNames(f.at[k])
    BY DEF KeyNames
  <2>2. KeyNames(g.at[k]) = {kv[1]}
    BY <1>1 DEF KeyNames
  <2>3. QED BY <1>4, <2>1, <2>2
<1>7. kw \in STRING \X STRING
  BY <1>3 DEF Element
<1>8. f.at[k].keys = {<<kv[1], kw[2]>>}
  <2>1. kw = <<kv[1], kw[2]>>
    BY <1>6, <1>7
  <2>2. \A e \in f.at[k].keys : e = kw
    BY <1>2, <1>3 DEF Coherent
  <2>3. QED BY <2>1, <2>2
<1>9. PICK h \in D : h.at = KeyPlace(Up(f.at, k), kw) /\ h.val = kw[2]
  BY <1>1, <1>3 DEF Represents
<1>10. /\ Len(h.at) = k + 1
       /\ At(ix, h.at, k + 1) = Append(At(ix, f.at, k), y)
  <2>1. kw[1] \in STRING
    BY <1>7
  <2> DEFINE p == f.at
  <2>4. ix \in [Seq(Element) -> Nat] /\ p \in Seq(Element) /\ k \in 1..Len(p)
    BY <1>2, <1>3
  <2> HIDE DEF p
  <2>5. LET o == KeyPlace(Up(p, k), kw)
        IN  Len(o) = k + 1 /\ At(ix, o, k + 1) = Append(At(ix, p, k), <<kw[1], 0>>)
    BY <2>1, <2>4, KeyPosition
  <2>2. /\ Len(h.at) = k + 1
        /\ At(ix, h.at, k + 1) = Append(At(ix, f.at, k), <<kw[1], 0>>)
    BY <1>9, <2>5 DEF p
  <2>3. QED BY <1>6, <2>2
<1>11. At(ix, f.at, k) = Append(a, x)
  <2>1. At(ix, f.at, k - 1) = a
    BY <1>2, <1>3, AtSame
  <2>2. At(ix, f.at, k) = Append(At(ix, f.at, k - 1), <<f.at[k].name, Number(ix, f.at, k)>>)
    BY <1>2, <1>3, AtNext
  <2>3. Number(ix, f.at, k) = ix[Up(f.at, k)]
    BY <1>4 DEF Number
  <2>4. QED BY <1>3, <2>1, <2>2, <2>3
<1>12. At(ix, h.at, Len(h.at)) = a \o <<x, y>>
  <2>1. a \in Seq(Step)
    <3>1. k - 1 \in 0..Len(g.at)
      BY <1>1, <1>3
    <3>2. QED BY <1>2, <1>3, <3>1, AtElements DEF Position
  <2>2. x \in Step /\ y \in Step
    <3>1. ix[Up(f.at, k)] \in Nat
      <4>1. k \in 0..Len(f.at)
        BY <1>3
      <4>2. QED BY <1>2, <1>3, <4>1, UpElements
    <3>2. kv[1] \in STRING
      BY <1>6, <1>7
    <3>3. QED BY <1>3, <3>1, <3>2 DEF Step
  <2>3. At(ix, h.at, Len(h.at)) = Append(Append(a, x), y)
    BY <1>10, <1>11
  <2> HIDE DEF a, x, y
  <2>4. Append(Append(a, x), y) = a \o <<x, y>>
    BY <2>1, <2>2
  <2>5. QED BY <2>3, <2>4
<1> HIDE DEF a, x, y
<1>13. a \o <<x, y>> \in DOMAIN tree /\ tree[a \o <<x, y>>] = kw[2]
  BY <1>2, <1>9, <1>12
<1>14. QED BY <1>8, <1>13 DEF a, x, y

\* The entry that is looked for is in the tree.
InTree(D, p, k) == \E h \in D : k \in DOMAIN h.at /\ Up(h.at, k) = Up(p, k)

\* An entry is found by its key if it is in the tree, and no other one is.
LEMMA FoundEntry ==
  ASSUME NEW tree, NEW F, NEW D, NEW ix, NEW g, NEW k, NEW kv, AtEntry(tree, F, D, ix, g, k, kv)
  PROVE  LET a     == At(ix, g.at, k - 1)
             elems == Elements(tree, a, g.at[k].name)
             key(i) == a \o << <<g.at[k].name, i>>, <<kv[1], 0>> >>
             found == {i \in elems : key(i) \in DOMAIN tree /\ tree[key(i)] = kv[2]}
         IN  /\ InTree(D, g.at, k) => found = {ix[Up(g.at, k)]}
             /\ ~InTree(D, g.at, k) => found = {}
<1> DEFINE a     == At(ix, g.at, k - 1)
           elems == Elements(tree, a, g.at[k].name)
           key(i) == a \o << <<g.at[k].name, i>>, <<kv[1], 0>> >>
           found == {i \in elems : key(i) \in DOMAIN tree /\ tree[key(i)] = kv[2]}
<1>1. /\ Represents(tree, F, D, ix) /\ g \in F /\ k \in 1..Len(g.at) /\ g.at[k].keys = {kv}
  BY DEF AtEntry
<1>2. Coherent(F) /\ D \subseteq F /\ k \in Nat
  BY <1>1 DEF Represents
<1>3. g.at \in Seq(Element) /\ Len(g.at) \in Nat /\ g.at[k] \in Element
  BY <1>1, <1>2, FactPlace
<1>4. kv = <<kv[1], kv[2]>>
  <2>1. kv \in STRING \X STRING
    BY <1>1, <1>3 DEF Element
  <2>2. QED BY <2>1
<1>5. /\ \A i \in elems : \E f \in D :
           Sibling(f.at, g.at, k) /\ f.at[k].keys # {} /\ i = ix[Up(f.at, k)] /\ i > 0
      /\ \A f \in D : Sibling(f.at, g.at, k) => f.at[k].keys # {} /\ ix[Up(f.at, k)] \in elems
  BY EntryElements
<1>6. ASSUME NEW f \in D, Sibling(f.at, g.at, k)
      PROVE  /\ key(ix[Up(f.at, k)]) \in DOMAIN tree
             /\ f.at[k].keys = {<<kv[1], tree[key(ix[Up(f.at, k)])]>>}
  BY <1>6, EntryKey
<1> HIDE DEF a, elems, key
<1>7. ASSUME NEW i \in found
      PROVE  i = ix[Up(g.at, k)] /\ InTree(D, g.at, k)
  <2>1. PICK f \in D : Sibling(f.at, g.at, k) /\ i = ix[Up(f.at, k)]
    BY <1>5
  <2>2. f.at[k].keys = {<<kv[1], kv[2]>>}
    BY <1>6, <2>1
  <2>3. f \in F /\ f.at[k].keys = g.at[k].keys
    BY <1>1, <1>2, <1>4, <2>2
  <2>4. Up(f.at, k) = Up(g.at, k)
    <3>1. /\ Coherent(F) /\ f \in F /\ g \in F /\ k \in Nat /\ Sibling(f.at, g.at, k)
          /\ f.at[k].keys = g.at[k].keys
      BY <1>1, <1>2, <2>1, <2>3
    <3> HIDE DEF found
    <3>2. QED BY <3>1, SiblingKinds
  <2>5. k \in DOMAIN f.at
    BY <2>1 DEF Sibling
  <2>6. QED BY <2>1, <2>4, <2>5 DEF InTree
<1>8. ASSUME InTree(D, g.at, k) PROVE ix[Up(g.at, k)] \in found
  <2>1. PICK f \in D : k \in DOMAIN f.at /\ Up(f.at, k) = Up(g.at, k)
    BY <1>8 DEF InTree
  <2>2. f.at \in Seq(Element) /\ k \in 1..Len(f.at) /\ k <= Len(g.at) /\ k \in DOMAIN g.at
    <3>1. f \in F
      BY <1>2
    <3>2. QED BY <1>1, <1>2, <1>3, <2>1, <3>1, FactPlace
  <2>3. Up(f.at, k - 1) = Up(g.at, k - 1) /\ f.at[k] = g.at[k]
    BY <1>3, <2>1, <2>2, UpNext
  <2>4. Sibling(f.at, g.at, k)
    BY <2>1, <2>2, <2>3 DEF Sibling
  <2>5. /\ key(ix[Up(g.at, k)]) \in DOMAIN tree
        /\ {<<kv[1], kv[2]>>} = {<<kv[1], tree[key(ix[Up(g.at, k)])]>>}
    BY <1>1, <1>4, <1>6, <2>1, <2>3, <2>4
  <2>6. tree[key(ix[Up(g.at, k)])] = kv[2]
    <3>1. <<kv[1], kv[2]>> = <<kv[1], tree[key(ix[Up(g.at, k)])]>>
      BY <2>5
    <3>2. QED BY <3>1
  <2>7. ix[Up(g.at, k)] \in elems
    BY <1>5, <2>1, <2>4
  <2>8. QED BY <2>5, <2>6, <2>7
<1> HIDE DEF found
<1>9. InTree(D, g.at, k) => found = {ix[Up(g.at, k)]}
  BY <1>7, <1>8
<1>10. ~InTree(D, g.at, k) => found = {}
  BY <1>7
<1>11. QED BY <1>9, <1>10 DEF a, elems, key, found

\* Of the way to g: k elements are entered, and nothing is lost that D held.
Reached(F, g, D, k, pos) ==
  \E E, ix : /\ Represents(pos.tree, F, E, ix) /\ D \subseteq E
             /\ Walked(E, g.at, k) /\ pos.at = At(ix, g.at, k)

\* t is the tree with an element appended to the list, and its key.
Appended(tree, F, D, ix, g, k, kv, c, t) ==
  /\ AtEntry(tree, F, D, ix, g, k, kv) /\ ~InTree(D, g.at, k)
  /\ c \in Nat /\ c > 0 /\ Elements(tree, At(ix, g.at, k - 1), g.at[k].name) = 1..(c - 1)
  /\ \E base : /\ SameTree(base, tree) /\ TreeOK(base)
               /\ Assigned(base, Append(At(ix, g.at, k - 1), <<g.at[k].name, c>>), kv[1], <<>>, kv[2], t)

\* Such a tree has one entry more.
LEMMA EntryAdded ==
  ASSUME NEW tree, NEW F, NEW D, NEW ix, NEW g, NEW k, NEW kv, NEW c, NEW t,
         Appended(tree, F, D, ix, g, k, kv, c, t)
  PROVE  Reached(F, g, D, k, [tree |-> t, at |-> Append(At(ix, g.at, k - 1), <<g.at[k].name, c>>)])
<1>a. /\ AtEntry(tree, F, D, ix, g, k, kv) /\ ~InTree(D, g.at, k)
      /\ c \in Nat /\ c > 0 /\ Elements(tree, At(ix, g.at, k - 1), g.at[k].name) = 1..(c - 1)
  BY DEF Appended
<1>b. PICK base :
        /\ SameTree(base, tree) /\ TreeOK(base)
        /\ Assigned(base, Append(At(ix, g.at, k - 1), <<g.at[k].name, c>>), kv[1], <<>>, kv[2], t)
  BY DEF Appended
<1> USE <1>a, <1>b
<1> DEFINE q     == g.at
           nm    == q[k].name
           a     == At(ix, q, k - 1)
           elems == Elements(tree, a, nm)
           at    == Append(a, <<nm, c>>)
           jx    == [ix EXCEPT ![Up(q, k)] = c]
<1>1. /\ Represents(tree, F, D, ix) /\ g \in F /\ k \in 1..Len(q) /\ q[k].keys = {kv}
      /\ Walked(D, q, k - 1)
  BY DEF AtEntry
<1>2. /\ Coherent(F) /\ D \subseteq F /\ ix \in [Seq(Element) -> Nat] /\ TreeOK(tree)
      /\ DOMAIN tree = {At(ix, f.at, Len(f.at)) : f \in D}
      /\ (\A f \in D : tree[At(ix, f.at, Len(f.at))] = f.val)
      /\ (\A f \in D : \A i \in DOMAIN f.at : \A kw \in f.at[i].keys :
            \E h \in D : h.at = KeyPlace(Up(f.at, i), kw) /\ h.val = kw[2])
      /\ Numbered(D, ix) /\ k \in Nat
  BY <1>1 DEF Represents
<1>3. /\ q \in Seq(Element) /\ Len(q) \in Nat /\ q[k] \in Element /\ k \in DOMAIN q
      /\ k \in 0..Len(q) /\ k - 1 \in 0..Len(q) /\ DOMAIN q = 1..Len(q)
  BY <1>1, <1>2, FactPlace
<1>4. kv \in STRING \X STRING /\ kv[1] \in STRING /\ nm \in STRING
  <2>1. kv \in STRING \X STRING /\ nm \in STRING
    BY <1>1, <1>3 DEF Element
  <2>2. QED BY <2>1
<1>5. PICK new \in F : new.at = KeyPlace(Up(q, k), kv) /\ new.val = kv[2]
  <2>1. k \in DOMAIN q /\ kv \in q[k].keys
    BY <1>1, <1>3
  <2>2. \A f \in F : \A i \in DOMAIN f.at : \A kw \in f.at[i].keys :
          \E h \in F : h.at = KeyPlace(Up(f.at, i), kw) /\ h.val = kw[2]
    BY <1>2 DEF Coherent
  <2>3. QED BY <1>1, <2>1, <2>2
<1> DEFINE E == D \cup {new}
           n == new.at
<1>6. Up(q, k) \in Seq(Element) /\ Len(Up(q, k)) = k
  BY <1>3, UpElements
<1>7. /\ jx \in [Seq(Element) -> Nat] /\ jx[Up(q, k)] = c
      /\ \A x \in Seq(Element) : x # Up(q, k) => jx[x] = ix[x]
  BY <1>2, <1>6
<1>8. /\ n \in Seq(Element) /\ Len(n) = k + 1 /\ DOMAIN n = 1..(k + 1) /\ Up(n, k) = Up(q, k)
      /\ n[k + 1].keys = {} /\ k <= Len(n)
      /\ At(jx, n, k + 1) = Append(At(jx, q, k), <<kv[1], 0>>)
  <2> DEFINE o == KeyPlace(Up(q, k), kv)
  <2> HIDE DEF jx, q
  <2>5. jx \in [Seq(Element) -> Nat] /\ q \in Seq(Element) /\ k \in 1..Len(q) /\ kv[1] \in STRING
    BY <1>1, <1>3, <1>4, <1>7
  <2>6. LET h == KeyPlace(Up(q, k), kv)
        IN  /\ h \in Seq(Element) /\ Len(h) = k + 1 /\ Up(h, k) = Up(q, k)
            /\ h[k + 1] = [name |-> kv[1], keys |-> {}]
            /\ At(jx, h, k + 1) = Append(At(jx, q, k), <<kv[1], 0>>)
    BY <2>5, KeyPosition
  <2>1. /\ o \in Seq(Element) /\ Len(o) = k + 1 /\ Up(o, k) = Up(q, k)
        /\ o[k + 1] = [name |-> kv[1], keys |-> {}]
        /\ At(jx, o, k + 1) = Append(At(jx, q, k), <<kv[1], 0>>)
    BY <2>6
  <2>2. n = o
    BY <1>5
  <2> HIDE DEF o, n
  <2>3. k <= Len(n) /\ DOMAIN n = 1..(k + 1)
    BY <1>2, <2>1, <2>2
  <2>4. QED BY <2>1, <2>2, <2>3
<1> HIDE DEF jx
\* Nothing that was in the tree is in the new entry.
<1>9. ASSUME NEW p \in Seq(Element), NEW i \in 0..Len(p), NEW h \in D, i \in DOMAIN h.at,
             Up(h.at, i) = Up(p, i)
      PROVE  Up(p, i) # Up(q, k)
  <2>1. SUFFICES ASSUME Up(p, i) = Up(q, k) PROVE FALSE
    OBVIOUS
  <2>2. i = k
    BY <1>3, <2>1, UpLength
  <2>3. QED BY <1>9, <2>1, <2>2 DEF InTree
<1>10. ASSUME NEW p \in Seq(Element), NEW i \in 1..Len(p), NEW h \in D, i \in DOMAIN h.at,
              Up(h.at, i) = Up(p, i)
       PROVE  jx[Up(p, i)] = ix[Up(p, i)] /\ Number(jx, p, i) = Number(ix, p, i)
  <2>1. i \in 0..Len(p)
    OBVIOUS
  <2>2. Up(p, i) # Up(q, k) /\ Up(p, i) \in Seq(Element)
    BY <1>9, <1>10, <2>1, UpElements
  <2>3. QED BY <1>7, <2>2 DEF Number
<1>11. ASSUME NEW f \in D
       PROVE  /\ f.at \in Seq(Element) /\ DOMAIN f.at = 1..Len(f.at) /\ Len(f.at) \in Nat
              /\ At(jx, f.at, Len(f.at)) = At(ix, f.at, Len(f.at))
              /\ \A i \in DOMAIN f.at : jx[Up(f.at, i)] = ix[Up(f.at, i)]
  <2>1. f \in F /\ f.at \in Seq(Element) /\ Len(f.at) \in Nat /\ DOMAIN f.at = 1..Len(f.at)
    BY <1>2, FactPlace
  <2>2. \A i \in 1..Len(f.at) : /\ Number(jx, f.at, i) = Number(ix, f.at, i)
                                /\ jx[Up(f.at, i)] = ix[Up(f.at, i)]
    BY <1>10, <2>1
  <2>3. At(jx, f.at, Len(f.at)) = At(ix, f.at, Len(f.at))
    BY <2>2 DEF At
  <2>4. QED BY <2>1, <2>2, <2>3
<1>12. At(jx, q, k) = at
  <2>1. \A i \in 1..(k - 1) : Number(jx, q, i) = Number(ix, q, i)
    <3>1. ASSUME NEW i \in 1..(k - 1) PROVE Number(jx, q, i) = Number(ix, q, i)
      <4>1. CASE q[i].keys = {}
        BY <4>1 DEF Number
      <4>2. CASE q[i].keys # {}
        <5>1. \E h \in D : i \in DOMAIN h.at /\ Up(h.at, i) = Up(q, i)
          BY <1>1, <4>2 DEF Walked
        <5>2. i \in 1..Len(q)
          BY <1>3
        <5>3. QED BY <1>3, <1>10, <5>1, <5>2
      <4>3. QED BY <4>1, <4>2
    <3>2. QED BY <3>1
  <2>2. At(jx, q, k - 1) = a
    BY <2>1 DEF At
  <2>3. Number(jx, q, k) = c
    BY <1>1, <1>7 DEF Number
  <2>4. At(jx, q, k) = Append(At(jx, q, k - 1), <<q[k].name, Number(jx, q, k)>>)
    BY <1>1, <1>3, <1>7, AtNext
  <2>5. QED BY <2>2, <2>3, <2>4
<1>13. a \in Position /\ at \in Position /\ Len(a) = k - 1 /\ Len(at) = k /\ at[k] = <<nm, c>>
       /\ \A i \in 1..(k - 1) : at[i] = a[i]
  <2>1. a \in Seq(Step) /\ Len(a) = k - 1
    BY <1>2, <1>3, AtElements DEF Position
  <2> DEFINE e == <<nm, c>>
  <2>2. e \in Step
    BY <1>4 DEF Step
  <2> HIDE DEF a, e
  <2>3. Append(a, e) \in Seq(Step) /\ Len(Append(a, e)) = k /\ Append(a, e)[k] = e
        /\ \A i \in 1..(k - 1) : Append(a, e)[i] = a[i]
    BY <1>1, <2>1, <2>2
  <2>4. QED BY <2>1, <2>3 DEF e, Position
\* The new element is not in the tree.
<1>14. \A y : Under(tree, at, y) = {} /\ Under(base, at, y) = {}
  <2>1. ASSUME NEW y, NEW p \in Under(tree, at, y) PROVE FALSE
    <3>1. p \in DOMAIN tree /\ p \in Position /\ Len(p) > k /\ IsPrefix(at, p)
      BY <1>2, <1>13 DEF Under, TreeOK
    <3>2. Len(p) \in Nat /\ p \in Seq(Step) /\ at \in Seq(Step) /\ a \in Seq(Step)
      BY <1>13, <3>1 DEF Position
    <3>3. \A i \in 1..k : at[i] = p[i]
      <4> DEFINE b == at
      <4>1. b \in Seq(Step) /\ p \in Seq(Step) /\ IsPrefix(b, p) /\ Len(b) = k
        BY <1>13, <3>1, <3>2
      <4> HIDE DEF b
      <4>2. \A i \in 1..Len(b) : b[i] = p[i]
        BY <4>1, PrefixElements
      <4>3. \A i \in 1..k : b[i] = p[i]
        BY <4>1, <4>2
      <4>4. QED BY <4>3 DEF b
    <3>4. p[k] = <<nm, c>> /\ \A i \in 1..(k - 1) : a[i] = p[i]
      BY <1>1, <1>2, <1>13, <3>3
    <3>5. IsPrefix(a, p)
      <4>1. Len(a) <= Len(p)
        BY <1>2, <1>13, <3>1, <3>2
      <4>2. QED BY <1>13, <3>2, <3>4, <4>1, PrefixElements
    <3>6. Len(p) > Len(a) /\ Len(a) + 1 = k /\ p[k][1] = nm /\ p[k][2] = c
      BY <1>2, <1>13, <3>1, <3>2, <3>4
    <3>7. p \in Under(tree, a, nm)
      BY <3>1, <3>5, <3>6 DEF Under
    <3>8. c \in elems
      BY <3>6, <3>7 DEF Elements
    <3>9. QED BY <3>8
  <2>2. \A y : Under(base, at, y) = Under(tree, at, y)
    BY DEF Under, SameTree
  <2>3. QED BY <2>1, <2>2
<1> DEFINE place == PlaceOf(at, kv[1], <<>>)
<1>15. place = At(jx, n, k + 1)
  <2>1. Plain(<<>>) = <<>>
    BY DEF Plain
  <2>2. Append(at, <<kv[1], 0>>) \in Seq(Step)
    <3>1. <<kv[1], 0>> \in Step /\ at \in Seq(Step)
      BY <1>4, <1>13 DEF Step, Position
    <3> DEFINE e == <<kv[1], 0>>
    <3> HIDE DEF e, at
    <3>2. QED BY <3>1 DEF e
  <2>3. Append(at, <<kv[1], 0>>) \o <<>> = Append(at, <<kv[1], 0>>)
    BY <2>2
  <2>4. QED BY <1>8, <1>12, <2>1, <2>3 DEF PlaceOf
<1>16. /\ TreeOK(t) /\ t[place] = kv[2]
       /\ DOMAIN t = {place} \cup DOMAIN tree
       /\ \A p \in DOMAIN t : p # place => p \in DOMAIN tree /\ t[p] = tree[p]
  BY <1>14 DEF Assigned, SameTree
<1>17. place \notin DOMAIN tree
  <2>1. SUFFICES ASSUME place \in DOMAIN tree PROVE FALSE
    OBVIOUS
  <2>2. PICK f \in D : place = At(ix, f.at, Len(f.at))
    BY <1>2, <2>1
  <2>3. place \in Under(tree, at, kv[1])
    <3> DEFINE e == <<kv[1], 0>>
               z == Append(at, e)
    <3>1. place = z
      BY <1>8, <1>12, <1>15
    <3>2. at \in Seq(Step) /\ e \in Step /\ e[1] = kv[1]
      BY <1>4, <1>13 DEF Step, Position
    <3> HIDE DEF e, at
    <3>3. /\ z \in Seq(Step) /\ Len(z) = Len(at) + 1 /\ z[Len(at) + 1] = e
          /\ \A i \in 1..Len(at) : z[i] = at[i]
      BY <3>2
    <3> HIDE DEF z
    <3>4. Len(at) \in Nat
      BY <3>2
    <3>5. IsPrefix(at, z)
      <4>1. Len(at) <= Len(z)
        BY <3>3, <3>4
      <4>2. \A i \in 1..Len(at) : at[i] = z[i]
        BY <3>3
      <4>3. QED BY <3>2, <3>3, <4>1, <4>2, PrefixElements
    <3>6. z \in DOMAIN tree /\ Len(z) > Len(at) /\ z[Len(at) + 1][1] = kv[1]
      BY <2>1, <3>1, <3>2, <3>3, <3>4
    <3>7. QED BY <3>1, <3>5, <3>6 DEF Under
  <2>4. QED BY <1>14, <2>3
<1> HIDE DEF place, a, at, elems
<1>18. DOMAIN t = {At(jx, f.at, Len(f.at)) : f \in E}
  <2>1. At(jx, n, Len(n)) = place
    BY <1>8, <1>15
  <2>2. \A f \in D : At(jx, f.at, Len(f.at)) = At(ix, f.at, Len(f.at))
    BY <1>11
  <2>3. DOMAIN t = {place} \cup {At(ix, f.at, Len(f.at)) : f \in D}
    BY <1>2, <1>16
  <2>4. QED BY <2>1, <2>2, <2>3
<1>19. \A f \in E : t[At(jx, f.at, Len(f.at))] = f.val
  <2>1. t[At(jx, n, Len(n))] = new.val
    BY <1>5, <1>8, <1>15, <1>16
  <2>2. ASSUME NEW f \in D PROVE t[At(jx, f.at, Len(f.at))] = f.val
    <3>1. At(jx, f.at, Len(f.at)) = At(ix, f.at, Len(f.at))
      BY <1>11
    <3>2. At(ix, f.at, Len(f.at)) \in DOMAIN tree /\ tree[At(ix, f.at, Len(f.at))] = f.val
      BY <1>2
    <3>3. QED BY <1>16, <1>17, <3>1, <3>2
  <2>3. QED BY <2>1, <2>2
\* The entries of the new tree are those of the old one, and the new one.
<1>20. ASSUME NEW f \in E, NEW i \in DOMAIN f.at, f.at[i].keys # {}
       PROVE  \/ i = k /\ Up(f.at, i) = Up(q, k)
              \/ \E h \in D : i \in DOMAIN h.at /\ Up(h.at, i) = Up(f.at, i)
  <2>1. CASE f \in D
    BY <2>1
  <2>2. CASE f = new
    <3>1. i \in 1..k /\ k \in 0..Len(n) /\ k <= Len(q)
      <4>1. i \in 1..(k + 1) /\ i # k + 1
        BY <1>8, <1>20, <2>2
      <4>2. QED BY <1>1, <1>2, <1>3, <1>8, <4>1
    <3>2. i \in 0..k /\ i > 0
      BY <3>1
    <3>3. Up(n, i) = Up(q, i) /\ n[i] = q[i]
      BY <1>3, <1>8, <3>1, <3>2, UpLess
    <3>4. CASE i = k
      BY <2>2, <3>3, <3>4
    <3>5. CASE i # k
      <4>1. i \in 1..(k - 1)
        BY <1>2, <3>1, <3>5
      <4>2. QED BY <1>1, <1>20, <2>2, <3>3, <4>1 DEF Walked
    <3>6. QED BY <3>4, <3>5
  <2>3. QED BY <2>1, <2>2
<1>21. ASSUME NEW f \in E
       PROVE  f \in F /\ f.at \in Seq(Element) /\ DOMAIN f.at = 1..Len(f.at) /\ Len(f.at) \in Nat
  <2>1. f \in F
    BY <1>2, <1>5
  <2>2. QED BY <1>2, <2>1, FactPlace
<1>22. ASSUME NEW f \in E, NEW i \in DOMAIN f.at, f.at[i].keys # {}
       PROVE  \/ /\ i = k /\ Up(f.at, k) = Up(q, k) /\ Up(f.at, k - 1) = Up(q, k - 1)
                 /\ f.at[k] = q[k] /\ jx[Up(f.at, k)] = c
              \/ \E h \in D : /\ i \in DOMAIN h.at /\ Up(h.at, i) = Up(f.at, i)
                              /\ Up(h.at, i - 1) = Up(f.at, i - 1) /\ h.at[i] = f.at[i]
                              /\ ix[Up(h.at, i)] = jx[Up(f.at, i)]
  <2>1. f.at \in Seq(Element) /\ i \in 1..Len(f.at) /\ Len(f.at) \in Nat
    BY <1>21
  <2>2. CASE i = k /\ Up(f.at, i) = Up(q, k)
    <3>1. k \in 1..Len(f.at) /\ k <= Len(q) /\ Up(f.at, k) = Up(q, k)
      BY <1>1, <1>3, <2>1, <2>2
    <3>2. Up(f.at, k - 1) = Up(q, k - 1) /\ f.at[k] = q[k]
      BY <1>3, <2>1, <3>1, UpNext
    <3>3. QED BY <1>7, <2>2, <3>1, <3>2
  <2>3. CASE \E h \in D : i \in DOMAIN h.at /\ Up(h.at, i) = Up(f.at, i)
    <3>1. PICK h \in D : i \in DOMAIN h.at /\ Up(h.at, i) = Up(f.at, i)
      BY <2>3
    <3>2. h.at \in Seq(Element) /\ i \in 1..Len(h.at) /\ i <= Len(f.at)
      BY <1>11, <2>1, <3>1
    <3>3. Up(h.at, i - 1) = Up(f.at, i - 1) /\ h.at[i] = f.at[i]
      BY <2>1, <3>1, <3>2, UpNext
    <3>4. jx[Up(f.at, i)] = ix[Up(f.at, i)]
      BY <1>10, <2>1, <3>1
    <3>5. QED BY <3>1, <3>3, <3>4
  <2>4. QED BY <1>20, <1>22, <2>2, <2>3
<1>23. ASSUME NEW f \in E, NEW i \in DOMAIN f.at, NEW kw \in f.at[i].keys
       PROVE  \E h \in E : h.at = KeyPlace(Up(f.at, i), kw) /\ h.val = kw[2]
  <2>1. CASE i = k /\ Up(f.at, k) = Up(q, k) /\ f.at[k] = q[k]
    <3>1. kw = kv
      BY <1>1, <2>1
    <3>2. QED BY <1>5, <2>1, <3>1
  <2>2. CASE \E h \in D : i \in DOMAIN h.at /\ Up(h.at, i) = Up(f.at, i) /\ h.at[i] = f.at[i]
    <3>1. PICK h \in D : i \in DOMAIN h.at /\ Up(h.at, i) = Up(f.at, i) /\ h.at[i] = f.at[i]
      BY <2>2
    <3>2. PICK o \in D : o.at = KeyPlace(Up(h.at, i), kw) /\ o.val = kw[2]
      BY <1>2, <3>1
    <3>3. QED BY <3>1, <3>2
  <2>3. f.at[i].keys # {}
    OBVIOUS
  <2>4. QED BY <1>22, <2>1, <2>2, <2>3
<1>24. ASSUME NEW f \in E, NEW i \in DOMAIN f.at, f.at[i].keys # {}
       PROVE  jx[Up(f.at, i)] > 0
  <2>1. CASE i = k /\ jx[Up(f.at, k)] = c
    BY <2>1
  <2>2. CASE \E h \in D : i \in DOMAIN h.at /\ h.at[i] = f.at[i] /\ ix[Up(h.at, i)] = jx[Up(f.at, i)]
    BY <1>2, <1>24, <2>2 DEF Numbered
  <2>3. QED BY <1>22, <1>24, <2>1, <2>2
\* An entry of the list has another number than the new one.
<1>25. ASSUME NEW h \in D, Sibling(h.at, q, k)
       PROVE  ix[Up(h.at, k)] \in 1..(c - 1) /\ h.at[k].keys # {}
  BY <1>25, EntryElements DEF elems, a
<1>26. ASSUME NEW f \in E, NEW h \in E, NEW i \in Nat, Sibling(f.at, h.at, i),
              f.at[i].keys # {}, h.at[i].keys # {}, jx[Up(f.at, i)] = jx[Up(h.at, i)]
       PROVE  f.at[i] = h.at[i]
  <2>1. /\ i \in DOMAIN f.at /\ i \in DOMAIN h.at /\ Up(f.at, i - 1) = Up(h.at, i - 1)
        /\ f.at[i].name = h.at[i].name
    BY <1>26 DEF Sibling
  <2> DEFINE New(p) == /\ i = k /\ Up(p, k) = Up(q, k) /\ Up(p, k - 1) = Up(q, k - 1)
                       /\ p[k] = q[k] /\ jx[Up(p, k)] = c
             Old(p) == \E o \in D : /\ i \in DOMAIN o.at /\ Up(o.at, i) = Up(p, i)
                                    /\ Up(o.at, i - 1) = Up(p, i - 1) /\ o.at[i] = p[i]
                                    /\ ix[Up(o.at, i)] = jx[Up(p, i)]
  <2>2. (New(f.at) \/ Old(f.at)) /\ (New(h.at) \/ Old(h.at))
    BY <1>22, <1>26, <2>1
  <2>3. CASE New(f.at) /\ New(h.at)
    BY <2>3
  <2>4. ASSUME NEW x \in E, NEW y \in E, New(x.at), Old(y.at), jx[Up(x.at, i)] = jx[Up(y.at, i)],
               Up(x.at, i - 1) = Up(y.at, i - 1), x.at[i].name = y.at[i].name
        PROVE  FALSE
    <3>1. PICK o \in D : /\ i \in DOMAIN o.at /\ Up(o.at, i - 1) = Up(y.at, i - 1) /\ o.at[i] = y.at[i]
                         /\ ix[Up(o.at, i)] = jx[Up(y.at, i)]
      BY <2>4
    <3>2. Sibling(o.at, q, k)
      BY <1>3, <2>4, <3>1 DEF Sibling
    <3>3. ix[Up(o.at, k)] \in 1..(c - 1) /\ ix[Up(o.at, k)] = c
      BY <1>25, <2>4, <3>1, <3>2
    <3>4. QED BY <3>3
  <2>5. CASE Old(f.at) /\ Old(h.at)
    <3>1. PICK o \in D : /\ i \in DOMAIN o.at /\ Up(o.at, i - 1) = Up(f.at, i - 1) /\ o.at[i] = f.at[i]
                         /\ ix[Up(o.at, i)] = jx[Up(f.at, i)]
      BY <2>5
    <3>2. PICK r \in D : /\ i \in DOMAIN r.at /\ Up(r.at, i - 1) = Up(h.at, i - 1) /\ r.at[i] = h.at[i]
                         /\ ix[Up(r.at, i)] = jx[Up(h.at, i)]
      BY <2>5
    <3>3. Sibling(o.at, r.at, i)
      BY <2>1, <3>1, <3>2 DEF Sibling
    <3>4. o.at[i].keys # {} /\ r.at[i].keys # {} /\ ix[Up(o.at, i)] = ix[Up(r.at, i)]
      BY <1>26, <3>1, <3>2
    <3>5. \A x, y \in D : \A j \in Nat :
            /\ Sibling(x.at, y.at, j) /\ x.at[j].keys # {} /\ y.at[j].keys # {}
            /\ ix[Up(x.at, j)] = ix[Up(y.at, j)]
            => x.at[j] = y.at[j]
      BY <1>2 DEF Numbered
    <3>6. o.at[i] = r.at[i]
      BY <3>3, <3>4, <3>5
    <3>7. QED BY <3>1, <3>2, <3>6
  <2> HIDE DEF New, Old
  <2>6. CASE New(f.at) /\ Old(h.at)
    BY <1>26, <2>1, <2>4, <2>6
  <2>7. CASE Old(f.at) /\ New(h.at)
    BY <1>26, <2>1, <2>4, <2>7
  <2>8. QED BY <2>2, <2>3, <2>5, <2>6, <2>7
<1>27. ASSUME NEW f \in E, NEW i \in DOMAIN f.at, f.at[i].keys # {}, NEW m \in 1..jx[Up(f.at, i)]
       PROVE  \E h \in E : Sibling(f.at, h.at, i) /\ h.at[i].keys # {} /\ jx[Up(h.at, i)] = m
  <2>1. CASE /\ i = k /\ Up(f.at, k - 1) = Up(q, k - 1) /\ f.at[k] = q[k] /\ jx[Up(f.at, k)] = c
    <3>1. CASE m = c
      <4>1. Sibling(f.at, f.at, i)
        BY DEF Sibling
      <4>2. QED BY <1>27, <2>1, <3>1, <4>1
    <3>2. CASE m # c
      <4>1. m \in 1..(c - 1)
        BY <2>1, <3>2
      <4>2. PICK h \in D : Sibling(h.at, q, k) /\ h.at[k].keys # {} /\ m = ix[Up(h.at, k)]
        <5>1. m \in elems
          BY <4>1 DEF elems, a
        <5>2. QED BY <5>1, EntryElements DEF elems, a
      <4>3. k \in DOMAIN h.at /\ Sibling(f.at, h.at, k)
        BY <2>1, <4>2 DEF Sibling
      <4>4. jx[Up(h.at, k)] = m
        BY <1>11, <4>2, <4>3
      <4>5. QED BY <2>1, <4>2, <4>3, <4>4
    <3>3. QED BY <3>1, <3>2
  <2>2. CASE \E o \in D : /\ i \in DOMAIN o.at /\ Up(o.at, i - 1) = Up(f.at, i - 1) /\ o.at[i] = f.at[i]
                          /\ ix[Up(o.at, i)] = jx[Up(f.at, i)]
    <3>1. PICK o \in D : /\ i \in DOMAIN o.at /\ Up(o.at, i - 1) = Up(f.at, i - 1) /\ o.at[i] = f.at[i]
                         /\ ix[Up(o.at, i)] = jx[Up(f.at, i)]
      BY <2>2
    <3>2. o.at[i].keys # {} /\ m \in 1..ix[Up(o.at, i)]
      BY <1>27, <3>1
    <3>3. PICK h \in D : Sibling(o.at, h.at, i) /\ h.at[i].keys # {} /\ ix[Up(h.at, i)] = m
      BY <1>2, <3>1, <3>2 DEF Numbered
    <3>4. i \in DOMAIN h.at /\ Sibling(f.at, h.at, i)
      BY <3>1, <3>3 DEF Sibling
    <3>5. jx[Up(h.at, i)] = m
      BY <1>11, <3>3, <3>4
    <3>6. QED BY <3>3, <3>4, <3>5
  <2>3. QED BY <1>22, <1>27, <2>1, <2>2
<1>28. Numbered(E, jx)
  BY <1>24, <1>26, <1>27 DEF Numbered
<1>29. Represents(t, F, E, jx)
  <2>1. E \subseteq F
    BY <1>21
  <2>2. QED BY <1>2, <1>7, <1>16, <1>18, <1>19, <1>23, <1>28, <2>1 DEF Represents
<1>30. Walked(E, q, k)
  <2>1. ASSUME NEW i \in 1..k, q[i].keys # {}
        PROVE  \E h \in E : i \in DOMAIN h.at /\ Up(h.at, i) = Up(q, i)
    <3>1. CASE i = k
      BY <1>1, <1>2, <1>8, <3>1
    <3>2. CASE i # k
      <4>1. i \in 1..(k - 1)
        BY <1>2, <3>2
      <4>2. QED BY <1>1, <2>1, <4>1 DEF Walked
    <3>3. QED BY <3>1, <3>2
  <2>2. QED BY <2>1 DEF Walked
<1>31. At(jx, q, k) = Append(At(ix, q, k - 1), <<q[k].name, c>>)
  BY <1>12 DEF at, a
<1>32. D \subseteq E
  OBVIOUS
<1> HIDE DEF E, q
<1>33. QED BY <1>29, <1>30, <1>31, <1>32 DEF Reached, q


\* A list segment leads into the entry that it names.
LEMMA KeyedEntered ==
  ASSUME NEW pos, NEW F, NEW D, NEW ix, NEW g, NEW k, NEW kv, AtEntry(pos.tree, F, D, ix, g, k, kv),
         pos.at = At(ix, g.at, k - 1), NEW seg, seg.name = g.at[k].name, seg.sel[1] = kv
  PROVE  Reached(F, g, D, k, EnterElement(pos, seg))
<1> DEFINE tree  == pos.tree
           a     == At(ix, g.at, k - 1)
           nm    == g.at[k].name
           U     == Under(tree, a, nm)
           elems == Elements(tree, a, nm)
           key(i) == a \o << <<nm, i>>, <<kv[1], 0>> >>
           found == {i \in elems : key(i) \in DOMAIN tree /\ tree[key(i)] = kv[2]}
           base  == IF elems # {} THEN tree ELSE Without(tree, U)
           n     == IF found # {} THEN Min(found) ELSE Cardinality(elems) + 1
           at    == Append(a, <<nm, n>>)
           r     == EnterElement(pos, seg)
<1>1. r = [at |-> at, tree |-> IF found # {} THEN base ELSE Assign(base, at, kv[1], <<>>, kv[2])]
  BY DEF EnterElement
<1>2. /\ Represents(tree, F, D, ix) /\ g \in F /\ k \in 1..Len(g.at) /\ g.at[k].keys = {kv}
      /\ Walked(D, g.at, k - 1)
  BY DEF AtEntry
<1>3. /\ Coherent(F) /\ D \subseteq F /\ ix \in [Seq(Element) -> Nat] /\ TreeOK(tree) /\ k \in Nat
  BY <1>2 DEF Represents
<1>4. /\ g.at \in Seq(Element) /\ Len(g.at) \in Nat /\ k - 1 \in 0..Len(g.at) /\ g.at[k] \in Element
  BY <1>2, <1>3, FactPlace
<1>5. kv[1] \in STRING /\ nm \in STRING
  <2>1. kv \in STRING \X STRING /\ nm \in STRING
    BY <1>2, <1>4 DEF Element
  <2>2. QED BY <2>1
<1>6. a \in Position
  BY <1>3, <1>4, AtElements
<1>7. /\ elems = 1..Cardinality(elems) /\ Cardinality(elems) \in Nat
      /\ U # {} => elems # {}
  BY EntryElements
<1>8. /\ InTree(D, g.at, k) => found = {ix[Up(g.at, k)]}
      /\ ~InTree(D, g.at, k) => found = {}
  BY FoundEntry
<1> HIDE DEF found, elems, U, key
<1>9. SameTree(base, tree) /\ TreeOK(base)
  <2>1. SameTree(base, tree)
    BY <1>7, WithoutNothing
  <2> HIDE DEF base
  <2>2. QED BY <1>3, <2>1 DEF SameTree, TreeOK
<1> HIDE DEF base, a
<1>10. CASE InTree(D, g.at, k)
  <2>1. r.tree = base /\ r.at = at
    <3>1. found # {}
      BY <1>8, <1>10
    <3> HIDE DEF at, r
    <3>2. r = [at |-> at, tree |-> base]
      BY <1>1, <3>1
    <3>3. QED BY <3>2
  <2>2. n = ix[Up(g.at, k)]
    <3> DEFINE m == ix[Up(g.at, k)]
    <3>1. found = {m}
      BY <1>8, <1>10
    <3>2. m \in Nat
      <4>1. k \in 0..Len(g.at)
        BY <1>2, <1>4
      <4>2. QED BY <1>3, <1>4, <4>1, UpElements
    <3> HIDE DEF m
    <3>3. Min({m}) = m
      <4>1. {m} \in SUBSET Nat /\ {m} # {}
        BY <3>2
      <4>2. Min({m}) \in {m}
        BY <4>1, MinOfNumbers
      <4>3. QED BY <4>2
    <3>4. QED BY <3>1, <3>3 DEF m
  <2>3. r.at = At(ix, g.at, k)
    <3>1. Number(ix, g.at, k) = n
      BY <1>2, <2>2 DEF Number
    <3>2. QED BY <1>2, <1>3, <1>4, <2>1, <3>1, AtNext DEF a
  <2>4. Represents(r.tree, F, D, ix)
    BY <1>2, <1>9, <2>1, RepresentsSame
  <2>5. Walked(D, g.at, k)
    <3>1. ASSUME NEW i \in 1..k, g.at[i].keys # {}
          PROVE  \E h \in D : i \in DOMAIN h.at /\ Up(h.at, i) = Up(g.at, i)
      <4>1. CASE i = k
        BY <1>10, <4>1 DEF InTree
      <4>2. CASE i # k
        <5>1. i \in 1..(k - 1)
          BY <1>3, <4>2
        <5>2. QED BY <1>2, <3>1, <5>1 DEF Walked
      <4>3. QED BY <4>1, <4>2
    <3>2. QED BY <3>1 DEF Walked
  <2> HIDE DEF r
  <2>6. QED BY <2>3, <2>4, <2>5 DEF Reached, r
<1>11. CASE ~InTree(D, g.at, k)
  <2> DEFINE c == Cardinality(elems) + 1
             t == Assign(base, Append(a, <<nm, c>>), kv[1], <<>>, kv[2])
  <2>1. c \in Nat /\ c > 0 /\ elems = 1..(c - 1) /\ n = c
    BY <1>7, <1>8, <1>11
  <2>2. r.tree = t /\ r.at = Append(a, <<nm, c>>)
    BY <1>1, <1>8, <1>11
  <2>3. Append(a, <<nm, c>>) \in Position
    BY <1>5, <1>6, <2>1, StepNamesNext
  <2>4. <<>> \in Seq(STRING)
    OBVIOUS
  <2> HIDE DEF c, r
  <2>5. Assigned(base, Append(a, <<nm, c>>), kv[1], <<>>, kv[2], t)
    BY <1>5, <1>9, <2>3, <2>4, AssignEffect
  <2> HIDE DEF t
  <2>6. Appended(tree, F, D, ix, g, k, kv, c, t)
    BY <1>9, <1>11, <2>1, <2>5 DEF Appended, a, elems
  <2>7. Reached(F, g, D, k, [tree |-> t, at |-> Append(a, <<nm, c>>)])
    BY <2>6, EntryAdded DEF a
  <2>8. Reached(F, g, D, k, r)
    BY <2>2, <2>7 DEF Reached
  <2>9. QED BY <2>8 DEF r
<1>12. QED BY <1>10, <1>11

\* A segment leads to the next element of the place of g.
LEMMA SegmentEntered ==
  ASSUME NEW F, NEW g \in F, NEW D, NEW k \in 1..Len(g.at), NEW pos, Reached(F, g, D, k - 1, pos),
         NEW seg \in Segment, seg.name = g.at[k].name, ToSet(seg.sel) = g.at[k].keys,
         seg.sel # <<>> \/ k < Len(g.at)
  PROVE  Reached(F, g, D, k, Enter(pos, seg))
<1>1. PICK E, ix : /\ Represents(pos.tree, F, E, ix) /\ D \subseteq E
                   /\ Walked(E, g.at, k - 1) /\ pos.at = At(ix, g.at, k - 1)
  BY DEF Reached
<1>2. Coherent(F) /\ E \subseteq F
  BY <1>1 DEF Represents
<1>3. g.at \in Seq(Element) /\ DOMAIN g.at = 1..Len(g.at) /\ Len(g.at) \in Nat
  BY <1>2, FactPlace
<1>4. seg.sel \in Seq(STRING \X STRING)
  BY DEF Segment
<1>5. CASE seg.sel = <<>>
  <2> DEFINE r == EnterMap(pos, seg)
  <2>1. g.at[k].keys = {} /\ k < Len(g.at)
    BY <1>5 DEF ToSet
  <2>2. r = EnterMap([tree |-> pos.tree, at |-> At(ix, g.at, k - 1)], seg)
    BY <1>1 DEF EnterMap
  <2>3. Represents(r.tree, F, E, ix) /\ r.at = At(ix, g.at, k)
    <3> HIDE DEF r
    <3> QED BY <1>1, <2>1, <2>2, PlainEntered
  <2>4. Walked(E, g.at, k)
    <3>1. \A i \in 1..k : i \in 1..(k - 1) \/ i = k
      BY <1>3
    <3>2. QED BY <1>1, <2>1, <3>1 DEF Walked
  <2>5. Reached(F, g, D, k, r)
    <3> HIDE DEF r
    <3> QED BY <1>1, <2>3, <2>4 DEF Reached
  <2>6. QED BY <1>5, <2>5 DEF Enter
<1>6. CASE seg.sel # <<>>
  <2> DEFINE kv == seg.sel[1]
             r  == EnterElement(pos, seg)
  <2>1. kv \in ToSet(seg.sel)
    BY <1>4, <1>6 DEF ToSet
  <2>2. g.at[k].keys = {kv}
    <3>1. kv \in g.at[k].keys
      BY <2>1
    <3>2. \A x \in F : \A i \in DOMAIN x.at : \A e, h \in x.at[i].keys : e = h
      BY <1>2 DEF Coherent
    <3>3. \A e \in g.at[k].keys : e = kv
      BY <1>3, <3>1, <3>2
    <3>4. QED BY <3>1, <3>3
  <2>3. AtEntry(pos.tree, F, E, ix, g, k, kv)
    BY <1>1, <2>2 DEF AtEntry
  <2>4. Reached(F, g, E, k, r)
    <3> HIDE DEF r
    <3>1. kv = seg.sel[1]
      OBVIOUS
    <3> HIDE DEF kv
    <3>2. QED BY <1>1, <2>3, <3>1, KeyedEntered DEF r
  <2>5. PICK B, jx : /\ Represents(r.tree, F, B, jx) /\ E \subseteq B
                     /\ Walked(B, g.at, k) /\ r.at = At(jx, g.at, k)
    <3> HIDE DEF r
    <3> QED BY <2>4 DEF Reached
  <2>6. Reached(F, g, D, k, r)
    <3>1. D \subseteq B
      BY <1>1, <2>5
    <3> HIDE DEF r
    <3>2. QED BY <2>5, <3>1 DEF Reached
  <2>7. QED BY <1>6, <2>6 DEF Enter
<1>7. QED BY <1>5, <1>6


\* The segments s name the first elements of the place of g, but not the last.
Leads(s, g) ==
  /\ s \in Path /\ Len(s) < Len(g.at)
  /\ \A i \in 1..Len(s) : s[i].name = g.at[i].name /\ ToSet(s[i].sel) = g.at[i].keys

Descended(base, s, k, pos) ==
  \A F, D : \A g \in F : Leads(s, g) /\ Reached(F, g, D, 0, base) => Reached(F, g, D, k, pos)

Descent == INSTANCE Loops WITH Op <- Enter, Inv <- Descended

\* The way down to the last segment.
LEMMA WayReached ==
  ASSUME NEW F, NEW D, NEW g \in F, NEW s, Leads(s, g), NEW base, Reached(F, g, D, 0, base)
  PROVE  Reached(F, g, D, Len(s), FoldLeft(Enter, base, s))
<1>1. Descent!FoldLeft(Enter, base, s) = FoldLeft(Enter, base, s)
  BY DEF Descent!FoldLeft, Descent!MapThenFoldSet, Descent!Max, FoldLeft, MapThenFoldSet, Max
<1>2. DOMAIN s = 1..Len(s) /\ Len(s) \in Nat
  BY DEF Leads, Path
<1>3. Descended(base, s, 0, base)
  BY DEF Descended
<1>4. ASSUME NEW k \in 1..Len(s), NEW pos, Descended(base, s, k - 1, pos)
      PROVE  Descended(base, s, k, Enter(pos, s[k]))
  <2>1. SUFFICES ASSUME NEW B, NEW E, NEW h \in B, Leads(s, h), Reached(B, h, E, 0, base)
                 PROVE  Reached(B, h, E, k, Enter(pos, s[k]))
    BY DEF Descended
  <2>2. Reached(B, h, E, k - 1, pos)
    BY <1>4, <2>1 DEF Descended
  <2>3. Len(h.at) \in Nat
    <3>1. Coherent(B)
      BY <2>2 DEF Reached, Represents
    <3>2. QED BY <3>1, FactPlace
  <2>4. /\ s[k] \in Segment /\ k \in 1..Len(h.at) /\ k < Len(h.at)
        /\ s[k].name = h.at[k].name /\ ToSet(s[k].sel) = h.at[k].keys
    BY <1>2, <2>1, <2>3 DEF Leads, Path
  <2>5. QED BY <2>2, <2>4, SegmentEntered
<1>5. Descended(base, s, Len(s), Descent!FoldLeft(Enter, base, s))
  BY <1>2, <1>3, <1>4, Descent!FoldInvariant
<1>6. QED BY <1>1, <1>5 DEF Descended

\* The list entries on the places of E are on places of D.
EntriesKnown(D, E) ==
  \A f \in E : \A i \in DOMAIN f.at : f.at[i].keys # {} =>
    \E h \in D : /\ i \in DOMAIN h.at /\ Up(h.at, i) = Up(f.at, i)
                 /\ Up(h.at, i - 1) = Up(f.at, i - 1) /\ h.at[i] = f.at[i]

\* More facts about the same entries.
LEMMA MoreNumbered ==
  ASSUME NEW D, NEW E, D \subseteq E, EntriesKnown(D, E), NEW ix, Numbered(D, ix)
  PROVE  Numbered(E, ix)
<1>1. ASSUME NEW f \in E, NEW i \in DOMAIN f.at, f.at[i].keys # {}
      PROVE  \E h \in D : /\ i \in DOMAIN h.at /\ Up(h.at, i) = Up(f.at, i)
                          /\ Up(h.at, i - 1) = Up(f.at, i - 1) /\ h.at[i] = f.at[i]
  BY <1>1 DEF EntriesKnown
<1>2. ASSUME NEW f \in E, NEW i \in DOMAIN f.at, f.at[i].keys # {}
      PROVE  ix[Up(f.at, i)] > 0
  <2>1. PICK h \in D : i \in DOMAIN h.at /\ Up(h.at, i) = Up(f.at, i) /\ h.at[i] = f.at[i]
    BY <1>1, <1>2
  <2>2. ix[Up(h.at, i)] > 0
    BY <1>2, <2>1 DEF Numbered
  <2>3. QED BY <2>1, <2>2
<1>3. ASSUME NEW f \in E, NEW g \in E, NEW i \in Nat, Sibling(f.at, g.at, i),
             f.at[i].keys # {}, g.at[i].keys # {}, ix[Up(f.at, i)] = ix[Up(g.at, i)]
      PROVE  f.at[i] = g.at[i]
  <2>1. /\ i \in DOMAIN f.at /\ i \in DOMAIN g.at /\ Up(f.at, i - 1) = Up(g.at, i - 1)
        /\ f.at[i].name = g.at[i].name
    BY <1>3 DEF Sibling
  <2>2. PICK o \in D : /\ i \in DOMAIN o.at /\ Up(o.at, i) = Up(f.at, i)
                       /\ Up(o.at, i - 1) = Up(f.at, i - 1) /\ o.at[i] = f.at[i]
    BY <1>1, <1>3, <2>1
  <2>3. PICK r \in D : /\ i \in DOMAIN r.at /\ Up(r.at, i) = Up(g.at, i)
                       /\ Up(r.at, i - 1) = Up(g.at, i - 1) /\ r.at[i] = g.at[i]
    BY <1>1, <1>3, <2>1
  <2>4. Sibling(o.at, r.at, i)
    BY <2>1, <2>2, <2>3 DEF Sibling
  <2>5. o.at[i].keys # {} /\ r.at[i].keys # {} /\ ix[Up(o.at, i)] = ix[Up(r.at, i)]
    BY <1>3, <2>2, <2>3
  <2>6. \A x, y \in D : \A j \in Nat :
          /\ Sibling(x.at, y.at, j) /\ x.at[j].keys # {} /\ y.at[j].keys # {}
          /\ ix[Up(x.at, j)] = ix[Up(y.at, j)]
          => x.at[j] = y.at[j]
    BY DEF Numbered
  <2>7. o.at[i] = r.at[i]
    BY <2>4, <2>5, <2>6
  <2>8. QED BY <2>2, <2>3, <2>7
<1>4. ASSUME NEW f \in E, NEW i \in DOMAIN f.at, f.at[i].keys # {}, NEW m \in 1..ix[Up(f.at, i)]
      PROVE  \E g \in E : Sibling(f.at, g.at, i) /\ g.at[i].keys # {} /\ ix[Up(g.at, i)] = m
  <2>1. PICK o \in D : /\ i \in DOMAIN o.at /\ Up(o.at, i) = Up(f.at, i)
                       /\ Up(o.at, i - 1) = Up(f.at, i - 1) /\ o.at[i] = f.at[i]
    BY <1>1, <1>4
  <2>2. o.at[i].keys # {} /\ m \in 1..ix[Up(o.at, i)]
    BY <1>4, <2>1
  <2>3. PICK g \in D : Sibling(o.at, g.at, i) /\ g.at[i].keys # {} /\ ix[Up(g.at, i)] = m
    BY <2>1, <2>2 DEF Numbered
  <2>4. Sibling(f.at, g.at, i)
    BY <2>1, <2>3 DEF Sibling
  <2>5. QED BY <2>3, <2>4
<1>5. QED BY <1>2, <1>3, <1>4 DEF Numbered

\* The fact g may be assigned at its k-th element: the rest of its place is
\* no list entry, and no other fact is there.
Assignable(tree, F, D, ix, g, k, below) ==
  /\ Represents(tree, F, D, ix) /\ g \in F /\ k \in 1..Len(g.at) /\ Walked(D, g.at, k - 1)
  /\ \A i \in k..Len(g.at) : g.at[i].keys = {}
  /\ \A f \in F : k \in DOMAIN f.at /\ Up(f.at, k) = Up(g.at, k) => f = g
  /\ below \in Seq(STRING) /\ Len(g.at) = k + Len(below)
  /\ \A i \in 1..Len(below) : g.at[k + i].name = below[i]

\* The value is put at the position of its place.
LEMMA AssignedPlace ==
  ASSUME NEW tree, NEW F, NEW D, NEW ix, NEW g, NEW k, NEW below,
         Assignable(tree, F, D, ix, g, k, below)
  PROVE  PlaceOf(At(ix, g.at, k - 1), g.at[k].name, below) = At(ix, g.at, Len(g.at))
<1> DEFINE q  == g.at
           n  == Len(q)
           a  == At(ix, q, k - 1)
           b  == At(ix, q, n)
           e  == <<q[k].name, 0>>
           x  == Append(a, e)
           y  == Plain(below)
           z  == x \o y
<1>1. /\ Represents(tree, F, D, ix) /\ g \in F /\ k \in 1..n
      /\ (\A i \in k..n : q[i].keys = {})
      /\ below \in Seq(STRING) /\ n = k + Len(below)
      /\ \A i \in 1..Len(below) : q[k + i].name = below[i]
  BY DEF Assignable
<1>2. Coherent(F) /\ ix \in [Seq(Element) -> Nat]
  BY <1>1 DEF Represents
<1>3. q \in Seq(Element) /\ n \in Nat /\ k \in Nat /\ k > 0 /\ k - 1 \in 0..n /\ n \in 0..n /\ Len(below) \in Nat
  BY <1>1, <1>2, FactPlace
<1>4. /\ b \in Seq(Step) /\ Len(b) = n
      /\ \A i \in 1..n : b[i] = <<q[i].name, Number(ix, q, i)>> /\ q[i].name \in STRING
  BY <1>2, <1>3, AtElements DEF Position
<1>5. /\ a \in Seq(Step) /\ Len(a) = k - 1
      /\ \A i \in 1..(k - 1) : a[i] = <<q[i].name, Number(ix, q, i)>>
  BY <1>2, <1>3, AtElements DEF Position
<1>6. \A i \in k..n : Number(ix, q, i) = 0
  BY <1>1 DEF Number
<1>7. e \in Step
  BY <1>1, <1>4 DEF Step
<1> HIDE DEF a, b, e
<1>8. /\ x \in Seq(Step) /\ Len(x) = k /\ x[k] = e /\ \A i \in 1..(k - 1) : x[i] = a[i]
  BY <1>3, <1>5, <1>7
<1>9. /\ y \in Seq(Step) /\ Len(y) = Len(below) /\ \A i \in 1..Len(below) : y[i] = <<below[i], 0>>
  BY <1>1, PlainPosition DEF Position
<1> HIDE DEF x, y
<1>10. /\ z \in Seq(Step) /\ Len(z) = n
       /\ (\A i \in 1..k : z[i] = x[i]) /\ \A i \in 1..Len(below) : z[k + i] = y[i]
  <2>1. /\ z \in Seq(Step) /\ Len(z) = Len(x) + Len(y)
        /\ (\A i \in 1..Len(x) : z[i] = x[i]) /\ \A i \in 1..Len(y) : z[Len(x) + i] = y[i]
    BY <1>8, <1>9, JoinedElements
  <2> HIDE DEF z
  <2>2. QED BY <1>1, <1>8, <1>9, <2>1
<1> HIDE DEF z
<1>11. ASSUME NEW i \in 1..n PROVE z[i] = b[i]
  <2>1. CASE i \in 1..(k - 1)
    <3>1. i \in 1..k
      BY <1>3, <2>1
    <3>2. QED BY <1>4, <1>5, <1>8, <1>10, <2>1, <3>1
  <2>2. CASE i = k
    <3>1. z[k] = e /\ b[k] = <<q[k].name, 0>>
      <4>1. k \in 1..k /\ k \in k..n
        BY <1>1, <1>3
      <4>2. QED BY <1>1, <1>4, <1>6, <1>8, <1>10, <4>1
    <3>2. QED BY <2>2, <3>1 DEF e
  <2>3. CASE i \in (k + 1)..n
    <3>1. PICK j \in 1..Len(below) : i = k + j
      <4>1. i - k \in 1..Len(below) /\ i = k + (i - k)
        BY <1>1, <1>3, <2>3
      <4>2. QED BY <4>1
    <3>2. i \in k..n
      BY <1>3, <2>3
    <3>3. z[i] = <<below[j], 0>> /\ q[i].name = below[j]
      BY <1>1, <1>9, <1>10, <3>1
    <3>4. QED BY <1>4, <1>6, <3>2, <3>3
  <2>4. i \in 1..(k - 1) \/ i = k \/ i \in (k + 1)..n
    BY <1>3
  <2>5. QED BY <2>1, <2>2, <2>3, <2>4
<1>12. z = b
  BY <1>3, <1>4, <1>10, <1>11, SameElements
<1>13. QED BY <1>12 DEF PlaceOf, z, x, y, a, b, e


\* The tree with the fact g.
LEMMA FactAssigned ==
  ASSUME NEW tree, NEW F, NEW D, NEW ix, NEW g, NEW k, NEW below,
         Assignable(tree, F, D, ix, g, k, below)
  PROVE  Represents(Assign(tree, At(ix, g.at, k - 1), g.at[k].name, below, g.val), F, D \cup {g}, ix)
<1> DEFINE q     == g.at
           n     == Len(q)
           a     == At(ix, q, k - 1)
           nm    == q[k].name
           U     == Under(tree, a, nm)
           new   == Assign(tree, a, nm, below, g.val)
           place == At(ix, q, n)
           E     == D \cup {g}
<1>1. /\ Represents(tree, F, D, ix) /\ g \in F /\ k \in 1..n /\ Walked(D, q, k - 1)
      /\ (\A i \in k..n : q[i].keys = {})
      /\ (\A f \in F : k \in DOMAIN f.at /\ Up(f.at, k) = Up(q, k) => f = g)
      /\ below \in Seq(STRING)
  BY DEF Assignable
<1>2. /\ Coherent(F) /\ D \subseteq F /\ ix \in [Seq(Element) -> Nat] /\ TreeOK(tree)
      /\ DOMAIN tree = {At(ix, f.at, Len(f.at)) : f \in D}
      /\ (\A f \in D : tree[At(ix, f.at, Len(f.at))] = f.val)
      /\ (\A f \in D : \A i \in DOMAIN f.at : \A kv \in f.at[i].keys :
            \E h \in D : h.at = KeyPlace(Up(f.at, i), kv) /\ h.val = kv[2])
      /\ Numbered(D, ix)
  BY <1>1 DEF Represents
<1>3. /\ q \in Seq(Element) /\ n \in Nat /\ k \in Nat /\ k - 1 \in 0..n /\ n \in 0..n
      /\ DOMAIN q = 1..n /\ q[k] \in Element
  BY <1>1, <1>2, FactPlace
<1>4. a \in Position /\ place \in Position /\ Len(place) = n
      /\ \A i \in 1..n : place[i] = <<q[i].name, Number(ix, q, i)>>
  BY <1>2, <1>3, AtElements
<1>5. nm \in STRING
  BY <1>3 DEF Element
<1>6. PlaceOf(a, nm, below) = place
  BY AssignedPlace
<1>a. \A p \in U : \E f \in D : Sibling(f.at, q, k) /\ p = At(ix, f.at, Len(f.at))
  <2>1. /\ Represents(tree, F, D, ix) /\ g \in F /\ k \in 1..Len(g.at) /\ Walked(D, g.at, k - 1)
    BY <1>1
  <2>2. \A p \in U : \E f \in D :
          /\ Sibling(f.at, g.at, k) /\ p = At(ix, f.at, Len(f.at))
          /\ p[k][2] = Number(ix, f.at, k) /\ Len(p) = Len(f.at)
    BY <2>1, UnderFacts
  <2> HIDE DEF U
  <2>3. QED BY <2>2
<1> HIDE DEF a, place, nm, U
<1>7. Assigned(tree, a, nm, below, g.val, new)
  BY <1>1, <1>2, <1>4, <1>5, AssignEffect
<1> HIDE DEF new
<1>8. /\ TreeOK(new) /\ DOMAIN new = {place} \cup (DOMAIN tree \ U) /\ new[place] = g.val
      /\ \A p \in DOMAIN new : p # place => p \in DOMAIN tree /\ new[p] = tree[p]
  BY <1>6, <1>7 DEF Assigned, U
<1>9. U \subseteq {place}
  <2>1. ASSUME NEW p \in U PROVE p = place
    <3>1. PICK f \in D : Sibling(f.at, q, k) /\ p = At(ix, f.at, Len(f.at))
      BY <1>a
    <3>2. f \in F /\ k \in DOMAIN f.at /\ k \in k..n
      BY <1>1, <1>2, <1>3, <3>1 DEF Sibling
    <3>3. Up(f.at, k) = Up(q, k)
      <4>1. f.at[k].keys = {} <=> q[k].keys = {}
        BY <1>1, <1>2, <1>3, <3>1, <3>2, SiblingKinds
      <4>2. f.at[k].keys = {} => Up(f.at, k) = Up(q, k)
        BY <1>1, <1>2, <1>3, <3>1, <3>2, SiblingKinds
      <4>3. QED BY <1>1, <3>2, <4>1, <4>2
    <3>4. f = g
      BY <1>1, <3>2, <3>3
    <3>5. QED BY <3>1, <3>4 DEF place
  <2>2. QED BY <2>1
<1>10. DOMAIN new = {place} \cup DOMAIN tree
  BY <1>8, <1>9
<1>11. ASSUME NEW i \in DOMAIN q, q[i].keys # {}
       PROVE  \E h \in D : /\ i \in DOMAIN h.at /\ Up(h.at, i) = Up(q, i)
                           /\ Up(h.at, i - 1) = Up(q, i - 1) /\ h.at[i] = q[i]
  <2>1. i \in 1..(k - 1) /\ i \in 1..n
    <3>1. ~(i \in k..n)
      BY <1>1, <1>11
    <3>2. QED BY <1>3, <3>1
  <2>2. PICK h \in D : i \in DOMAIN h.at /\ Up(h.at, i) = Up(q, i)
    BY <1>1, <1>11, <2>1 DEF Walked
  <2>3. h.at \in Seq(Element) /\ i \in 1..Len(h.at) /\ i <= n
    <3>1. h \in F
      BY <1>2
    <3>2. QED BY <1>2, <1>3, <2>1, <2>2, <3>1, FactPlace
  <2>4. Up(h.at, i - 1) = Up(q, i - 1) /\ h.at[i] = q[i]
    BY <1>3, <2>2, <2>3, UpNext
  <2>5. QED BY <2>2, <2>4
\* No other fact of the tree has the position of g.
<1>12. ASSUME NEW f \in D, At(ix, f.at, Len(f.at)) = place PROVE f = g
  <2> DEFINE m == Len(f.at)
             p == At(ix, f.at, m)
  <2>1. f \in F /\ f.at \in Seq(Element) /\ m \in Nat /\ m \in 0..m
    BY <1>2, FactPlace
  <2>2. /\ p \in Position /\ Len(p) = m
        /\ \A i \in 1..m : p[i] = <<f.at[i].name, Number(ix, f.at, i)>>
    BY <1>2, <2>1, AtElements
  <2>3. p = place /\ m = n
    BY <1>4, <1>12, <2>2
  <2> HIDE DEF p
  <2>4. \A i \in 1..n : f.at[i].name = q[i].name /\ Number(ix, f.at, i) = Number(ix, q, i)
    <3>1. ASSUME NEW i \in 1..n
          PROVE  f.at[i].name = q[i].name /\ Number(ix, f.at, i) = Number(ix, q, i)
      <4>1. <<f.at[i].name, Number(ix, f.at, i)>> = <<q[i].name, Number(ix, q, i)>>
        BY <1>4, <2>2, <2>3
      <4>2. QED BY <4>1
    <3>2. QED BY <3>1
  <2>5. Walked(D, q, n)
    BY <1>3, <1>11 DEF Walked
  <2>6. Up(f.at, n) = Up(q, n)
    <3>1. /\ Represents(tree, F, D, ix) /\ f \in D /\ g \in F /\ n \in Nat
          /\ n <= Len(f.at) /\ n <= Len(g.at) /\ Walked(D, g.at, n)
          /\ \A i \in 1..n : f.at[i].name = g.at[i].name /\ Number(ix, f.at, i) = Number(ix, g.at, i)
      BY <1>1, <1>3, <2>3, <2>4, <2>5
    <3> HIDE DEF n
    <3>2. QED BY <3>1, SamePlace
  <2>7. IsPrefix(f.at, q)
    BY <1>3, <2>1, <2>3, <2>6, UpPrefix
  <2>8. QED BY <1>1, <1>2, <2>1, <2>7 DEF Coherent
<1>13. DOMAIN new = {At(ix, f.at, Len(f.at)) : f \in E}
  <2>1. DOMAIN new = {place} \cup {At(ix, f.at, Len(f.at)) : f \in D}
    BY <1>2, <1>10
  <2>2. QED BY <2>1 DEF place
<1>14. ASSUME NEW f \in E PROVE new[At(ix, f.at, Len(f.at))] = f.val
  <2>1. CASE f = g
    BY <1>8, <2>1 DEF place
  <2>2. CASE f # g
    <3> DEFINE p == At(ix, f.at, Len(f.at))
    <3>1. f \in D /\ p # place
      BY <1>12, <2>2
    <3>2. p \in DOMAIN tree /\ tree[p] = f.val
      BY <1>2, <3>1
    <3> HIDE DEF p
    <3>3. new[p] = f.val
      BY <1>8, <1>10, <3>1, <3>2
    <3>4. QED BY <3>3 DEF p
  <2>3. QED BY <2>1, <2>2
<1>15. EntriesKnown(D, E)
  <2>1. ASSUME NEW f \in E, NEW i \in DOMAIN f.at, f.at[i].keys # {}
        PROVE  \E h \in D : /\ i \in DOMAIN h.at /\ Up(h.at, i) = Up(f.at, i)
                            /\ Up(h.at, i - 1) = Up(f.at, i - 1) /\ h.at[i] = f.at[i]
    <3>1. CASE f \in D
      BY <3>1
    <3>2. CASE f = g
      BY <1>11, <2>1, <3>2
    <3>3. QED BY <3>1, <3>2
  <2>2. QED BY <2>1 DEF EntriesKnown
<1>16. ASSUME NEW f \in E, NEW i \in DOMAIN f.at, NEW kv \in f.at[i].keys
       PROVE  \E h \in E : h.at = KeyPlace(Up(f.at, i), kv) /\ h.val = kv[2]
  <2>1. PICK h \in D : i \in DOMAIN h.at /\ Up(h.at, i) = Up(f.at, i) /\ h.at[i] = f.at[i]
    <3>1. f.at[i].keys # {}
      BY <1>16
    <3> HIDE DEF E
    <3>2. QED BY <1>15, <1>16, <3>1 DEF EntriesKnown
  <2>2. kv \in h.at[i].keys
    BY <1>16, <2>1
  <2>3. PICK o \in D : o.at = KeyPlace(Up(h.at, i), kv) /\ o.val = kv[2]
    BY <1>2, <2>1, <2>2
  <2>4. QED BY <2>1, <2>3
<1>17. Numbered(E, ix)
  BY <1>2, <1>15, MoreNumbered
<1>18. E \subseteq F
  BY <1>1, <1>2
<1> HIDE DEF E
<1>19. Represents(new, F, E, ix)
  BY <1>2, <1>8, <1>13, <1>14, <1>16, <1>17, <1>18 DEF Represents
<1>20. QED BY <1>19 DEF new, E, a, nm

\* Update u reports the fact g.
Reports(u, g) ==
  /\ u.path \in Path /\ u.path # <<>> /\ u.below \in Seq(STRING)
  /\ g.at \in Seq(Element) /\ Len(g.at) = Len(u.path) + Len(u.below) /\ g.val = u.val
  /\ \A i \in 1..Len(u.path) : u.path[i].name = g.at[i].name /\ ToSet(u.path[i].sel) = g.at[i].keys
  /\ \A i \in 1..Len(u.below) : g.at[Len(u.path) + i] = [name |-> u.below[i], keys |-> {}]
  /\ Last(u.path).sel # <<>> => u.below # <<>>

\* No other fact is where the code assigns the value of u.
Alone(F, u, g) ==
  LET k == IF Last(u.path).sel = <<>> THEN Len(u.path) ELSE Len(u.path) + 1
  IN  \A f \in F : k \in DOMAIN f.at /\ Up(f.at, k) = Up(g.at, k) => f = g

\* The tree holds the facts D at least.
HasFacts(tree, F, D) == \E E, ix : Represents(tree, F, E, ix) /\ D \subseteq E

\* setNestedValue keeps what the tree holds, and adds what the update reports.
LEMMA UpdateFolded ==
  ASSUME NEW F, NEW D, NEW tree, HasFacts(tree, F, D), NEW g \in F, NEW u, Reports(u, g), Alone(F, u, g)
  PROVE  HasFacts(setNestedValue(tree, u.path, u.below, u.val), F, D \cup {g})
<1> DEFINE parts == u.path
           n     == Len(parts)
           front == Front(parts)
           base  == [tree |-> tree, at |-> <<>>]
           here  == FoldLeft(Enter, base, front)
           last  == Last(parts)
           elem  == EnterElement(here, last)
           new   == setNestedValue(tree, parts, u.below, u.val)
<1>1. /\ parts \in Path /\ parts # <<>> /\ u.below \in Seq(STRING) /\ Len(u.below) \in Nat
      /\ g.at \in Seq(Element) /\ Len(g.at) = n + Len(u.below) /\ g.val = u.val
      /\ (\A i \in 1..n : parts[i].name = g.at[i].name /\ ToSet(parts[i].sel) = g.at[i].keys)
      /\ (\A i \in 1..Len(u.below) : g.at[n + i] = [name |-> u.below[i], keys |-> {}])
      /\ (last.sel # <<>> => u.below # <<>>)
  BY DEF Reports
<1>2. /\ front \in Path /\ Len(front) = n - 1 /\ n > 0 /\ n \in Nat
      /\ (\A i \in 1..(n - 1) : front[i] = parts[i]) /\ last = parts[n] /\ last \in Segment
  <2>1. parts \in Seq(Segment) /\ parts # <<>>
    BY <1>1 DEF Path
  <2>2. n \in Nat
    BY <2>1
  <2> HIDE DEF parts
  <2>3. QED BY <2>1, <2>2, FrontElements DEF Path
<1>a. \A i \in 1..Len(u.below) : g.at[n + i].keys = {} /\ g.at[n + i].name = u.below[i]
  <2>1. \A i \in 1..Len(u.below) : g.at[n + i] = [name |-> u.below[i], keys |-> {}]
    BY <1>1
  <2>2. ASSUME NEW i \in 1..Len(u.below) PROVE g.at[n + i].keys = {} /\ g.at[n + i].name = u.below[i]
    <3> DEFINE e == g.at[n + i]
               b == u.below[i]
    <3>1. e = [name |-> b, keys |-> {}]
      BY <2>1
    <3> HIDE DEF e, b
    <3>2. e.keys = {} /\ e.name = b
      BY <3>1
    <3>3. QED BY <3>2 DEF e, b
  <2>3. QED BY <2>2
<1>3. new = IF last.sel = <<>> THEN Assign(here.tree, here.at, last.name, u.below, u.val)
            ELSE IF u.below # <<>> THEN Assign(elem.tree, elem.at, Head(u.below), Tail(u.below), u.val)
            ELSE Assign(elem.tree, elem.at, last.sel[1][1], <<>>, u.val)
  BY DEF setNestedValue
<1>4. \A f \in F : LET k == IF last.sel = <<>> THEN n ELSE n + 1
                   IN  k \in DOMAIN f.at /\ Up(f.at, k) = Up(g.at, k) => f = g
  BY DEF Alone
<1> HIDE DEF front, last, n, new
<1>5. Reached(F, g, D, 0, base)
  <2>1. PICK E, ix : Represents(tree, F, E, ix) /\ D \subseteq E
    BY DEF HasFacts
  <2>2. Walked(E, g.at, 0)
    BY DEF Walked
  <2>3. At(ix, g.at, 0) = <<>>
    BY DEF At
  <2>4. QED BY <2>1, <2>2, <2>3 DEF Reached
<1>6. Leads(front, g)
  BY <1>1, <1>2 DEF Leads
<1> HIDE DEF base
<1>7. Reached(F, g, D, n - 1, here)
  <2>1. Reached(F, g, D, Len(front), FoldLeft(Enter, base, front))
    BY <1>5, <1>6, WayReached
  <2>2. QED BY <1>2, <2>1
<1> HIDE DEF here, elem
<1>8. CASE last.sel = <<>>
  <2>1. PICK E, ix : /\ Represents(here.tree, F, E, ix) /\ D \subseteq E
                     /\ Walked(E, g.at, n - 1) /\ here.at = At(ix, g.at, n - 1)
    BY <1>7 DEF Reached
  <2>2. Assignable(here.tree, F, E, ix, g, n, u.below)
    <3>1. n \in 1..Len(g.at) /\ n \in 1..n
      BY <1>1, <1>2
    <3>2. ASSUME NEW i \in n..Len(g.at) PROVE g.at[i].keys = {}
      <4>1. CASE i = n
        <5>1. g.at[n].keys = ToSet(<<>>)
          BY <1>1, <1>2, <1>8, <3>1
        <5>2. QED BY <4>1, <5>1 DEF ToSet
      <4>2. CASE i # n
        <5>1. PICK j \in 1..Len(u.below) : i = n + j
          <6>1. i - n \in 1..Len(u.below) /\ i = n + (i - n)
            BY <1>1, <1>2, <4>2
          <6>2. QED BY <6>1
        <5>2. QED BY <1>a, <5>1
      <4>3. QED BY <4>1, <4>2
    <3>3. \A i \in 1..Len(u.below) : g.at[n + i].name = u.below[i]
      BY <1>a
    <3>4. \A f \in F : n \in DOMAIN f.at /\ Up(f.at, n) = Up(g.at, n) => f = g
      BY <1>4, <1>8
    <3>5. QED BY <1>1, <2>1, <3>1, <3>2, <3>3, <3>4 DEF Assignable
  <2>3. Represents(Assign(here.tree, At(ix, g.at, n - 1), g.at[n].name, u.below, g.val), F, E \cup {g}, ix)
    BY <2>2, FactAssigned
  <2>4. new = Assign(here.tree, At(ix, g.at, n - 1), g.at[n].name, u.below, g.val)
    <3>1. last.name = g.at[n].name
      BY <1>1, <1>2
    <3>2. QED BY <1>1, <1>3, <1>8, <2>1, <3>1
  <2>5. D \cup {g} \subseteq E \cup {g}
    BY <2>1
  <2>6. HasFacts(new, F, D \cup {g})
    BY <2>3, <2>4, <2>5 DEF HasFacts
  <2>7. QED BY <2>6 DEF new
<1>9. CASE last.sel # <<>>
  <2> DEFINE m    == n + 1
             tail == Tail(u.below)
  <2>1. u.below # <<>> /\ Head(u.below) = u.below[1] /\ Len(u.below) > 0
        /\ tail \in Seq(STRING) /\ Len(tail) = Len(u.below) - 1
        /\ \A i \in 1..Len(tail) : tail[i] = u.below[i + 1]
    <3> DEFINE b == u.below
    <3>1. b \in Seq(STRING) /\ b # <<>>
      BY <1>1, <1>9
    <3> HIDE DEF b
    <3>2. /\ Head(b) = b[1] /\ Len(b) > 0 /\ Tail(b) \in Seq(STRING) /\ Len(Tail(b)) = Len(b) - 1
          /\ \A i \in 1..Len(Tail(b)) : Tail(b)[i] = b[i + 1]
      BY <3>1
    <3>3. QED BY <3>1, <3>2 DEF b
  <2>2. elem = Enter(here, last)
    BY <1>9 DEF Enter, elem
  <2>3. Reached(F, g, D, n, elem)
    <3>1. n \in 1..Len(g.at) /\ n \in 1..n
      BY <1>1, <1>2
    <3>2. last.name = g.at[n].name /\ ToSet(last.sel) = g.at[n].keys
      BY <1>1, <1>2, <3>1
    <3>3. Reached(F, g, D, n, Enter(here, last))
      BY <1>2, <1>7, <1>9, <3>1, <3>2, SegmentEntered
    <3>4. QED BY <2>2, <3>3
  <2>4. PICK E, ix : /\ Represents(elem.tree, F, E, ix) /\ D \subseteq E
                     /\ Walked(E, g.at, n) /\ elem.at = At(ix, g.at, n)
    BY <2>3 DEF Reached
  <2>5. m - 1 = n /\ m \in Nat /\ g.at[m] = [name |-> Head(u.below), keys |-> {}]
    <3>1. 1 \in 1..Len(u.below)
      BY <1>1, <2>1
    <3>2. g.at[n + 1] = [name |-> u.below[1], keys |-> {}]
      BY <1>1, <3>1
    <3>3. QED BY <1>2, <2>1, <3>2
  <2> HIDE DEF tail
  <2>6. Assignable(elem.tree, F, E, ix, g, m, tail)
    <3>1. m \in 1..Len(g.at) /\ Len(g.at) = m + Len(tail)
      <4>1. /\ Len(g.at) = n + Len(u.below) /\ Len(u.below) \in Nat /\ n \in Nat
            /\ Len(u.below) > 0 /\ Len(tail) = Len(u.below) - 1
        BY <1>1, <1>2, <2>1
      <4>2. \A x, y, z \in Nat : x = n + y /\ y > 0 /\ z = y - 1 => m \in 1..x /\ x = m + z
        BY <4>1 DEF m
      <4>3. Len(tail) \in Nat /\ Len(g.at) \in Nat
        BY <2>1, <4>1
      <4> HIDE DEF m
      <4>4. QED BY <4>1, <4>2, <4>3
    <3>2. ASSUME NEW i \in m..Len(g.at) PROVE g.at[i].keys = {}
      <4>1. PICK j \in 1..Len(u.below) : i = n + j
        <5>1. i - n \in 1..Len(u.below) /\ i = n + (i - n)
          BY <1>1, <1>2, <2>5 DEF m
        <5>2. QED BY <5>1
      <4>2. QED BY <1>a, <4>1
    <3>3. ASSUME NEW i \in 1..Len(tail) PROVE g.at[m + i].name = tail[i]
      <4>1. i + 1 \in 1..Len(u.below) /\ n + (i + 1) = m + i
        <5>1. i \in Nat /\ i > 0 /\ i <= Len(u.below) - 1 /\ Len(u.below) \in Nat /\ n \in Nat
          BY <1>1, <1>2, <2>1, <3>3
        <5>2. QED BY <5>1 DEF m
      <4>2. g.at[n + (i + 1)].name = u.below[i + 1]
        BY <1>a, <4>1
      <4>3. QED BY <2>1, <4>1, <4>2
    <3>4. \A f \in F : m \in DOMAIN f.at /\ Up(f.at, m) = Up(g.at, m) => f = g
      BY <1>4, <1>9
    <3> HIDE DEF m
    <3>5. Walked(E, g.at, m - 1)
      BY <2>4, <2>5
    <3>6. QED BY <2>1, <2>4, <3>1, <3>2, <3>3, <3>4, <3>5 DEF Assignable
  <2> HIDE DEF m
  <2>7. Represents(Assign(elem.tree, At(ix, g.at, m - 1), g.at[m].name, tail, g.val), F, E \cup {g}, ix)
    BY <2>6, FactAssigned
  <2>8. new = Assign(elem.tree, At(ix, g.at, m - 1), g.at[m].name, tail, g.val)
    <3>1. g.at[m].name = Head(u.below)
      BY <2>5
    <3>2. new = Assign(elem.tree, elem.at, Head(u.below), tail, u.val)
      BY <1>3, <1>9, <2>1 DEF tail
    <3>3. At(ix, g.at, m - 1) = elem.at
      BY <2>4, <2>5
    <3>4. QED BY <1>1, <3>1, <3>2, <3>3
  <2>9. D \cup {g} \subseteq E \cup {g}
    BY <2>4
  <2>10. HasFacts(new, F, D \cup {g})
    BY <2>7, <2>8, <2>9 DEF HasFacts
  <2>11. QED BY <2>10 DEF new
<1>10. QED BY <1>8, <1>9

-----------------------------------------------------------------------------
(* The facts of a response.                                                *)

\* After k updates the tree holds the facts that they report.
Folded(base, s, k, tree) ==
  base = <<>> => \A F, G :
    Coherent(F) /\ (\A i \in DOMAIN s : G[i] \in F /\ Reports(s[i], G[i]) /\ Alone(F, s[i], G[i])) =>
      HasFacts(tree, F, {G[i] : i \in 1..k})

FactLoop == INSTANCE Loops WITH Op <- AddUpdate, Inv <- Folded

LEMMA FactsFolded ==
  ASSUME NEW n \in Nat, NEW s, DOMAIN s = 1..n, NEW F, Coherent(F), NEW G,
         \A i \in 1..n : G[i] \in F /\ Reports(s[i], G[i]) /\ Alone(F, s[i], G[i])
  PROVE  HasFacts(FoldLeft(AddUpdate, <<>>, s), F, {G[i] : i \in 1..n})
<1> DEFINE base == <<>>
<1>1. FactLoop!FoldLeft(AddUpdate, base, s) = FoldLeft(AddUpdate, base, s)
  BY DEF FactLoop!FoldLeft, FactLoop!MapThenFoldSet, FactLoop!Max, FoldLeft, MapThenFoldSet, Max
<1>2. Folded(base, s, 0, base)
  <2>1. SUFFICES ASSUME NEW B, NEW H, Coherent(B) PROVE HasFacts(base, B, {H[i] : i \in 1..0})
    BY DEF Folded
  <2> DEFINE ix == [x \in Seq(Element) |-> 0]
             E  == {}
  <2>2. DOMAIN base = {} /\ {H[i] : i \in 1..0} = E
    OBVIOUS
  <2>3. ix \in [Seq(Element) -> Nat]
    OBVIOUS
  <2> HIDE DEF base, ix
  <2>4. TreeOK(base)
    BY <2>2, FS_EmptySet DEF TreeOK
  <2>5. Numbered(E, ix)
    BY DEF Numbered
  <2>6. Represents(base, B, E, ix)
    BY <2>1, <2>2, <2>3, <2>4, <2>5 DEF Represents
  <2>7. QED BY <2>2, <2>6 DEF HasFacts
<1> HIDE DEF base
<1>3. ASSUME NEW k \in 1..n, NEW tree, Folded(base, s, k - 1, tree)
      PROVE  Folded(base, s, k, AddUpdate(tree, s[k]))
  <2>1. SUFFICES ASSUME base = <<>>, NEW B, NEW H, Coherent(B),
                        \A i \in 1..n : H[i] \in B /\ Reports(s[i], H[i]) /\ Alone(B, s[i], H[i])
                 PROVE  HasFacts(AddUpdate(tree, s[k]), B, {H[i] : i \in 1..k})
    BY DEF Folded
  <2> DEFINE new == setNestedValue(tree, s[k].path, s[k].below, s[k].val)
             D   == {H[i] : i \in 1..(k - 1)}
  <2>2. HasFacts(tree, B, D)
    BY <1>3, <2>1 DEF Folded
  <2>3. H[k] \in B /\ Reports(s[k], H[k]) /\ Alone(B, s[k], H[k])
    BY <2>1
  <2>4. AddUpdate(tree, s[k]) = new
    BY <2>3 DEF AddUpdate, Reports
  <2>5. {H[i] : i \in 1..k} = D \cup {H[k]}
    <3>1. \A i : i \in 1..k <=> i \in 1..(k - 1) \/ i = k
      OBVIOUS
    <3>2. QED BY <3>1
  <2> HIDE DEF D
  <2>6. HasFacts(setNestedValue(tree, s[k].path, s[k].below, s[k].val), B, D \cup {H[k]})
    BY <2>2, <2>3, UpdateFolded
  <2>7. QED BY <2>4, <2>5, <2>6
<1>4. Folded(base, s, n, FactLoop!FoldLeft(AddUpdate, base, s))
  BY <1>2, <1>3, FactLoop!FoldInvariant
<1>5. QED BY <1>1, <1>4 DEF Folded, base

LeafFact(l) == [at |-> Place(l), val |-> l.val]

KeyFact(l, i, kv) == [at |-> KeyPlace(Up(l.path, i), kv), val |-> kv[2]]

LEMMA FactForms ==
  ASSUME NEW l, NEW f
  PROVE  f \in FactsOf(l) <=>
           f = LeafFact(l) \/ \E i \in DOMAIN l.path : \E kv \in l.path[i].keys : f = KeyFact(l, i, kv)
BY DEF FactsOf, LeafFact, KeyFact, Up

LEMMA FactKinds ==
  ASSUME NEW f
  PROVE  f \in Facts <=> \E l \in Leaves :
           f = LeafFact(l) \/ \E i \in DOMAIN l.path : \E kv \in l.path[i].keys : f = KeyFact(l, i, kv)
<1>1. f \in Facts <=> \E l \in Leaves : f \in FactsOf(l)
  BY DEF Facts
<1>2. QED BY <1>1, FactForms

\* The place of a leaf is its path, and names below it.
LEMMA PlaceElements ==
  ASSUME NEW l \in Leaves
  PROVE  /\ l.path \in Seq(Element) /\ Len(l.path) \in Nat /\ Len(l.path) > 0
         /\ Place(l) \in Seq(Element) /\ Len(Place(l)) = Len(l.path) + Len(l.below)
         /\ Len(l.below) \in Nat
         /\ Up(Place(l), Len(l.path)) = l.path
         /\ \A i \in 1..Len(l.path) : Place(l)[i] = l.path[i]
         /\ \A i \in 1..Len(l.below) :
              Place(l)[Len(l.path) + i] = [name |-> l.below[i], keys |-> {}]
<1> DEFINE p == l.path
           b == l.below
           y == [i \in DOMAIN b |-> [name |-> b[i], keys |-> {}]]
           z == p \o y
<1>1. /\ p \in Seq(Element) /\ Len(p) \in Nat /\ Len(p) > 0
      /\ b \in Seq(STRING) /\ Len(b) \in Nat /\ DOMAIN b = 1..Len(b)
  BY LeafPath DEF PathOK
<1>2. y \in Seq(Element) /\ Len(y) = Len(b) /\ \A i \in 1..Len(b) : y[i] = [name |-> b[i], keys |-> {}]
  BY <1>1 DEF Element
<1>3. Place(l) = z
  BY DEF Place
<1> HIDE DEF p, y
<1>4. /\ z \in Seq(Element) /\ Len(z) = Len(p) + Len(y)
      /\ (\A i \in 1..Len(p) : z[i] = p[i]) /\ \A i \in 1..Len(y) : z[Len(p) + i] = y[i]
  <2>1. p \in Seq(Element) /\ y \in Seq(Element)
    BY <1>1, <1>2
  <2>2. QED BY <2>1, JoinedElements
<1> HIDE DEF z
<1>5. Up(z, Len(p)) = p
  <2>1. Len(p) \in 0..Len(z) /\ Len(p) <= Len(p)
    BY <1>1, <1>2, <1>4
  <2>2. Up(z, Len(p)) = Up(p, Len(p))
    BY <1>1, <1>4, <2>1, UpSame
  <2>3. QED BY <1>1, <2>2, UpWhole
<1>6. /\ Len(z) = Len(p) + Len(b)
      /\ \A i \in 1..Len(b) : z[Len(p) + i] = [name |-> b[i], keys |-> {}]
  BY <1>2, <1>4
<1> HIDE DEF b
<1>7. QED BY <1>1, <1>3, <1>4, <1>5, <1>6 DEF p, b

\* The place of a key is below the entry.
LEMMA KeyElements ==
  ASSUME NEW l \in Leaves, NEW k \in DOMAIN l.path, NEW kv \in l.path[k].keys
  PROVE  LET h == KeyFact(l, k, kv).at
         IN  /\ h \in Seq(Element) /\ Len(h) = k + 1 /\ Up(h, k) = Up(l.path, k)
             /\ h[k + 1] = [name |-> kv[1], keys |-> {}] /\ k \in 1..Len(l.path)
<1> DEFINE ix == [x \in Seq(Element) |-> 0]
           p  == l.path
<1>1. p \in Seq(Element) /\ k \in 1..Len(p) /\ p[k] \in Element
  BY LeafPath DEF PathOK
<1>2. kv[1] \in STRING
  <2>1. p[k].keys \subseteq STRING \X STRING
    BY <1>1 DEF Element
  <2>2. kv \in STRING \X STRING
    BY <2>1
  <2>3. QED BY <2>2
<1>3. ix \in [Seq(Element) -> Nat]
  OBVIOUS
<1> DEFINE h == KeyPlace(Up(p, k), kv)
<1>4. KeyFact(l, k, kv).at = h
  BY DEF KeyFact
<1> HIDE DEF ix, p
<1>5. /\ h \in Seq(Element) /\ Len(h) = k + 1 /\ Up(h, k) = Up(p, k)
      /\ h[k + 1] = [name |-> kv[1], keys |-> {}]
  BY <1>1, <1>2, <1>3, KeyPosition
<1>6. QED BY <1>1, <1>4, <1>5 DEF p

\* Only the path of a leaf has list entries.
LEMMA EntriesOf ==
  ASSUME NEW l \in Leaves, NEW f \in FactsOf(l)
  PROVE  /\ f.at \in Seq(Element) /\ f.at # <<>>
         /\ \E j \in 1..Len(l.path) :
              /\ j <= Len(f.at) /\ Up(f.at, j) = Up(l.path, j)
              /\ \A i \in 1..Len(f.at) : i > j => f.at[i].keys = {}
<1>1. f = LeafFact(l) \/ \E i \in DOMAIN l.path : \E kv \in l.path[i].keys : f = KeyFact(l, i, kv)
  BY FactForms
<1>2. CASE f = LeafFact(l)
  <2> DEFINE p == Place(l)
             n == Len(l.path)
  <2>1. f.at = p
    BY <1>2 DEF LeafFact
  <2>2. /\ n \in Nat /\ n > 0 /\ p \in Seq(Element) /\ Len(p) = n + Len(l.below)
        /\ Len(l.below) \in Nat /\ Up(p, n) = l.path /\ l.path \in Seq(Element)
    BY PlaceElements
  <2>3. Up(l.path, n) = l.path
    BY <2>2, UpWhole
  <2>4. ASSUME NEW i \in 1..Len(p), i > n PROVE p[i].keys = {}
    <3>1. PICK j \in 1..Len(l.below) : i = n + j
      <4> DEFINE c == Len(l.below)
                 d == Len(p)
      <4>1. d = n + c /\ c \in Nat /\ n \in Nat /\ i \in 1..d /\ i > n
        BY <2>2, <2>4
      <4> HIDE DEF c, d, n
      <4>2. i - n \in 1..c /\ i = n + (i - n)
        BY <4>1
      <4>3. QED BY <4>2 DEF c
    <3>2. p[i] = [name |-> l.below[j], keys |-> {}]
      BY <3>1, PlaceElements
    <3> DEFINE e == p[i]
               b == l.below[j]
    <3>3. e = [name |-> b, keys |-> {}]
      BY <3>2
    <3> HIDE DEF e, b
    <3>4. e.keys = {}
      BY <3>3
    <3>5. QED BY <3>4 DEF e
  <2> HIDE DEF p, n
  <2>5. n \in 1..n /\ n <= Len(p) /\ p # <<>>
    BY <2>2
  <2>6. QED BY <2>1, <2>2, <2>3, <2>4, <2>5 DEF n
<1>3. CASE \E i \in DOMAIN l.path : \E kv \in l.path[i].keys : f = KeyFact(l, i, kv)
  <2>1. PICK k \in DOMAIN l.path : \E kv \in l.path[k].keys : f = KeyFact(l, k, kv)
    BY <1>3
  <2>2. PICK kv \in l.path[k].keys : f = KeyFact(l, k, kv)
    BY <2>1
  <2> DEFINE h == f.at
             e == h[k + 1]
             b == kv[1]
  <2>3. /\ h \in Seq(Element) /\ Len(h) = k + 1 /\ Up(h, k) = Up(l.path, k)
        /\ e = [name |-> b, keys |-> {}] /\ k \in 1..Len(l.path)
    BY <2>2, KeyElements
  <2> HIDE DEF e, b
  <2>4. e.keys = {}
    BY <2>3
  <2>5. Len(l.path) \in Nat
    BY PlaceElements
  <2> HIDE DEF h
  <2>6. k <= Len(h) /\ h # <<>> /\ \A i \in 1..Len(h) : i > k => i = k + 1
    BY <2>3, <2>5
  <2>7. \A i \in 1..Len(h) : i > k => h[i].keys = {}
    BY <2>4, <2>6 DEF e
  <2>8. QED BY <2>3, <2>6, <2>7 DEF h
<1>4. QED BY <1>1, <1>2, <1>3

LEMMA FactEntries ==
  ASSUME NEW f \in Facts
  PROVE  /\ f.at \in Seq(Element) /\ f.at # <<>>
         /\ \E l \in Leaves : \E j \in 1..Len(l.path) :
              /\ j <= Len(f.at) /\ Up(f.at, j) = Up(l.path, j)
              /\ \A i \in 1..Len(f.at) : i > j => f.at[i].keys = {}
<1>1. PICK l \in Leaves : f \in FactsOf(l)
  BY DEF Facts
<1>2. QED BY <1>1, EntriesOf

\* The facts of all leaves are coherent.
LEMMA FactsCoherent ==
  ASSUME WellFormed
  PROVE  Coherent(Facts)
<1>1. ASSUME NEW f \in Facts, NEW i \in DOMAIN f.at, NEW kv \in f.at[i].keys
      PROVE  \E l \in Leaves : /\ i \in DOMAIN l.path /\ Up(f.at, i) = Up(l.path, i)
                               /\ f.at[i] = l.path[i]
  <2>1. f.at \in Seq(Element) /\ f.at # <<>>
    BY FactEntries
  <2>2. PICK l \in Leaves : \E j \in 1..Len(l.path) :
          /\ j <= Len(f.at) /\ Up(f.at, j) = Up(l.path, j)
          /\ \A m \in 1..Len(f.at) : m > j => f.at[m].keys = {}
    BY FactEntries
  <2>3. PICK j \in 1..Len(l.path) :
          /\ j <= Len(f.at) /\ Up(f.at, j) = Up(l.path, j)
          /\ \A m \in 1..Len(f.at) : m > j => f.at[m].keys = {}
    BY <2>2
  <2>4. l.path \in Seq(Element) /\ Len(l.path) \in Nat
    BY PlaceElements
  <2>5. i \in 1..Len(f.at) /\ i <= j
    BY <1>1, <2>1, <2>3
  <2>6. i \in 0..j /\ i > 0 /\ j \in 0..Len(f.at) /\ j <= Len(l.path) /\ i \in DOMAIN l.path
    BY <2>1, <2>3, <2>4, <2>5
  <2>7. Up(f.at, i) = Up(l.path, i) /\ f.at[i] = l.path[i]
    BY <2>1, <2>3, <2>4, <2>6, UpLess
  <2>8. QED BY <2>6, <2>7
<1>2. ASSUME NEW f \in Facts PROVE f.at \in Seq(Element) /\ f.at # <<>>
  BY FactEntries
<1>3. ASSUME NEW f \in Facts, NEW i \in DOMAIN f.at, NEW kv \in f.at[i].keys, NEW kw \in f.at[i].keys
      PROVE  kv = kw
  <2>1. PICK l \in Leaves : i \in DOMAIN l.path /\ f.at[i] = l.path[i]
    BY <1>1, <1>3
  <2>2. kv \in l.path[i].keys /\ kw \in l.path[i].keys
    BY <2>1
  <2>3. \A m \in Leaves : \A j \in DOMAIN m.path : \A x, y \in m.path[j].keys : x = y
    BY DEF WellFormed
  <2>4. QED BY <2>1, <2>2, <2>3
<1>4. \A f, g \in Facts : IsPrefix(f.at, g.at) => f = g
  BY DEF WellFormed
<1>5. ASSUME NEW f \in Facts, NEW g \in Facts, NEW i \in Nat, Sibling(f.at, g.at, i)
      PROVE  KeyNames(f.at[i]) = KeyNames(g.at[i])
  <2>1. /\ i \in DOMAIN f.at \cap DOMAIN g.at
        /\ SubSeq(f.at, 1, i - 1) = SubSeq(g.at, 1, i - 1) /\ f.at[i].name = g.at[i].name
    BY <1>5 DEF Sibling, Up
  <2>2. {kv[1] : kv \in f.at[i].keys} = {kv[1] : kv \in g.at[i].keys}
    <3>1. \A x, y \in Facts : \A j \in DOMAIN x.at \cap DOMAIN y.at :
            SubSeq(x.at, 1, j - 1) = SubSeq(y.at, 1, j - 1) /\ x.at[j].name = y.at[j].name =>
              {kv[1] : kv \in x.at[j].keys} = {kv[1] : kv \in y.at[j].keys}
      BY DEF WellFormed
    <3>2. QED BY <1>5, <2>1, <3>1
  <2>3. QED BY <2>2 DEF KeyNames
<1>6. ASSUME NEW f \in Facts, NEW i \in DOMAIN f.at, NEW kv \in f.at[i].keys
      PROVE  \E h \in Facts : h.at = KeyPlace(Up(f.at, i), kv) /\ h.val = kv[2]
  <2>1. PICK l \in Leaves : i \in DOMAIN l.path /\ Up(f.at, i) = Up(l.path, i) /\ f.at[i] = l.path[i]
    BY <1>1, <1>6
  <2>2. kv \in l.path[i].keys
    BY <2>1
  <2>3. KeyFact(l, i, kv) \in Facts
    BY <2>1, <2>2, FactKinds
  <2>4. KeyFact(l, i, kv).at = KeyPlace(Up(f.at, i), kv) /\ KeyFact(l, i, kv).val = kv[2]
    BY <2>1 DEF KeyFact
  <2>5. QED BY <2>3, <2>4
<1>7. QED BY <1>2, <1>3, <1>4, <1>5, <1>6 DEF Coherent

-----------------------------------------------------------------------------
(* The facts below a common prefix.                                        *)

Cut(p, n) == SubSeq(p, n + 1, Len(p))

Within(F, c) == {f \in F : Len(f.at) > Len(c) /\ Up(f.at, Len(c)) = c}

CutFact(f, n) == [at |-> Cut(f.at, n), val |-> f.val]

Below(F, c) == {CutFact(f, Len(c)) : f \in Within(F, c)}

LEMMA CutElements ==
  ASSUME NEW p \in Seq(Element), NEW n \in 0..Len(p)
  PROVE  /\ Cut(p, n) \in Seq(Element) /\ Len(Cut(p, n)) = Len(p) - n
         /\ \A i \in 1..(Len(p) - n) : Cut(p, n)[i] = p[n + i]
BY RestPart DEF Cut

LEMMA CutUp ==
  ASSUME NEW p \in Seq(Element), NEW q \in Seq(Element), NEW n \in 0..Len(p), n <= Len(q),
         Up(p, n) = Up(q, n), NEW i \in 0..(Len(p) - n), i <= Len(q) - n
  PROVE  Up(Cut(p, n), i) = Up(Cut(q, n), i) <=> Up(p, n + i) = Up(q, n + i)
<1> DEFINE a == Cut(p, n)
           b == Cut(q, n)
           m == n + i
<1>1. /\ a \in Seq(Element) /\ Len(a) = Len(p) - n /\ \A j \in 1..(Len(p) - n) : a[j] = p[n + j]
  BY CutElements
<1>2. /\ b \in Seq(Element) /\ Len(b) = Len(q) - n /\ \A j \in 1..(Len(q) - n) : b[j] = q[n + j]
  <2>1. n \in 0..Len(q)
    OBVIOUS
  <2>2. QED BY <2>1, CutElements
<1>3. /\ i \in 0..Len(a) /\ i <= Len(b) /\ m \in 0..Len(p) /\ m <= Len(q) /\ n \in Nat /\ i \in Nat
  BY <1>1, <1>2
<1>4. \A j \in 1..n : p[j] = q[j]
  BY UpSame
<1>5. \A j \in 1..i : a[j] = p[n + j] /\ b[j] = q[n + j]
  BY <1>1, <1>2, <1>3
<1> HIDE DEF a, b
<1>6. Up(a, i) = Up(b, i) <=> \A j \in 1..i : a[j] = b[j]
  BY <1>1, <1>2, <1>3, UpSame
<1>7. Up(p, m) = Up(q, m) <=> \A j \in 1..m : p[j] = q[j]
  <2> HIDE DEF m
  <2>1. QED BY <1>3, UpSame
<1>8. (\A j \in 1..i : p[n + j] = q[n + j]) <=> \A j \in 1..m : p[j] = q[j]
  <2>1. ASSUME \A j \in 1..i : p[n + j] = q[n + j], NEW j \in 1..m PROVE p[j] = q[j]
    <3>1. CASE j <= n
      BY <1>3, <1>4, <3>1
    <3>2. CASE j > n
      <4>1. PICK o \in 1..i : j = n + o
        <5>1. j - n \in 1..i /\ j = n + (j - n)
          BY <1>3, <3>2
        <5>2. QED BY <5>1
      <4>2. QED BY <2>1, <4>1
    <3>3. QED BY <1>3, <3>1, <3>2
  <2>2. ASSUME \A j \in 1..m : p[j] = q[j], NEW j \in 1..i PROVE p[n + j] = q[n + j]
    <3>1. n + j \in 1..m
      BY <1>3
    <3>2. QED BY <2>2, <3>1
  <2>3. QED BY <2>1, <2>2
<1>9. QED BY <1>5, <1>6, <1>7, <1>8 DEF a, b, m

LEMMA CutKey ==
  ASSUME NEW p \in Seq(Element), NEW n \in 0..Len(p), NEW i \in 1..(Len(p) - n),
         NEW kv, kv[1] \in STRING
  PROVE  LET h == KeyPlace(Up(p, n + i), kv)
         IN  /\ h \in Seq(Element) /\ Len(h) = n + i + 1 /\ Up(h, n) = Up(p, n)
             /\ Cut(h, n) = KeyPlace(Up(Cut(p, n), i), kv)
<1> DEFINE ix == [x \in Seq(Element) |-> 0]
           m  == n + i
           h  == KeyPlace(Up(p, m), kv)
           a  == Cut(p, n)
           g  == KeyPlace(Up(a, i), kv)
           e  == [name |-> kv[1], keys |-> {}]
           c  == Cut(h, n)
<1>1. m \in 1..Len(p) /\ n \in Nat /\ i \in Nat /\ n \in 0..m
  OBVIOUS
<1>2. ix \in [Seq(Element) -> Nat]
  OBVIOUS
<1>3. a \in Seq(Element) /\ Len(a) = Len(p) - n /\ \A j \in 1..(Len(p) - n) : a[j] = p[n + j]
  BY CutElements
<1> HIDE DEF ix, m, a
<1>4. h \in Seq(Element) /\ Len(h) = m + 1 /\ Up(h, m) = Up(p, m) /\ h[m + 1] = e
  BY <1>1, <1>2, KeyPosition
<1>5. i \in 1..Len(a)
  BY <1>3
<1>6. g \in Seq(Element) /\ Len(g) = i + 1 /\ Up(g, i) = Up(a, i) /\ g[i + 1] = e
  <2>1. a \in Seq(Element) /\ i \in 1..Len(a) /\ kv[1] \in STRING
    BY <1>3, <1>5
  <2>2. QED BY <1>2, <2>1, KeyPosition
<1> HIDE DEF h, g, e
<1>7. (\A j \in 1..m : h[j] = p[j]) /\ \A j \in 1..i : g[j] = a[j]
  <2>1. m \in 0..Len(h) /\ m <= Len(p) /\ i \in 0..Len(g) /\ i <= Len(a)
    BY <1>1, <1>4, <1>5, <1>6
  <2>2. \A j \in 1..m : h[j] = p[j]
    BY <1>4, <2>1, UpSame
  <2>3. \A j \in 1..i : g[j] = a[j]
    BY <1>3, <1>6, <2>1, UpSame
  <2>4. QED BY <2>2, <2>3
<1>8. Up(h, n) = Up(p, n)
  <2>1. n \in 0..Len(h) /\ n <= Len(p) /\ \A j \in 1..n : h[j] = p[j]
    BY <1>1, <1>4, <1>7
  <2>2. QED BY <1>4, <2>1, UpSame
<1>9. c \in Seq(Element) /\ Len(c) = i + 1 /\ \A j \in 1..(i + 1) : c[j] = h[n + j]
  <2>1. n \in 0..Len(h) /\ Len(h) - n = i + 1
    BY <1>1, <1>4 DEF m
  <2>2. /\ c \in Seq(Element) /\ Len(c) = Len(h) - n
        /\ \A j \in 1..(Len(h) - n) : c[j] = h[n + j]
    BY <1>4, <2>1, CutElements
  <2> HIDE DEF c
  <2>3. QED BY <2>1, <2>2
<1> HIDE DEF c
<1>10. \A j \in 1..Len(c) : c[j] = g[j]
  <2>1. ASSUME NEW j \in 1..(i + 1) PROVE c[j] = g[j]
    <3>1. CASE j = i + 1
      <4>1. n + j = m + 1 /\ j \in 1..(i + 1)
        BY <1>1, <3>1 DEF m
      <4>2. c[j] = h[m + 1]
        BY <1>9, <4>1
      <4>3. QED BY <1>4, <1>6, <3>1, <4>2
    <3>2. CASE j # i + 1
      <4>1. j \in 1..i /\ j \in 1..(Len(p) - n) /\ n + j \in 1..m
        BY <1>1, <3>2 DEF m
      <4>2. c[j] = h[n + j] /\ h[n + j] = p[n + j] /\ a[j] = p[n + j] /\ g[j] = a[j]
        BY <1>3, <1>7, <1>9, <2>1, <4>1
      <4>3. QED BY <4>2
    <3>3. QED BY <3>1, <3>2
  <2>2. QED BY <1>9, <2>1
<1>11. c = g
  BY <1>6, <1>9, <1>10, SameElements
<1>12. Len(h) = n + i + 1
  BY <1>1, <1>4 DEF m
<1>13. QED BY <1>4, <1>8, <1>11, <1>12 DEF c, g, h, a, m

\* What is known of a fact below a prefix.
LEMMA CutFacts ==
  ASSUME NEW F, Coherent(F), NEW c \in Seq(Element), NEW f \in Within(F, c)
  PROVE  LET n == Len(c)
             r == CutFact(f, n).at
         IN  /\ f \in F /\ f.at \in Seq(Element) /\ n \in 0..Len(f.at) /\ n \in Nat /\ Len(f.at) \in Nat
             /\ Len(f.at) > n /\ Up(f.at, n) = c /\ r = Cut(f.at, n) /\ CutFact(f, n).val = f.val
             /\ r \in Seq(Element) /\ Len(r) = Len(f.at) - n /\ r # <<>> /\ DOMAIN r = 1..(Len(f.at) - n)
             /\ \A i \in 1..(Len(f.at) - n) : r[i] = f.at[n + i] /\ n + i \in DOMAIN f.at
<1> DEFINE n == Len(c)
           p == f.at
           r == CutFact(f, n).at
<1>1. f \in F /\ Len(p) > n /\ Up(p, n) = c /\ n \in Nat
  BY DEF Within
<1>2. p \in Seq(Element) /\ Len(p) \in Nat /\ DOMAIN p = 1..Len(p)
  BY <1>1, FactPlace
<1>3. r = Cut(p, n) /\ CutFact(f, n).val = f.val
  BY DEF CutFact
<1> HIDE DEF n, p, r
<1>4. n \in 0..Len(p)
  BY <1>1, <1>2
<1>5. r \in Seq(Element) /\ Len(r) = Len(p) - n /\ \A i \in 1..(Len(p) - n) : r[i] = p[n + i]
  <2>1. p \in Seq(Element) /\ n \in 0..Len(p)
    BY <1>2, <1>4
  <2>2. /\ Cut(p, n) \in Seq(Element) /\ Len(Cut(p, n)) = Len(p) - n
        /\ \A i \in 1..(Len(p) - n) : Cut(p, n)[i] = p[n + i]
    BY <2>1, CutElements
  <2>3. QED BY <1>3, <2>2
<1>6. r # <<>> /\ DOMAIN r = 1..(Len(p) - n) /\ \A i \in 1..(Len(p) - n) : n + i \in DOMAIN p
  BY <1>1, <1>2, <1>4, <1>5
<1>7. QED BY <1>1, <1>2, <1>3, <1>4, <1>5, <1>6 DEF n, p, r

\* Two facts below a prefix have as much in common as their rests.
LEMMA CutSame ==
  ASSUME NEW F, Coherent(F), NEW c \in Seq(Element), NEW f \in Within(F, c), NEW g \in Within(F, c),
         NEW i \in Nat, i <= Len(f.at) - Len(c), i <= Len(g.at) - Len(c)
  PROVE  Up(CutFact(f, Len(c)).at, i) = Up(CutFact(g, Len(c)).at, i) <=>
           Up(f.at, Len(c) + i) = Up(g.at, Len(c) + i)
<1> DEFINE n == Len(c)
           p == f.at
           q == g.at
<1>1. /\ p \in Seq(Element) /\ n \in 0..Len(p) /\ Len(p) \in Nat /\ Up(p, n) = c
      /\ CutFact(f, n).at = Cut(p, n)
  BY CutFacts
<1>2. /\ q \in Seq(Element) /\ n \in 0..Len(q) /\ Len(q) \in Nat /\ Up(q, n) = c
      /\ CutFact(g, n).at = Cut(q, n)
  BY CutFacts
<1>3. i <= Len(p) - n /\ i <= Len(q) - n
  OBVIOUS
<1> HIDE DEF n, p, q
<1>4. n <= Len(q) /\ i \in 0..(Len(p) - n) /\ Up(p, n) = Up(q, n)
  BY <1>1, <1>2, <1>3
<1>5. Up(Cut(p, n), i) = Up(Cut(q, n), i) <=> Up(p, n + i) = Up(q, n + i)
  BY <1>1, <1>2, <1>3, <1>4, CutUp
<1>6. QED BY <1>1, <1>2, <1>5 DEF n, p, q

\* The facts below a prefix are coherent.
LEMMA BelowCoherent ==
  ASSUME NEW F, Coherent(F), NEW c \in Seq(Element)
  PROVE  Coherent(Below(F, c))
<1> DEFINE n == Len(c)
           B == Below(F, c)
           W == Within(F, c)
<1>0. B = {CutFact(f, n) : f \in W}
  BY DEF Below
<1>1. ASSUME NEW r \in B PROVE r.at \in Seq(Element) /\ r.at # <<>>
  <2>1. PICK f \in W : r = CutFact(f, n)
    BY <1>0
  <2>2. QED BY <2>1, CutFacts
<1>2. ASSUME NEW r \in B, NEW i \in DOMAIN r.at, NEW kv \in r.at[i].keys, NEW kw \in r.at[i].keys
      PROVE  kv = kw
  <2>1. PICK f \in W : r = CutFact(f, n)
    BY <1>0
  <2>2. f \in F /\ r.at[i] = f.at[n + i] /\ n + i \in DOMAIN f.at
    BY <1>2, <2>1, CutFacts
  <2>3. kv \in f.at[n + i].keys /\ kw \in f.at[n + i].keys
    BY <2>2
  <2>4. \A x \in F : \A j \in DOMAIN x.at : \A a, b \in x.at[j].keys : a = b
    BY DEF Coherent
  <2>5. QED BY <2>2, <2>3, <2>4
<1>3. ASSUME NEW r \in B, NEW s \in B, IsPrefix(r.at, s.at) PROVE r = s
  <2>1. PICK f \in W : r = CutFact(f, n)
    BY <1>0
  <2>2. PICK g \in W : s = CutFact(g, n)
    BY <1>0
  <2> DEFINE m == Len(r.at)
  <2>3. /\ f \in F /\ f.at \in Seq(Element) /\ Len(f.at) \in Nat /\ n \in Nat /\ Len(f.at) > n
        /\ m = Len(f.at) - n /\ r.at \in Seq(Element)
    <3>1. /\ f \in F /\ f.at \in Seq(Element) /\ Len(f.at) \in Nat /\ n \in Nat /\ Len(f.at) > n
          /\ Len(CutFact(f, n).at) = Len(f.at) - n /\ CutFact(f, n).at \in Seq(Element)
      BY CutFacts
    <3>2. QED BY <2>1, <3>1
  <2>4. /\ g \in F /\ g.at \in Seq(Element) /\ Len(g.at) \in Nat
        /\ Len(s.at) = Len(g.at) - n /\ s.at \in Seq(Element)
    <3>1. /\ g \in F /\ g.at \in Seq(Element) /\ Len(g.at) \in Nat
          /\ Len(CutFact(g, n).at) = Len(g.at) - n /\ CutFact(g, n).at \in Seq(Element)
      BY CutFacts
    <3>2. QED BY <2>2, <3>1
  <2>5. m <= Len(s.at) /\ Up(r.at, m) = Up(s.at, m)
    BY <1>3, <2>3, <2>4, UpPrefix
  <2>6. m \in Nat /\ m <= Len(f.at) - Len(c) /\ m <= Len(g.at) - Len(c) /\ n + m = Len(f.at)
        /\ Len(f.at) <= Len(g.at)
    BY <2>3, <2>4, <2>5
  <2>7. Up(CutFact(f, Len(c)).at, m) = Up(CutFact(g, Len(c)).at, m)
    BY <2>1, <2>2, <2>5
  <2> HIDE DEF m
  <2>8. Up(f.at, Len(c) + m) = Up(g.at, Len(c) + m)
    BY <2>6, <2>7, CutSame
  <2>9. IsPrefix(f.at, g.at)
    BY <2>3, <2>4, <2>6, <2>8, UpPrefix
  <2>10. f = g
    BY <2>3, <2>4, <2>9 DEF Coherent
  <2>11. QED BY <2>1, <2>2, <2>10
<1>4. ASSUME NEW r \in B, NEW s \in B, NEW i \in Nat, Sibling(r.at, s.at, i)
      PROVE  KeyNames(r.at[i]) = KeyNames(s.at[i])
  <2>1. PICK f \in W : r = CutFact(f, n)
    BY <1>0
  <2>2. PICK g \in W : s = CutFact(g, n)
    BY <1>0
  <2>3. i \in DOMAIN r.at /\ i \in DOMAIN s.at /\ Up(r.at, i - 1) = Up(s.at, i - 1) /\ r.at[i].name = s.at[i].name
    BY <1>4 DEF Sibling
  <2>4. /\ f \in F /\ r.at[i] = f.at[n + i] /\ n + i \in DOMAIN f.at
        /\ i \in 1..(Len(f.at) - n) /\ n \in Nat /\ Len(f.at) \in Nat
    BY <2>1, <2>3, CutFacts
  <2>5. /\ g \in F /\ s.at[i] = g.at[n + i] /\ n + i \in DOMAIN g.at
        /\ i \in 1..(Len(g.at) - n) /\ Len(g.at) \in Nat
    BY <2>2, <2>3, CutFacts
  <2> DEFINE j == i - 1
  <2>6. j \in Nat /\ j <= Len(f.at) - Len(c) /\ j <= Len(g.at) - Len(c) /\ n + j = (n + i) - 1 /\ n + i \in Nat
    BY <2>4, <2>5
  <2>7. Up(CutFact(f, Len(c)).at, j) = Up(CutFact(g, Len(c)).at, j)
    BY <2>1, <2>2, <2>3
  <2> HIDE DEF j
  <2>8. Up(f.at, Len(c) + j) = Up(g.at, Len(c) + j)
    BY <2>6, <2>7, CutSame
  <2>9. Sibling(f.at, g.at, n + i)
    BY <2>3, <2>4, <2>5, <2>6, <2>8 DEF Sibling
  <2>10. KeyNames(f.at[n + i]) = KeyNames(g.at[n + i])
    BY <2>4, <2>5, <2>6, <2>9 DEF Coherent
  <2>11. QED BY <2>4, <2>5, <2>10
<1>5. ASSUME NEW r \in B, NEW i \in DOMAIN r.at, NEW kv \in r.at[i].keys
      PROVE  \E h \in B : h.at = KeyPlace(Up(r.at, i), kv) /\ h.val = kv[2]
  <2>1. PICK f \in W : r = CutFact(f, n)
    BY <1>0
  <2>2. /\ f \in F /\ r.at[i] = f.at[n + i] /\ n + i \in DOMAIN f.at /\ r.at = Cut(f.at, n)
        /\ i \in 1..(Len(f.at) - n) /\ n \in 0..Len(f.at) /\ n \in Nat /\ f.at \in Seq(Element)
        /\ Len(f.at) \in Nat /\ Up(f.at, n) = c
    BY <1>5, <2>1, CutFacts
  <2>3. PICK h \in F : h.at = KeyPlace(Up(f.at, n + i), kv) /\ h.val = kv[2]
    <3>1. kv \in f.at[n + i].keys
      BY <1>5, <2>2
    <3>2. QED BY <2>2, <3>1 DEF Coherent
  <2>4. kv[1] \in STRING
    <3>1. f.at[n + i] \in Element
      BY <2>2
    <3>2. f.at[n + i].keys \subseteq STRING \X STRING
      BY <3>1 DEF Element
    <3>3. kv \in STRING \X STRING
      BY <1>5, <2>2, <3>2
    <3>4. QED BY <3>3
  <2>5. /\ Len(h.at) = n + i + 1 /\ Up(h.at, n) = Up(f.at, n)
        /\ Cut(h.at, n) = KeyPlace(Up(Cut(f.at, n), i), kv)
    <3> DEFINE p == f.at
    <3>1. p \in Seq(Element) /\ n \in 0..Len(p) /\ i \in 1..(Len(p) - n) /\ kv[1] \in STRING
      BY <2>2, <2>4
    <3> HIDE DEF p, n
    <3>2. LET k == KeyPlace(Up(p, n + i), kv)
          IN  Len(k) = n + i + 1 /\ Up(k, n) = Up(p, n) /\ Cut(k, n) = KeyPlace(Up(Cut(p, n), i), kv)
      BY <3>1, CutKey
    <3>3. QED BY <2>3, <3>2 DEF p
  <2>6. h \in W
    <3>1. Len(h.at) > n
      BY <2>2, <2>5
    <3>2. QED BY <2>2, <2>5, <3>1 DEF Within
  <2>7. CutFact(h, n) \in B
    BY <1>0, <2>6
  <2>8. CutFact(h, n).at = KeyPlace(Up(r.at, i), kv) /\ CutFact(h, n).val = kv[2]
    BY <2>2, <2>3, <2>5 DEF CutFact
  <2>9. QED BY <2>7, <2>8
<1> HIDE DEF B
<1>6. Coherent(B)
  BY <1>1, <1>2, <1>3, <1>4, <1>5 DEF Coherent
<1>7. QED BY <1>6 DEF B

\* The elements that the paths of a response have in common.
Stem == Up(sent[1].path, Len(commonPathPrefix(Updates)))

\* The i-th fact of a response, below what all of its paths have in common.
RestFact(i) == CutFact(LeafFact(sent[i]), Len(Stem))

LEMMA StemElements ==
  ASSUME WellFormed, TextInv, SlashFree, hasLeafUpdates(Updates)
  PROVE  LET c == commonPathPrefix(Updates)
             n == Len(c)
         IN  /\ c \in Path /\ n \in Nat /\ Stem \in Seq(Element) /\ Len(Stem) = n
             /\ \A i \in 1..Len(sent) :
                  /\ sent[i].path \in Seq(Element) /\ n < Len(sent[i].path)
                  /\ Up(sent[i].path, n) = Stem
                  /\ \A k \in 1..n : /\ c[k].name = sent[i].path[k].name
                                     /\ ToSet(c[k].sel) = sent[i].path[k].keys
<1> DEFINE m == Len(sent)
           c == commonPathPrefix(Updates)
           n == Len(c)
           p(i) == sent[i].path
<1>1. m \in Nat /\ m > 1 /\ 1 \in 1..m /\ DOMAIN sent = 1..m
  BY ResponseUpdates DEF hasLeafUpdates
<1>2. c \in Path /\ n \in Nat /\ \A i \in 1..m : n <= Len(text[i]) /\ c = SubSeq(text[i], 1, n)
  BY CommonPrefix
<1> HIDE DEF c, n
<1>3. ASSUME NEW i \in 1..m
      PROVE  /\ p(i) \in Seq(Element) /\ n \in 0..Len(p(i))
             /\ \A k \in 1..n : c[k].name = p(i)[k].name /\ ToSet(c[k].sel) = p(i)[k].keys
  <2> DEFINE t == text[i]
             l == sent[i]
  <2>1. l \in Leaves /\ TextOf(t, l.path) /\ t \in Path
    BY ResponseUpdates
  <2>2. l.path \in Seq(Element) /\ DOMAIN l.path = 1..Len(l.path) /\ Len(l.path) \in Nat
    BY <2>1, LeafPath DEF PathOK
  <2>3. n <= Len(t) /\ c = SubSeq(t, 1, n) /\ Len(t) = Len(l.path)
    BY <1>2, <2>1 DEF TextOf
  <2> HIDE DEF t, l
  <2>4. n \in 0..Len(t) /\ t \in Seq(Segment)
    BY <1>2, <2>1, <2>2, <2>3 DEF Path
  <2>5. \A k \in 1..n : c[k] = t[k]
    BY <2>3, <2>4, PrefixPart
  <2>6. \A k \in 1..n : t[k].name = l.path[k].name /\ ToSet(t[k].sel) = l.path[k].keys
    <3>1. \A k \in 1..n : k \in DOMAIN l.path
      BY <2>2, <2>3, <2>4
    <3>2. QED BY <2>1, <3>1 DEF TextOf
  <2>7. QED BY <2>2, <2>3, <2>4, <2>5, <2>6 DEF l
<1>4. ASSUME NEW i \in 1..m, NEW j \in 1..m PROVE Up(p(i), n) = Up(p(j), n)
  <2> DEFINE a == p(i)
             b == p(j)
  <2>1. a \in Seq(Element) /\ n \in 0..Len(a)
    BY <1>3
  <2>2. b \in Seq(Element) /\ n \in 0..Len(b)
    BY <1>3
  <2>3. ASSUME NEW k \in 1..n PROVE a[k] = b[k]
    <3>1. a[k].name = b[k].name /\ a[k].keys = b[k].keys
      BY <1>3
    <3>2. a[k] \in Element
      BY <2>1
    <3>3. b[k] \in Element
      BY <2>2
    <3>4. QED BY <3>1, <3>2, <3>3, ElementEqual
  <2> HIDE DEF a, b
  <2>4. n <= Len(b)
    BY <2>2
  <2>5. Up(a, n) = Up(b, n)
    BY <2>1, <2>2, <2>3, <2>4, UpSame
  <2>6. QED BY <2>5 DEF a, b
<1>5. Stem \in Seq(Element) /\ Len(Stem) = n /\ \A i \in 1..m : Up(p(i), n) = Stem
  <2>1. Stem = Up(p(1), n)
    BY DEF Stem, n, c
  <2>2. Up(p(1), n) \in Seq(Element) /\ Len(Up(p(1), n)) = n
    BY <1>1, <1>3, UpElements
  <2>3. QED BY <1>1, <1>4, <2>1, <2>2
<1>6. ASSUME NEW i \in 1..m PROVE n < Len(p(i))
  <2>1. SUFFICES ASSUME n = Len(p(i)) PROVE FALSE
    BY <1>2, <1>3
  <2>2. PICK j \in 1..m : j # i
    <3>1. 2 \in 1..m
      BY <1>1
    <3>2. QED BY <1>1, <3>1
  <2>3. sent[i] \in Leaves /\ sent[j] \in Leaves /\ sent[i] # sent[j]
    <3>1. sent[i] \in Leaves /\ sent[j] \in Leaves
      BY ResponseUpdates
    <3>2. \A x, y \in DOMAIN sent : x # y => sent[x] # sent[y]
      BY DEF TextInv
    <3>3. QED BY <1>1, <2>2, <3>1, <3>2
  <2> DEFINE a == p(i)
             b == p(j)
             q == Place(sent[j])
  <2>4. a \in Seq(Element) /\ Up(a, n) = Up(b, n)
    BY <1>3, <1>4
  <2>5. /\ b \in Seq(Element) /\ Len(b) \in Nat /\ n <= Len(b)
    BY <1>3
  <2>6. /\ q \in Seq(Element) /\ Len(q) \in Nat /\ Len(b) <= Len(q) /\ Up(q, Len(b)) = b
    <3>1. /\ q \in Seq(Element) /\ Len(q) = Len(b) + Len(sent[j].below) /\ Len(sent[j].below) \in Nat
          /\ Up(q, Len(b)) = b
      BY <2>3, PlaceElements
    <3> DEFINE d == Len(sent[j].below)
               e == Len(q)
               f == Len(b)
    <3>2. e = f + d /\ d \in Nat /\ f \in Nat
      BY <2>5, <3>1
    <3> HIDE DEF d, e, f
    <3>3. e \in Nat /\ f <= e
      BY <3>2
    <3>4. QED BY <3>1, <3>3 DEF e, f
  <2> HIDE DEF a, b, q
  <2>7. Up(q, Len(b)) = Up(b, Len(b))
    BY <2>5, <2>6, UpWhole
  <2>8. Up(q, n) = Up(b, n)
    <3> DEFINE k == Len(b)
    <3>b. Up(q, k) = Up(b, k)
      BY <2>7
    <3>c. k \in Nat /\ k <= Len(q) /\ Len(q) \in Nat /\ k = Len(b)
      BY <2>5, <2>6
    <3>d. n <= k /\ n \in Nat
      BY <1>2, <2>5
    <3> HIDE DEF k
    <3>1. k \in 0..Len(q) /\ k <= Len(b) /\ Up(q, k) = Up(b, k) /\ n \in 0..k
      BY <3>b, <3>c, <3>d
    <3>2. QED BY <2>5, <2>6, <3>1, UpLess
  <2>9. IsPrefix(a, q)
    <3>1. Len(a) = n
      BY <2>1 DEF a
    <3>2. Len(a) <= Len(q) /\ Up(a, Len(a)) = Up(q, Len(a))
      BY <1>2, <2>4, <2>5, <2>6, <2>8, <3>1
    <3>3. QED BY <2>4, <2>6, <3>2, UpPrefix
  <2>10. \A x, y \in Leaves : IsPrefix(x.path, Place(y)) => x = y
    BY DEF WellFormed
  <2>11. QED BY <2>3, <2>9, <2>10 DEF a, q
<1>7. QED BY <1>2, <1>3, <1>5, <1>6 DEF n, c

\* The number of elements of the place of a leaf at which its value is put.
Put(l) == IF Last(l.path).keys = {} THEN Len(l.path) ELSE Len(l.path) + 1

\* No other fact is there.
LEMMA AloneFacts ==
  ASSUME WellFormed, NEW l \in Leaves, NEW f \in Facts, Put(l) <= Len(f.at),
         Up(f.at, Put(l)) = Up(Place(l), Put(l))
  PROVE  f = LeafFact(l)
<1> DEFINE q == Place(l)
           m == Len(l.path)
           k == Put(l)
           p == f.at
<1>1. /\ l.path \in Seq(Element) /\ m \in Nat /\ m > 0 /\ q \in Seq(Element) /\ Len(l.below) \in Nat
      /\ Len(q) = m + Len(l.below) /\ Up(q, m) = l.path
  BY PlaceElements
<1>2. /\ l.path # <<>> /\ l.below \in Seq(STRING) /\ Last(l.path) = l.path[m]
      /\ (Last(l.path).keys # {} => l.below # <<>>)
  <2>1. l.path # <<>> /\ l.below \in Seq(STRING) /\ (Last(l.path).keys # {} => l.below # <<>>)
    BY NormalizeAssumption
  <2>2. QED BY <2>1 DEF Last
<1>3. Last(l.path).keys # {} => Len(l.below) > 0
  <2> DEFINE b == l.below
  <2>1. b \in Seq(STRING) /\ (Last(l.path).keys # {} => b # <<>>)
    BY <1>2
  <2> HIDE DEF b
  <2>2. b # <<>> => Len(b) > 0
    BY <2>1
  <2>3. QED BY <2>1, <2>2 DEF b
<1>4. /\ k \in Nat /\ k >= m /\ k <= Len(q) /\ (Last(l.path).keys # {} => k = m + 1)
      /\ Len(q) \in Nat
  <2> DEFINE d == Len(l.below)
             e == Len(q)
  <2>1. m \in Nat /\ d \in Nat /\ e = m + d /\ (Last(l.path).keys # {} => d > 0)
    BY <1>1, <1>3
  <2>2. k = IF Last(l.path).keys = {} THEN m ELSE m + 1
    BY DEF Put
  <2> HIDE DEF m, d, e, k, q
  <2>3. QED BY <2>1, <2>2 DEF e
<1>5. p \in Seq(Element) /\ Len(p) \in Nat
  BY FactEntries
<1>6. LeafFact(l) \in Facts /\ LeafFact(l).at = q
  BY FactKinds DEF LeafFact
<1>7. k <= Len(p) /\ Up(p, k) = Up(q, k)
  OBVIOUS
<1> HIDE DEF q, m, k, p
<1>8. \A x, y \in Leaves : IsPrefix(x.path, Place(y)) => x = y
  BY DEF WellFormed
<1>9. \A x, y \in Facts : IsPrefix(x.at, y.at) => x = y
  BY DEF WellFormed
<1>10. Up(p, m) = l.path /\ m <= Len(p)
  <2>1. k \in 0..Len(p) /\ k <= Len(q) /\ m \in 0..k
    BY <1>1, <1>4, <1>5, <1>7
  <2>2. Up(p, m) = Up(q, m)
    BY <1>1, <1>5, <1>7, <2>1, UpLess
  <2>3. QED BY <1>1, <1>4, <1>5, <1>7, <2>2
<1>11. PICK o \in Leaves :
         f = LeafFact(o) \/ \E i \in DOMAIN o.path : \E kv \in o.path[i].keys : f = KeyFact(o, i, kv)
  BY FactKinds
\* A leaf of which a place begins with the path of l.
<1>12. ASSUME NEW i \in 0..Len(Place(o)), m <= i, NEW x \in Seq(Element), i <= Len(x),
              Up(x, i) = Up(Place(o), i), Up(x, m) = l.path
       PROVE  l = o
  <2>1. Place(o) \in Seq(Element)
    BY PlaceElements
  <2>2. i \in 0..Len(x) /\ i <= Len(Place(o)) /\ m \in 0..i /\ m <= Len(Place(o))
    BY <1>1, <1>12
  <2>3. Up(x, m) = Up(Place(o), m)
    BY <1>12, <2>1, <2>2, UpLess
  <2>4. Up(l.path, m) = l.path
    BY <1>1, UpWhole DEF m
  <2>5. m = Len(l.path)
    BY DEF m
  <2>6. IsPrefix(l.path, Place(o))
    BY <1>1, <1>12, <2>1, <2>2, <2>3, <2>4, <2>5, UpPrefix
  <2>7. QED BY <1>8, <2>6
<1>13. CASE f = LeafFact(o)
  <2> DEFINE i == Len(p)
  <2>1. p = Place(o)
    BY <1>13 DEF LeafFact, p
  <2>2. i \in 0..Len(Place(o)) /\ m <= i /\ i <= Len(p) /\ Up(p, i) = Up(Place(o), i)
    BY <1>5, <1>10, <2>1
  <2> HIDE DEF i
  <2>3. l = o
    BY <1>5, <1>10, <1>12, <2>2
  <2>4. QED BY <1>13, <2>3
<1>14. CASE \E i \in DOMAIN o.path : \E kv \in o.path[i].keys : f = KeyFact(o, i, kv)
  <2>1. PICK i \in DOMAIN o.path : \E kv \in o.path[i].keys : f = KeyFact(o, i, kv)
    BY <1>14
  <2>2. PICK kv \in o.path[i].keys : f = KeyFact(o, i, kv)
    BY <2>1
  <2>3. Len(p) = i + 1 /\ Up(p, i) = Up(o.path, i) /\ i \in 1..Len(o.path)
    BY <2>2, KeyElements DEF p
  <2>4. CASE k = Len(p)
    <3>1. Up(p, Len(p)) = Up(q, Len(p)) /\ Len(p) <= Len(q)
      BY <1>4, <1>7, <2>4
    <3>2. IsPrefix(p, q)
      BY <1>1, <1>5, <3>1, UpPrefix
    <3>3. QED BY <1>6, <1>9, <3>2 DEF p
  <2>5. CASE k # Len(p)
    <3> DEFINE r == Place(o)
               n == Len(o.path)
    <3>1. /\ r \in Seq(Element) /\ n \in Nat /\ Up(r, n) = o.path /\ o.path \in Seq(Element)
          /\ Len(r) = n + Len(o.below) /\ Len(o.below) \in Nat
      BY PlaceElements
    <3>2. i \in 1..n /\ n <= Len(r) /\ n \in 0..Len(r) /\ Len(r) \in Nat
      <4> DEFINE d == Len(o.below)
                 e == Len(r)
      <4>1. n \in Nat /\ d \in Nat /\ e = n + d /\ i \in 1..n
        BY <2>3, <3>1
      <4> HIDE DEF n, d, e
      <4>2. i \in 1..n /\ n <= e /\ n \in 0..e /\ e \in Nat
        BY <4>1
      <4>3. QED BY <4>2 DEF e
    <3>3. i \in Nat /\ i <= Len(p) /\ m <= i /\ k <= i
      <4>1. Len(p) = i + 1 /\ i \in Nat
        BY <2>3, <3>2
      <4>2. k \in Nat /\ m \in Nat /\ m <= k
        BY <1>1, <1>4
      <4>3. k <= Len(p) /\ k # Len(p)
        BY <1>7, <2>5
      <4>4. QED BY <4>1, <4>2, <4>3
    <3> HIDE DEF r, n
    <3>4. Up(r, i) = Up(o.path, i)
      <4>1. n <= Len(o.path) /\ Up(r, n) = Up(o.path, n) /\ i \in 0..n
        BY <3>1, <3>2, UpWhole DEF n
      <4>2. QED BY <3>1, <3>2, <4>1, UpLess
    <3>5. i \in 0..Len(r) /\ Up(p, i) = Up(r, i)
      BY <2>3, <3>1, <3>2, <3>4
    <3>6. l = o
      BY <1>5, <1>10, <1>12, <3>3, <3>5 DEF r
    <3>7. i = m
      BY <1>1, <2>3, <3>3, <3>6 DEF m
    <3>8. Last(l.path).keys # {}
      BY <1>2, <2>2, <3>6, <3>7
    <3>9. QED BY <1>1, <1>4, <3>3, <3>7, <3>8
  <2>6. QED BY <2>4, <2>5
<1>15. QED BY <1>11, <1>13, <1>14

\* What the i-th update of a response reports below the common prefix, and
\* that no other fact is where its value is put.
LEMMA RestReported ==
  ASSUME WellFormed, TextInv, SlashFree, hasLeafUpdates(Updates), NEW i \in 1..Len(sent)
  PROVE  /\ LeafFact(sent[i]) \in Within(Facts, Stem)
         /\ RestFact(i) \in Below(Facts, Stem)
         /\ Reports(Rest[i], RestFact(i))
         /\ Alone(Below(Facts, Stem), Rest[i], RestFact(i))
<1> DEFINE l == sent[i]
           f == LeafFact(l)
           q == Place(l)
           p == l.path
           b == l.below
           m == Len(p)
           n == Len(Stem)
           t == text[i]
           u == Rest[i]
           g == RestFact(i)
           W == Within(Facts, Stem)
           B == Below(Facts, Stem)
<1>1. /\ Stem \in Seq(Element) /\ n = Len(commonPathPrefix(Updates)) /\ n \in Nat
      /\ n < m /\ Up(p, n) = Stem
  BY StemElements
<1>2. /\ l \in Leaves /\ t \in Path /\ TextOf(t, p) /\ Len(t) = m
      /\ \A k \in DOMAIN p : t[k].name = p[k].name /\ ToSet(t[k].sel) = p[k].keys
  <2>1. l \in Leaves /\ t \in Path /\ TextOf(t, p)
    BY ResponseUpdates
  <2>2. QED BY <2>1 DEF TextOf
<1>3. /\ p \in Seq(Element) /\ m \in Nat /\ m > 0 /\ q \in Seq(Element) /\ Len(b) \in Nat
      /\ Len(q) = m + Len(b) /\ Up(q, m) = p /\ DOMAIN p = 1..m
      /\ (\A k \in 1..m : q[k] = p[k])
      /\ (\A k \in 1..Len(b) : q[m + k] = [name |-> b[k], keys |-> {}])
  <2>1. /\ p \in Seq(Element) /\ m \in Nat /\ m > 0 /\ q \in Seq(Element) /\ Len(b) \in Nat
        /\ Len(q) = m + Len(b) /\ Up(q, m) = p
        /\ (\A k \in 1..m : q[k] = p[k])
        /\ (\A k \in 1..Len(b) : q[m + k] = [name |-> b[k], keys |-> {}])
    BY <1>2, PlaceElements
  <2>2. QED BY <2>1
<1>4. /\ u.path = SubSeq(t, n + 1, m) /\ u.below = b /\ u.val = l.val /\ UpdateOK(u)
  <2>1. /\ UpdateOK(Rest[i])
        /\ Rest[i].path = SubSeq(text[i], Len(commonPathPrefix(Updates)) + 1, Len(text[i]))
        /\ Rest[i].below = sent[i].below /\ Rest[i].val = sent[i].val
    BY RestUpdates
  <2>2. QED BY <1>1, <1>2, <2>1
<1>5. f \in Facts /\ f.at = q /\ f.val = l.val
  BY <1>2, FactKinds DEF LeafFact
<1>6. g = CutFact(f, n)
  BY DEF RestFact
<1> HIDE DEF f, q, g, u, t
<1>7. f \in W
  <2> DEFINE d == Len(b)
             e == Len(q)
  <2>a. n \in Nat /\ n < m /\ m \in Nat /\ d \in Nat /\ e = m + d
    BY <1>1, <1>3
  <2>b. n \in 0..m /\ m \in 0..e /\ e > n
    <3> HIDE DEF n, m, d, e
    <3>1. QED BY <2>a
  <2>1. Len(q) > n
    BY <2>b
  <2>2. Up(q, n) = Stem
    <3>1. m \in 0..Len(q) /\ m <= Len(p) /\ Up(q, m) = Up(p, m) /\ n \in 0..m
      <4>1. Up(p, m) = p
        BY <1>3, UpWhole
      <4>2. m <= Len(p)
        BY <1>3
      <4>3. Up(q, m) = Up(p, m)
        BY <1>3, <4>1
      <4>4. QED BY <2>b, <4>2, <4>3
    <3> HIDE DEF m
    <3>2. Up(q, n) = Up(p, n)
      BY <1>3, <3>1, UpLess
    <3>3. QED BY <1>1, <3>2
  <2>3. QED BY <1>5, <2>1, <2>2 DEF Within
<1>8. g \in B
  BY <1>6, <1>7 DEF Below
<1>9. Coherent(Facts)
  BY FactsCoherent
<1>10. /\ g.at \in Seq(Element) /\ Len(g.at) = Len(q) - n /\ g.val = l.val
       /\ \A k \in 1..(Len(q) - n) : g.at[k] = q[n + k]
  <2>1. /\ CutFact(f, Len(Stem)).at \in Seq(Element) /\ Len(CutFact(f, Len(Stem)).at) = Len(f.at) - Len(Stem)
        /\ CutFact(f, Len(Stem)).val = f.val
        /\ \A k \in 1..(Len(f.at) - Len(Stem)) : CutFact(f, Len(Stem)).at[k] = f.at[Len(Stem) + k]
    <3>1. Coherent(Facts) /\ Stem \in Seq(Element) /\ f \in Within(Facts, Stem)
      BY <1>1, <1>7, <1>9
    <3>2. QED BY <3>1, CutFacts
  <2>2. QED BY <1>5, <1>6, <2>1
<1> HIDE DEF l, p, b, n, W, B
<1>11. /\ u.path \in Seq(Segment) /\ Len(u.path) = m - n /\ \A k \in 1..(m - n) : u.path[k] = t[n + k]
  <2>1. n \in 0..Len(t) /\ t \in Seq(Segment)
    BY <1>1, <1>2, <1>3 DEF Path
  <2>2. /\ SubSeq(t, n + 1, Len(t)) \in Seq(Segment) /\ Len(SubSeq(t, n + 1, Len(t))) = Len(t) - n
        /\ \A k \in 1..(Len(t) - n) : SubSeq(t, n + 1, Len(t))[k] = t[n + k]
    BY <2>1, RestPart
  <2>3. QED BY <1>2, <1>4, <2>2
<1> HIDE DEF m
<1>12. Len(u.path) > 0 /\ u.path # <<>> /\ m - n \in Nat
  BY <1>1, <1>3, <1>11
<1>13. Last(u.path) = t[m] /\ Last(p) = p[m] /\ m \in DOMAIN p
  <2>1. m - n \in 1..(m - n) /\ n + (m - n) = m
    BY <1>1, <1>3
  <2>2. u.path[m - n] = t[m]
    BY <1>11, <2>1
  <2>3. QED BY <1>3, <1>11, <2>2 DEF Last, m
<1>14. Last(u.path).sel = <<>> <=> Last(p).keys = {}
  <2> DEFINE s == t[m].sel
  <2>1. s \in Seq(STRING \X STRING)
    <3>1. t[m] \in Segment
      BY <1>2, <1>3 DEF Path
    <3>2. QED BY <3>1 DEF Segment
  <2>2. ToSet(s) = p[m].keys
    BY <1>2, <1>13
  <2>3. s = <<>> <=> ToSet(s) = {}
    <3> HIDE DEF s
    <3>1. s # <<>> => s[1] \in ToSet(s)
      BY <2>1 DEF ToSet
    <3>2. s = <<>> => ToSet(s) = {}
      BY DEF ToSet
    <3>3. QED BY <3>1, <3>2
  <2>4. QED BY <1>13, <2>2, <2>3
<1>15. Reports(u, g)
  <2>1. u.below \in Seq(STRING) /\ (Last(u.path).sel # <<>> => u.below # <<>>)
    BY <1>4, <1>12 DEF UpdateOK
  <2>2. Len(g.at) = Len(u.path) + Len(u.below)
    BY <1>1, <1>3, <1>4, <1>10, <1>11
  <2>3. ASSUME NEW k \in 1..Len(u.path)
        PROVE  u.path[k].name = g.at[k].name /\ ToSet(u.path[k].sel) = g.at[k].keys
    <3>1. k \in 1..(m - n) /\ k \in 1..(Len(q) - n) /\ n + k \in 1..m
      BY <1>1, <1>3, <1>11
    <3>2. u.path[k] = t[n + k] /\ g.at[k] = p[n + k]
      BY <1>3, <1>10, <1>11, <3>1
    <3>3. t[n + k].name = p[n + k].name /\ ToSet(t[n + k].sel) = p[n + k].keys
      BY <1>2, <1>3, <3>1
    <3>4. QED BY <3>2, <3>3
  <2>4. ASSUME NEW k \in 1..Len(u.below)
        PROVE  g.at[Len(u.path) + k] = [name |-> u.below[k], keys |-> {}]
    <3>1. k \in 1..Len(b) /\ Len(u.path) + k \in 1..(Len(q) - n) /\ n + (Len(u.path) + k) = m + k
      BY <1>1, <1>3, <1>4, <1>11
    <3>2. g.at[Len(u.path) + k] = q[n + (Len(u.path) + k)]
      BY <1>10, <3>1
    <3>3. QED BY <1>3, <1>4, <3>1, <3>2
  <2>5. u.path \in Path /\ g.val = u.val
    BY <1>4, <1>10, <1>11 DEF Path
  <2>6. QED BY <1>10, <1>12, <2>1, <2>2, <2>3, <2>4, <2>5 DEF Reports
<1>16. Alone(B, u, g)
  <2> DEFINE k == IF Last(u.path).sel = <<>> THEN Len(u.path) ELSE Len(u.path) + 1
  <2>1. n + k = Put(l) /\ k \in Nat
    BY <1>1, <1>3, <1>11, <1>14 DEF Put, m, p
  <2>2. k <= Len(q) - n
    <3>1. Last(u.path).sel # <<>> => Len(b) > 0
      <4>1. b \in Seq(STRING) /\ (Last(u.path).sel # <<>> => b # <<>>)
        BY <1>4, <1>12 DEF UpdateOK
      <4>2. QED BY <4>1
    <3>2. QED BY <1>1, <1>3, <1>11, <3>1
  <2>3. ASSUME NEW r \in B, k \in DOMAIN r.at, Up(r.at, k) = Up(g.at, k) PROVE r = g
    <3>1. PICK h \in W : r = CutFact(h, n)
      BY DEF B, W, n, Below
    <3> HIDE DEF k
    <3>2. h \in Facts /\ DOMAIN r.at = 1..(Len(h.at) - n) /\ Len(h.at) \in Nat
      <4>1. /\ h \in Facts /\ DOMAIN CutFact(h, Len(Stem)).at = 1..(Len(h.at) - Len(Stem))
            /\ Len(h.at) \in Nat
        BY <1>1, <1>9, CutFacts DEF W
      <4>2. QED BY <3>1, <4>1 DEF n
    <3>3. k <= Len(h.at) - n /\ Put(l) <= Len(h.at)
      <4>1. k \in 1..(Len(h.at) - n)
        BY <2>3, <3>2
      <4>2. QED BY <1>1, <2>1, <3>2, <4>1
    <3>4. Up(h.at, n + k) = Up(q, n + k)
      <4>1. h \in Within(Facts, Stem) /\ f \in Within(Facts, Stem) /\ k \in Nat
            /\ k <= Len(h.at) - Len(Stem) /\ k <= Len(f.at) - Len(Stem)
        BY <1>5, <1>7, <2>1, <2>2, <3>3 DEF W, n
      <4>2. Up(CutFact(h, Len(Stem)).at, k) = Up(CutFact(f, Len(Stem)).at, k)
        BY <1>6, <2>3, <3>1 DEF n
      <4>3. Up(h.at, Len(Stem) + k) = Up(f.at, Len(Stem) + k)
        BY <1>1, <1>9, <4>1, <4>2, CutSame
      <4>4. QED BY <1>5, <4>3 DEF n
    <3>5. h = f
      <4>1. Put(l) <= Len(h.at) /\ Up(h.at, Put(l)) = Up(Place(l), Put(l))
        BY <2>1, <3>3, <3>4 DEF q
      <4>2. h = LeafFact(l)
        BY <1>2, <3>2, <4>1, AloneFacts
      <4>3. QED BY <4>2 DEF f
    <3>6. QED BY <1>6, <3>1, <3>5
  <2>4. QED BY <2>3 DEF Alone
<1>17. QED BY <1>7, <1>8, <1>15, <1>16 DEF f, l, g, u, W, B

-----------------------------------------------------------------------------
(* Every leaf is in what its response is normalized to.                    *)

LEMMA JoinedParts ==
  ASSUME NEW X, NEW a \in Seq(X), NEW b \in Seq(X), NEW z \in Seq(X), Len(z) = Len(a) + Len(b),
         \A i \in 1..Len(a) : a[i] = z[i], \A i \in 1..Len(b) : b[i] = z[Len(a) + i]
  PROVE  a \o b = z
<1> DEFINE w == a \o b
<1>1. /\ w \in Seq(X) /\ Len(w) = Len(a) + Len(b) /\ (\A i \in 1..Len(a) : w[i] = a[i])
      /\ \A i \in 1..Len(b) : w[Len(a) + i] = b[i]
  BY JoinedElements
<1>2. Len(a) \in Nat /\ Len(b) \in Nat
  OBVIOUS
<1> HIDE DEF w
<1>3. ASSUME NEW i \in 1..Len(w) PROVE w[i] = z[i]
  <2>1. CASE i \in 1..Len(a)
    BY <1>1, <2>1
  <2>2. CASE i \notin 1..Len(a)
    <3>1. PICK j \in 1..Len(b) : i = Len(a) + j
      <4>1. i - Len(a) \in 1..Len(b) /\ i = Len(a) + (i - Len(a))
        BY <1>1, <1>2, <2>2
      <4>2. QED BY <4>1
    <3>2. QED BY <1>1, <3>1
  <2>3. QED BY <2>1, <2>2
<1>4. w = z
  BY <1>1, <1>3, SameElements
<1>5. QED BY <1>4 DEF w

\* The position of a fact below the common prefix has the names of its leaf.
LEMMA CarriedNames ==
  ASSUME WellFormed, TextInv, SlashFree, hasLeafUpdates(Updates), NEW i \in 1..Len(sent),
         NEW ix \in [Seq(Element) -> Nat]
  PROVE  LET r == RestFact(i).at
         IN  Names(commonPathPrefix(Updates)) \o StepNames(At(ix, r, Len(r))) = FullNames(sent[i])
<1> DEFINE l == sent[i]
           q == Place(l)
           p == l.path
           b == l.below
           m == Len(p)
           c == commonPathPrefix(Updates)
           n == Len(Stem)
           r == RestFact(i).at
           a == At(ix, r, Len(r))
           x == Names(c)
           y == StepNames(a)
           v == Names(p)
           z == [k \in 1..Len(q) |-> q[k].name]
<1>1. /\ Stem \in Seq(Element) /\ n = Len(c) /\ n \in Nat /\ c \in Path /\ n < m
      /\ \A k \in 1..n : c[k].name = p[k].name
  BY StemElements
<1>2. l \in Leaves /\ b \in Seq(STRING)
  BY ResponseUpdates, LeafPath
<1>3. /\ p \in Seq(Element) /\ m \in Nat /\ q \in Seq(Element) /\ Len(b) \in Nat
      /\ Len(q) = m + Len(b) /\ (\A k \in 1..m : q[k] = p[k])
      /\ (\A k \in 1..Len(b) : q[m + k] = [name |-> b[k], keys |-> {}])
  BY <1>2, PlaceElements
<1>4. /\ r \in Seq(Element) /\ Len(r) = Len(q) - n
      /\ \A k \in 1..(Len(q) - n) : r[k] = q[n + k]
  <2> DEFINE f == LeafFact(l)
             g == CutFact(f, Len(Stem))
  <2>1. Coherent(Facts) /\ Stem \in Seq(Element) /\ f \in Within(Facts, Stem)
    BY <1>1, FactsCoherent, RestReported
  <2>2. /\ g.at \in Seq(Element) /\ Len(g.at) = Len(f.at) - Len(Stem)
        /\ \A k \in 1..(Len(f.at) - Len(Stem)) : g.at[k] = f.at[Len(Stem) + k]
    BY <2>1, CutFacts
  <2>3. f.at = q /\ r = g.at
    BY DEF LeafFact, RestFact
  <2> HIDE DEF f, g, q, r, n
  <2>4. QED BY <2>2, <2>3 DEF n
<1>5. FullNames(l) = v \o b
  BY DEF FullNames
<1> HIDE DEF l, q, p, b, m, c, n, r
<1>6. z \in Seq(STRING) /\ Len(z) = Len(q) /\ \A k \in 1..Len(q) : z[k] = q[k].name
  <2>1. Len(q) \in Nat /\ \A k \in 1..Len(q) : q[k] \in Element
    BY <1>3
  <2>2. \A k \in 1..Len(q) : q[k].name \in STRING
    BY <2>1 DEF Element
  <2>3. QED BY <2>1, <2>2
<1>7. v \in Seq(STRING) /\ Len(v) = m /\ \A k \in 1..m : v[k] = p[k].name
  <2>1. DOMAIN p = 1..m /\ \A k \in 1..m : p[k] \in Element
    BY <1>3 DEF m
  <2>2. \A k \in 1..m : p[k].name \in STRING
    BY <2>1 DEF Element
  <2>3. v = [k \in 1..m |-> p[k].name]
    BY <2>1 DEF Names
  <2> HIDE DEF v
  <2>4. QED BY <1>3, <2>2, <2>3
<1>8. x \in Seq(STRING) /\ Len(x) = n /\ \A k \in 1..n : x[k] = c[k].name
  BY <1>1, NamesElements
<1>9. Len(r) \in 0..Len(r) /\ Len(r) \in Nat
  BY <1>4
<1>10. /\ a \in Position /\ Len(a) = Len(r) /\ \A k \in 1..Len(r) : a[k][1] = r[k].name
  BY <1>4, <1>9, AtElements
<1> HIDE DEF a
<1>11. y \in Seq(STRING) /\ Len(y) = Len(r) /\ \A k \in 1..Len(r) : y[k] = r[k].name
  BY <1>10, StepNamesElements
<1> HIDE DEF x, y, z, v
<1>12. x \o y = z
  <2>1. Len(z) = Len(x) + Len(y)
    BY <1>1, <1>3, <1>4, <1>6, <1>8, <1>11
  <2>2. \A k \in 1..Len(x) : x[k] = z[k]
    <3>1. ASSUME NEW k \in 1..n PROVE x[k] = z[k]
      <4>1. k \in 1..m /\ k \in 1..Len(q)
        BY <1>1, <1>3
      <4>2. QED BY <1>1, <1>3, <1>6, <1>8, <4>1
    <3>2. QED BY <1>8, <3>1
  <2>3. \A k \in 1..Len(y) : y[k] = z[Len(x) + k]
    <3>1. ASSUME NEW k \in 1..Len(r) PROVE y[k] = z[n + k]
      <4>1. k \in 1..(Len(q) - n) /\ n + k \in 1..Len(q)
        BY <1>1, <1>3, <1>4
      <4>2. QED BY <1>4, <1>6, <1>11, <4>1
    <3>2. QED BY <1>8, <1>11, <3>1
  <2>4. QED BY <1>6, <1>8, <1>11, <2>1, <2>2, <2>3, JoinedParts
<1>13. v \o b = z
  <2>1. Len(z) = Len(v) + Len(b)
    BY <1>3, <1>6, <1>7
  <2>2. \A k \in 1..Len(v) : v[k] = z[k]
    <3>1. ASSUME NEW k \in 1..m PROVE v[k] = z[k]
      <4>1. k \in 1..Len(q)
        BY <1>3
      <4>2. QED BY <1>3, <1>6, <1>7, <4>1
    <3>2. QED BY <1>7, <3>1
  <2>3. \A k \in 1..Len(b) : b[k] = z[Len(v) + k]
    <3>1. ASSUME NEW k \in 1..Len(b) PROVE b[k] = z[m + k]
      <4>1. m + k \in 1..Len(q)
        BY <1>3
      <4>2. z[m + k] = q[m + k].name
        BY <1>6, <4>1
      <4> DEFINE d == q[m + k]
                 s == b[k]
      <4>3. d = [name |-> s, keys |-> {}]
        BY <1>3
      <4> HIDE DEF d, s
      <4>4. d.name = s
        BY <4>3
      <4>5. QED BY <4>2, <4>4 DEF d, s
    <3>2. QED BY <1>7, <3>1
  <2>4. QED BY <1>2, <1>6, <1>7, <2>1, <2>2, <2>3, JoinedParts
<1>14. QED BY <1>5, <1>12, <1>13 DEF x, y, a, c, r, l

\* A leaf of a response that becomes one tree.
LEMMA KeptWithin ==
  ASSUME WellFormed, TextInv, SlashFree, hasLeafUpdates(Updates), NEW i \in 1..Len(sent),
         NEW u, u.path = commonPathPrefix(Updates), u.tree = FoldLeft(AddUpdate, <<>>, Rest)
  PROVE  \E at \in Carries(u, sent[i]) : Identified(u, at, sent[i])
<1> DEFINE l == sent[i]
           p == l.path
           g == RestFact(i)
           r == g.at
           c == commonPathPrefix(Updates)
           n == Len(Stem)
           B == Below(Facts, Stem)
           t == u.tree
           H == {RestFact(k) : k \in 1..Len(sent)}
<1>1. /\ Stem \in Seq(Element) /\ n = Len(c) /\ n \in Nat
      /\ p \in Seq(Element) /\ n < Len(p)
      /\ \A k \in 1..n : ToSet(c[k].sel) = p[k].keys
  BY StemElements
<1>2. l \in Leaves
  BY ResponseUpdates
<1>3. Coherent(Facts) /\ Coherent(B)
  BY <1>1, FactsCoherent, BelowCoherent
<1>4. PICK E, ix : Represents(t, B, E, ix) /\ H \subseteq E
  <2> DEFINE G == [k \in 1..Len(sent) |-> RestFact(k)]
  <2>1. Len(sent) \in Nat /\ DOMAIN Rest = 1..Len(sent)
    BY ResponseUpdates, RestUpdates
  <2>2. \A k \in 1..Len(sent) : G[k] \in B /\ Reports(Rest[k], G[k]) /\ Alone(B, Rest[k], G[k])
    <3>1. ASSUME NEW k \in 1..Len(sent)
          PROVE  G[k] \in B /\ Reports(Rest[k], G[k]) /\ Alone(B, Rest[k], G[k])
      <4>1. /\ RestFact(k) \in Below(Facts, Stem) /\ Reports(Rest[k], RestFact(k))
            /\ Alone(Below(Facts, Stem), Rest[k], RestFact(k))
        BY RestReported
      <4>2. G[k] = RestFact(k)
        OBVIOUS
      <4> HIDE DEF G
      <4>3. QED BY <4>1, <4>2
    <3>2. QED BY <3>1
  <2>3. {G[k] : k \in 1..Len(sent)} = H
    OBVIOUS
  <2> HIDE DEF G, B, H
  <2>4. HasFacts(FoldLeft(AddUpdate, <<>>, Rest), B, {G[k] : k \in 1..Len(sent)})
    BY <1>3, <2>1, <2>2, FactsFolded
  <2>5. QED BY <2>3, <2>4 DEF HasFacts
<1>5. g \in E
  BY <1>4
<1>6. /\ LeafFact(l) \in Within(Facts, Stem) /\ g = CutFact(LeafFact(l), n)
      /\ g.val = l.val
  BY RestReported DEF RestFact, CutFact, LeafFact
<1>7. /\ r \in Seq(Element) /\ Len(r) \in Nat /\ Len(r) = Len(Place(l)) - n
      /\ \A k \in 1..Len(r) : r[k] = Place(l)[n + k]
  <2> DEFINE f == LeafFact(l)
             h == CutFact(f, Len(Stem))
  <2>1. /\ h.at \in Seq(Element) /\ Len(h.at) = Len(f.at) - Len(Stem)
        /\ \A k \in 1..(Len(f.at) - Len(Stem)) : h.at[k] = f.at[Len(Stem) + k]
    <3>1. Coherent(Facts) /\ Stem \in Seq(Element) /\ f \in Within(Facts, Stem)
      BY <1>1, <1>3, <1>6
    <3>2. QED BY <3>1, CutFacts
  <2>2. f.at = Place(l) /\ r = h.at
    BY <1>6 DEF LeafFact
  <2> HIDE DEF f, h, r, l, n
  <2>3. QED BY <2>1, <2>2 DEF n
<1>8. /\ ix \in [Seq(Element) -> Nat]
      /\ DOMAIN t = {At(ix, f.at, Len(f.at)) : f \in E}
      /\ (\A f \in E : t[At(ix, f.at, Len(f.at))] = f.val)
      /\ (\A f \in E : \A j \in DOMAIN f.at : \A kv \in f.at[j].keys :
            \E h \in E : h.at = KeyPlace(Up(f.at, j), kv) /\ h.val = kv[2])
  BY <1>4 DEF Represents
<1> DEFINE a == At(ix, r, Len(r))
<1>9. a \in DOMAIN t /\ t[a] = l.val
  BY <1>5, <1>6, <1>8
<1>10. Names(u.path) \o StepNames(a) = FullNames(l)
  BY <1>8, CarriedNames
<1>11. a \in Carries(u, l)
  BY <1>9, <1>10 DEF Carries
<1>12. ASSUME NEW k \in DOMAIN p, NEW kv \in p[k].keys, ~(k <= n)
       PROVE  LET q == Append(SubSeq(a, 1, k - n), <<kv[1], 0>>)
              IN  q \in DOMAIN t /\ t[q] = kv[2]
  <2> DEFINE m == Len(p)
             q == Append(SubSeq(a, 1, k - n), <<kv[1], 0>>)
  <2>1. k \in 1..m /\ m \in Nat
    BY <1>1
  <2>2. /\ Len(Place(l)) = m + Len(l.below) /\ Len(l.below) \in Nat
        /\ \A o \in 1..m : Place(l)[o] = p[o]
    BY <1>2, PlaceElements
  <2>3. PICK j \in 1..Len(r) : k = n + j
    <3> DEFINE d == Len(l.below)
               e == Len(Place(l))
               o == Len(r)
    <3>1. /\ o = e - n /\ e = m + d /\ d \in Nat /\ m \in Nat /\ n \in Nat /\ k \in 1..m
      BY <1>1, <1>7, <2>1, <2>2
    <3> HIDE DEF d, e, o, m, n
    <3>2. k - n \in 1..o /\ k = n + (k - n)
      BY <1>12, <3>1
    <3>3. QED BY <3>2 DEF o
  <2>4. r[j] = p[k] /\ k - n = j
    <3>1. r[j] = Place(l)[n + j]
      BY <1>7, <2>3
    <3>2. Place(l)[k] = p[k]
      BY <2>1, <2>2
    <3>3. QED BY <1>1, <1>7, <2>3, <3>1, <3>2
  <2>5. j \in DOMAIN r /\ kv \in r[j].keys
    BY <1>7, <1>12, <2>4
  <2>6. PICK h \in E : h.at = KeyPlace(Up(r, j), kv) /\ h.val = kv[2]
    BY <1>5, <1>8, <2>5
  <2>7. kv[1] \in STRING
    <3>1. r[j] \in Element
      BY <1>7
    <3>2. r[j].keys \subseteq STRING \X STRING
      BY <3>1 DEF Element
    <3>3. kv \in STRING \X STRING
      BY <2>5, <3>2
    <3>4. QED BY <3>3
  <2> HIDE DEF l, p, g, r, n
  <2>8. Len(h.at) = j + 1 /\ At(ix, h.at, j + 1) = Append(At(ix, r, j), <<kv[1], 0>>)
    <3>1. /\ ix \in [Seq(Element) -> Nat] /\ r \in Seq(Element) /\ j \in 1..Len(r)
          /\ kv[1] \in STRING
      BY <1>7, <1>8, <2>7
    <3> DEFINE o == KeyPlace(Up(r, j), kv)
    <3>2. Len(o) = j + 1 /\ At(ix, o, j + 1) = Append(At(ix, r, j), <<kv[1], 0>>)
      BY <3>1, KeyPosition
    <3> HIDE DEF o
    <3>3. h.at = o
      BY <2>6 DEF o
    <3>4. QED BY <3>2, <3>3
  <2>9. SubSeq(a, 1, j) = At(ix, r, j)
    <3> DEFINE b == SubSeq(a, 1, j)
               d == At(ix, r, j)
               s == Len(r)
    <3>1. s \in 0..Len(r) /\ j \in 0..Len(r) /\ j \in 0..s
      BY <1>7
    <3>2. a \in Seq(Step) /\ Len(a) = s /\ \A o \in 1..s : a[o] = <<r[o].name, Number(ix, r, o)>>
      <4> HIDE DEF s
      <4>1. /\ At(ix, r, s) \in Position /\ Len(At(ix, r, s)) = s
            /\ \A o \in 1..s : At(ix, r, s)[o] = <<r[o].name, Number(ix, r, o)>>
        BY <1>7, <1>8, <3>1, AtElements
      <4>2. QED BY <4>1 DEF Position, s
    <3>3. d \in Seq(Step) /\ Len(d) = j /\ \A o \in 1..j : d[o] = <<r[o].name, Number(ix, r, o)>>
      BY <1>7, <1>8, <3>1, AtElements DEF Position
    <3> HIDE DEF a, d
    <3>4. b \in Seq(Step) /\ Len(b) = j /\ \A o \in 1..j : b[o] = a[o]
      BY <3>1, <3>2, PrefixPart
    <3> HIDE DEF b
    <3>5. \A o \in 1..Len(b) : b[o] = d[o]
      <4>1. \A o \in 1..j : o \in 1..s
        BY <1>7, <3>1
      <4>2. QED BY <3>2, <3>3, <3>4, <4>1
    <3>6. b = d
      BY <3>3, <3>4, <3>5, SameElements
    <3>7. QED BY <3>6 DEF b, d
  <2>10. q = At(ix, h.at, Len(h.at))
    BY <2>4, <2>8, <2>9
  <2>11. QED BY <1>8, <2>6, <2>10
<1>13. Identified(u, a, l)
  <2>1. ASSUME NEW k \in DOMAIN p, NEW kv \in p[k].keys
        PROVE  IF k <= Len(u.path) THEN kv \in ToSet(u.path[k].sel)
               ELSE LET q == Append(SubSeq(a, 1, k - Len(u.path)), <<kv[1], 0>>)
                    IN  q \in DOMAIN u.tree /\ u.tree[q] = kv[2]
    <3>1. CASE k <= n
      <4>1. k \in 1..n
        BY <1>1, <3>1
      <4>2. QED BY <1>1, <3>1, <4>1
    <3>2. CASE ~(k <= n)
      <4>1. Append(SubSeq(a, 1, k - n), <<kv[1], 0>>) \in DOMAIN t
            /\ t[Append(SubSeq(a, 1, k - n), <<kv[1], 0>>)] = kv[2]
        BY <1>12, <3>2
      <4>2. QED BY <1>1, <3>2, <4>1
    <3>3. QED BY <3>1, <3>2
  <2> HIDE DEF l, a
  <2>2. \A k \in DOMAIN l.path : \A kv \in l.path[k].keys :
          IF k <= Len(u.path) THEN kv \in ToSet(u.path[k].sel)
          ELSE LET q == Append(SubSeq(a, 1, k - Len(u.path)), <<kv[1], 0>>)
               IN  q \in DOMAIN u.tree /\ u.tree[q] = kv[2]
    BY <2>1, Zenon
  <2>3. QED BY <2>2, Zenon DEF Identified, Tells
<1>14. QED BY <1>11, <1>13 DEF a, l

\* A leaf of a response that is left as it is.
LEMMA KeptAlone ==
  ASSUME TextInv, NEW i \in 1..Len(sent), NEW u,
         u = [path |-> text[i], tree |-> [at \in {Plain(sent[i].below)} |-> sent[i].val]]
  PROVE  \E at \in Carries(u, sent[i]) : Identified(u, at, sent[i])
<1> DEFINE l == sent[i]
           t == text[i]
           b == l.below
           a == Plain(b)
<1>1. l \in Leaves /\ TextOf(t, l.path)
  BY ResponseUpdates
<1>2. PathOK(l.path) /\ b \in Seq(STRING) /\ 0 \in 0..Len(l.path)
  BY <1>1, LeafPath DEF PathOK
<1>3. u.path = t /\ DOMAIN u.tree = {a} /\ u.tree[a] = l.val
  OBVIOUS
<1> HIDE DEF l, t, b, a
<1>4. Names(t) = Names(l.path)
  BY <1>1, <1>2, TextNames
<1>5. StepNames(a) = b
  BY <1>2, PlainPosition DEF a
<1>6. a \in Carries(u, l)
  BY <1>3, <1>4, <1>5 DEF Carries, FullNames, b
<1>7. ASSUME NEW k \in DOMAIN l.path, NEW kv \in l.path[k].keys
      PROVE  k <= Len(u.path) /\ kv \in ToSet(u.path[k].sel)
  <2>1. Len(t) = Len(l.path) /\ ToSet(t[k].sel) = l.path[k].keys
    BY <1>1 DEF TextOf
  <2>2. k <= Len(l.path)
    BY <1>2 DEF PathOK
  <2>3. QED BY <1>3, <2>1, <2>2
<1>8. Identified(u, a, l)
  BY <1>7 DEF Identified, Tells
<1>9. QED BY <1>6, <1>8 DEF l

LEMMA LeafKept ==
  ASSUME WellFormed, TextInv, SlashFree, NEW i \in 1..Len(sent)
  PROVE  \E u \in Normalized : \E at \in Carries(u, sent[i]) : Identified(u, at, sent[i])
<1>1. CASE hasLeafUpdates(Updates)
  <2> DEFINE w == [path |-> commonPathPrefix(Updates), tree |-> buildTreeFromUpdates(Updates)]
  <2>1. NormalizeSubscribeNotifications(Updates) = <<w>>
    BY <1>1 DEF NormalizeSubscribeNotifications
  <2>2. w \in Normalized
    <3> HIDE DEF w
    <3>1. w \in ToSet(<<w>>)
      BY DEF ToSet
    <3>2. QED BY <2>1, <3>1 DEF Normalized
  <2>3. w.path = commonPathPrefix(Updates) /\ w.tree = FoldLeft(AddUpdate, <<>>, Rest)
    <3>1. prefixLen(commonPathPrefix(Updates)) = Len(commonPathPrefix(Updates))
      BY <1>1, CommonPrefix
    <3>2. buildTreeFromUpdates(Updates) = FoldLeft(AddUpdate, <<>>, Rest)
      BY <3>1 DEF buildTreeFromUpdates, Rest
    <3>3. QED BY <3>2
  <2> HIDE DEF w
  <2>4. \E at \in Carries(w, sent[i]) : Identified(w, at, sent[i])
    BY <1>1, <2>3, KeptWithin
  <2>5. QED BY <2>2, <2>4
<1>2. CASE ~hasLeafUpdates(Updates)
  <2> DEFINE g == [k \in DOMAIN Updates |->
                     [path |-> Updates[k].path,
                      tree |-> [at \in {Plain(Updates[k].below)} |-> Updates[k].val]]]
             u == [path |-> text[i], tree |-> [at \in {Plain(sent[i].below)} |-> sent[i].val]]
  <2>1. NormalizeSubscribeNotifications(Updates) = g
    BY <1>2 DEF NormalizeSubscribeNotifications
  <2>2. /\ i \in DOMAIN Updates /\ Updates[i].path = text[i]
        /\ Updates[i].below = sent[i].below /\ Updates[i].val = sent[i].val
    BY ResponseUpdates
  <2>3. g[i] = u /\ DOMAIN g = DOMAIN Updates
    BY <2>2
  <2> HIDE DEF g
  <2>4. u \in Normalized
    <3> HIDE DEF u
    <3>1. g[i] \in ToSet(g)
      BY <2>2, <2>3 DEF ToSet
    <3>2. QED BY <2>1, <2>3, <3>1 DEF Normalized
  <2>5. \E at \in Carries(u, sent[i]) : Identified(u, at, sent[i])
    BY KeptAlone
  <2>6. QED BY <2>4, <2>5
<1>3. QED BY <1>1, <1>2

\* However the switch orders and splits a response, every leaf of it reaches
\* the transformer at its place, with the keys of the list entries it belongs
\* to, if the leaves are those of a tree: of client.go 482-774, as long as the
\* prefix is counted right.
THEOREM EveryLeafKept ==
  ASSUME WellFormed
  PROVE  Spec => []FactsPreserved
<1>1. TextInv => FactsPreserved
  <2>1. TextInv => DOMAIN sent = 1..Len(sent)
    BY ResponseUpdates
  <2>2. QED BY <2>1, LeafKept DEF FactsPreserved
<1>2. QED BY <1>1, TextInvariant, PTL

-----------------------------------------------------------------------------
(* What a subscribed path is given.                                        *)

\* The names that lead to position p of u.
Reading(u, p) == Names(u.path) \o StepNames(p)

\* An update that may be drilled into: its value is a scalar, or a map.
Routable(u) ==
  /\ u.path \in Path /\ DOMAIN u.tree \subseteq Position
  /\ <<>> \in DOMAIN u.tree => DOMAIN u.tree = {<<>>}

\* Position p of d is position q of u.
Same(d, p, u, q) == d.tree[p] = u.tree[q] /\ Reading(d, p) = Reading(u, q)

LEMMA JoinedThrice ==
  ASSUME NEW X, NEW a \in Seq(X), NEW b \in Seq(X), NEW c \in Seq(X)
  PROVE  (a \o b) \o c = a \o (b \o c)
<1> DEFINE x == a \o b
           y == b \o c
           z == a \o y
<1>1. /\ x \in Seq(X) /\ Len(x) = Len(a) + Len(b) /\ (\A i \in 1..Len(a) : x[i] = a[i])
      /\ \A i \in 1..Len(b) : x[Len(a) + i] = b[i]
  BY JoinedElements
<1>2. /\ y \in Seq(X) /\ Len(y) = Len(b) + Len(c) /\ (\A i \in 1..Len(b) : y[i] = b[i])
      /\ \A i \in 1..Len(c) : y[Len(b) + i] = c[i]
  BY JoinedElements
<1> HIDE DEF x, y
<1>3. /\ z \in Seq(X) /\ Len(z) = Len(a) + Len(y) /\ (\A i \in 1..Len(a) : z[i] = a[i])
      /\ \A i \in 1..Len(y) : z[Len(a) + i] = y[i]
  <2>1. a \in Seq(X) /\ y \in Seq(X)
    BY <1>2
  <2>2. QED BY <2>1, JoinedElements
<1> HIDE DEF z
<1>4. Len(a) \in Nat /\ Len(b) \in Nat /\ Len(c) \in Nat
  OBVIOUS
<1>5. Len(z) = Len(x) + Len(c)
  BY <1>1, <1>2, <1>3, <1>4
<1>6. ASSUME NEW i \in 1..Len(x) PROVE x[i] = z[i]
  <2>1. CASE i \in 1..Len(a)
    BY <1>1, <1>3, <2>1
  <2>2. CASE i \notin 1..Len(a)
    <3>1. PICK j \in 1..Len(b) : i = Len(a) + j
      <4>1. i - Len(a) \in 1..Len(b) /\ i = Len(a) + (i - Len(a))
        BY <1>1, <1>4, <2>2
      <4>2. QED BY <4>1
    <3>2. j \in 1..Len(y)
      BY <1>2, <1>4
    <3>3. QED BY <1>1, <1>2, <1>3, <3>1, <3>2
  <2>3. QED BY <2>1, <2>2
<1>7. ASSUME NEW i \in 1..Len(c) PROVE c[i] = z[Len(x) + i]
  <2>1. Len(b) + i \in 1..Len(y) /\ Len(a) + (Len(b) + i) = Len(x) + i
    BY <1>1, <1>2, <1>4
  <2>2. z[Len(a) + (Len(b) + i)] = y[Len(b) + i]
    BY <1>3, <2>1
  <2>3. QED BY <1>2, <2>1, <2>2
<1>8. x \o c = z
  BY <1>1, <1>3, <1>5, <1>6, <1>7, JoinedParts
<1>9. QED BY <1>8 DEF x, y, z

\* A sequence in two parts.
LEMMA JoinedRest ==
  ASSUME NEW X, NEW a \in Seq(X), NEW b \in Seq(X)
  PROVE  SubSeq(a \o b, Len(a) + 1, Len(a \o b)) = b
<1> DEFINE w == a \o b
           n == Len(a)
           r == SubSeq(w, n + 1, Len(w))
<1>1. /\ w \in Seq(X) /\ Len(w) = n + Len(b) /\ \A i \in 1..Len(b) : w[n + i] = b[i]
  BY JoinedElements
<1>2. n \in Nat /\ Len(b) \in Nat
  OBVIOUS
<1> HIDE DEF w, n
<1>3. n \in 0..Len(w) /\ Len(w) - n = Len(b)
  BY <1>1, <1>2
<1>4. r \in Seq(X) /\ Len(r) = Len(w) - n /\ \A i \in 1..(Len(w) - n) : r[i] = w[n + i]
  BY <1>1, <1>3, RestPart
<1> HIDE DEF r
<1>5. \A i \in 1..Len(r) : r[i] = b[i]
  BY <1>1, <1>3, <1>4
<1>6. r = b
  BY <1>3, <1>4, <1>5, SameElements
<1>7. QED BY <1>6 DEF r, w, n

LEMMA SplitJoined ==
  ASSUME NEW X, NEW s \in Seq(X), NEW n \in 0..Len(s)
  PROVE  SubSeq(s, 1, n) \o SubSeq(s, n + 1, Len(s)) = s
<1> DEFINE a == SubSeq(s, 1, n)
           b == SubSeq(s, n + 1, Len(s))
<1>1. a \in Seq(X) /\ Len(a) = n /\ \A i \in 1..n : a[i] = s[i]
  BY PrefixPart
<1>2. b \in Seq(X) /\ Len(b) = Len(s) - n /\ \A i \in 1..(Len(s) - n) : b[i] = s[n + i]
  BY RestPart
<1> HIDE DEF a, b
<1>3. Len(s) = Len(a) + Len(b) /\ (\A i \in 1..Len(a) : a[i] = s[i])
      /\ \A i \in 1..Len(b) : b[i] = s[Len(a) + i]
  BY <1>1, <1>2
<1>4. a \o b = s
  BY <1>1, <1>2, <1>3, JoinedParts
<1>5. QED BY <1>4 DEF a, b

\* A sequence begins with its first part.
LEMMA JoinedPrefix ==
  ASSUME NEW X, NEW a \in Seq(X), NEW b \in Seq(X)
  PROVE  IsPrefix(a, a \o b)
<1> DEFINE w == a \o b
<1>1. w \in Seq(X) /\ Len(w) = Len(a) + Len(b) /\ \A i \in 1..Len(a) : w[i] = a[i]
  BY JoinedElements
<1> HIDE DEF w
<1>2. Len(a) <= Len(w)
  BY <1>1
<1>3. IsPrefix(a, w)
  BY <1>1, <1>2, PrefixElements
<1>4. QED BY <1>3 DEF w

\* A path without its keys.
LEMMA UnkeyedElements ==
  ASSUME NEW s \in Path
  PROVE  /\ Unkeyed(s) \in Path /\ Len(Unkeyed(s)) = Len(s)
         /\ \A i \in 1..Len(s) : Unkeyed(s)[i] = [name |-> s[i].name, sel |-> <<>>]
<1>1. DOMAIN s = 1..Len(s) /\ Len(s) \in Nat /\ \A i \in 1..Len(s) : s[i] \in Segment
  BY DEF Path
<1>2. ASSUME NEW i \in 1..Len(s) PROVE [name |-> s[i].name, sel |-> <<>>] \in Segment
  <2>1. s[i].name \in STRING /\ <<>> \in Seq(STRING \X STRING)
    BY <1>1 DEF Segment
  <2>2. QED BY <2>1 DEF Segment
<1>3. Unkeyed(s) = [i \in 1..Len(s) |-> [name |-> s[i].name, sel |-> <<>>]]
  BY <1>1 DEF Unkeyed
<1>4. QED BY <1>1, <1>2, <1>3 DEF Path

Bare(sp) == sp \in Path /\ \A k \in DOMAIN sp : sp[k].sel = <<>>

\* Paths that are compared without keys are compared by their names.
LEMMA BareEqual ==
  ASSUME NEW sp, Bare(sp), NEW t \in Path, NEW n \in Nat, n <= Len(sp), n <= Len(t)
  PROVE  (\A i \in 1..n : sp[i] = Unkeyed(t)[i]) <=> \A i \in 1..n : sp[i].name = t[i].name
<1>1. DOMAIN sp = 1..Len(sp) /\ Len(sp) \in Nat /\ Len(t) \in Nat /\ \A i \in 1..Len(sp) : sp[i] \in Segment
  BY DEF Bare, Path
<1>2. ASSUME NEW i \in 1..n PROVE sp[i] = Unkeyed(t)[i] <=> sp[i].name = t[i].name
  <2> DEFINE a == sp[i]
             b == t[i].name
  <2>1. i \in 1..Len(sp) /\ i \in 1..Len(t)
    BY <1>1
  <2>2. a \in Segment /\ a.sel = <<>>
    BY <1>1, <2>1 DEF Bare
  <2>3. Unkeyed(t)[i] = [name |-> b, sel |-> <<>>]
    BY <2>1, UnkeyedElements
  <2> HIDE DEF a, b
  <2>4. a = [name |-> b, sel |-> <<>>] <=> a.name = b
    BY <2>2 DEF Segment
  <2>5. QED BY <2>3, <2>4 DEF a, b
<1>3. QED BY <1>2

\* The names of the first n segments are the same.
SameNames(sp, t, n) == \A i \in 1..n : sp[i].name = t[i].name

LEMMA BareNames ==
  ASSUME NEW sp, Bare(sp), NEW t \in Path
  PROVE  /\ Unkeyed(t) = sp <=> Len(t) = Len(sp) /\ SameNames(sp, t, Len(sp))
         /\ IsStrictPrefix(sp, Unkeyed(t)) <=> Len(sp) < Len(t) /\ SameNames(sp, t, Len(sp))
         /\ IsStrictPrefix(Unkeyed(t), sp) <=> Len(t) < Len(sp) /\ SameNames(sp, t, Len(t))
<1> DEFINE w == Unkeyed(t)
<1>1. sp \in Seq(Segment) /\ Len(sp) \in Nat
  BY DEF Bare, Path
<1>2. w \in Seq(Segment) /\ Len(w) = Len(t) /\ Len(t) \in Nat
  <2>1. w \in Path /\ Len(w) = Len(t)
    BY UnkeyedElements
  <2>2. t \in Seq(Segment)
    BY DEF Path
  <2>3. QED BY <2>1, <2>2 DEF Path
<1>3. ASSUME NEW n \in Nat, n <= Len(sp), n <= Len(t)
      PROVE  (\A i \in 1..n : sp[i] = w[i]) <=> SameNames(sp, t, n)
  BY <1>3, BareEqual DEF SameNames
<1> HIDE DEF w
<1>4. IsPrefix(sp, w) <=> Len(sp) <= Len(w) /\ \A i \in 1..Len(sp) : sp[i] = w[i]
  BY <1>1, <1>2, PrefixElements
<1>5. IsPrefix(w, sp) <=> Len(w) <= Len(sp) /\ \A i \in 1..Len(w) : w[i] = sp[i]
  BY <1>1, <1>2, PrefixElements
<1>6. w = sp <=> Len(w) = Len(sp) /\ \A i \in 1..Len(sp) : sp[i] = w[i]
  <2>1. Len(w) = Len(sp) /\ (\A i \in 1..Len(sp) : sp[i] = w[i]) => sp = w
    BY <1>1, <1>2, SameElements
  <2>2. QED BY <2>1
<1>7. w = sp <=> Len(t) = Len(sp) /\ SameNames(sp, t, Len(sp))
  BY <1>1, <1>2, <1>3, <1>6
<1>8. IsStrictPrefix(sp, w) <=> Len(sp) < Len(t) /\ SameNames(sp, t, Len(sp))
  <2>1. CASE Len(sp) < Len(t)
    <3>1. sp # w
      BY <1>1, <1>2, <2>1
    <3>2. IsPrefix(sp, w) <=> SameNames(sp, t, Len(sp))
      BY <1>1, <1>2, <1>3, <1>4, <2>1
    <3>3. QED BY <2>1, <3>1, <3>2 DEF IsStrictPrefix
  <2>2. CASE ~(Len(sp) < Len(t))
    <3>1. IsPrefix(sp, w) => sp = w
      <4>1. SUFFICES ASSUME IsPrefix(sp, w) PROVE sp = w
        OBVIOUS
      <4>2. Len(sp) = Len(w) /\ \A i \in 1..Len(sp) : sp[i] = w[i]
        BY <1>1, <1>2, <1>4, <2>2, <4>1
      <4>3. QED BY <1>6, <4>2
    <3>2. QED BY <2>2, <3>1 DEF IsStrictPrefix
  <2>3. QED BY <2>1, <2>2
<1>9. IsStrictPrefix(w, sp) <=> Len(t) < Len(sp) /\ SameNames(sp, t, Len(t))
  <2>1. CASE Len(t) < Len(sp)
    <3>1. sp # w
      BY <1>1, <1>2, <2>1
    <3>2. IsPrefix(w, sp) <=> SameNames(sp, t, Len(t))
      <4>1. (\A i \in 1..Len(t) : sp[i] = w[i]) <=> SameNames(sp, t, Len(t))
        BY <1>1, <1>2, <1>3, <2>1
      <4>2. IsPrefix(w, sp) <=> \A i \in 1..Len(t) : sp[i] = w[i]
        BY <1>1, <1>2, <1>5, <2>1
      <4>3. QED BY <4>1, <4>2
    <3>3. QED BY <2>1, <3>1, <3>2 DEF IsStrictPrefix
  <2>2. CASE ~(Len(t) < Len(sp))
    <3>1. IsPrefix(w, sp) => sp = w
      <4>1. SUFFICES ASSUME IsPrefix(w, sp) PROVE sp = w
        OBVIOUS
      <4>2. Len(sp) = Len(w) /\ \A i \in 1..Len(sp) : sp[i] = w[i]
        BY <1>1, <1>2, <1>5, <2>2, <4>1
      <4>3. QED BY <1>6, <4>2
    <3>2. QED BY <2>2, <3>1 DEF IsStrictPrefix
  <2>3. QED BY <2>1, <2>2
<1>10. QED BY <1>7, <1>8, <1>9 DEF w

\* A reading begins with the names of a subscribed path.
LEMMA ReadingPrefix ==
  ASSUME NEW u, Routable(u), NEW q \in DOMAIN u.tree, NEW sp \in Path
  PROVE  /\ q \in Position /\ Reading(u, q) \in Seq(STRING)
         /\ Len(Reading(u, q)) = Len(u.path) + Len(q)
         /\ \A i \in 1..Len(u.path) : Reading(u, q)[i] = u.path[i].name
         /\ \A i \in 1..Len(q) : Reading(u, q)[Len(u.path) + i] = q[i][1]
         /\ IsPrefix(Names(sp), Reading(u, q)) <=>
              Len(sp) <= Len(u.path) + Len(q) /\ \A i \in 1..Len(sp) : sp[i].name = Reading(u, q)[i]
<1> DEFINE a == Names(u.path)
           b == StepNames(q)
           w == a \o b
           v == Names(sp)
<1>1. u.path \in Path /\ q \in Position
  BY DEF Routable
<1>2. a \in Seq(STRING) /\ Len(a) = Len(u.path) /\ \A i \in 1..Len(u.path) : a[i] = u.path[i].name
  BY <1>1, NamesElements
<1>3. b \in Seq(STRING) /\ Len(b) = Len(q) /\ \A i \in 1..Len(q) : b[i] = q[i][1]
  BY <1>1, StepNamesElements
<1>4. v \in Seq(STRING) /\ Len(v) = Len(sp) /\ \A i \in 1..Len(sp) : v[i] = sp[i].name
  BY NamesElements
<1>5. Reading(u, q) = w
  BY DEF Reading
<1> HIDE DEF a, b, v
<1>6. /\ w \in Seq(STRING) /\ Len(w) = Len(a) + Len(b) /\ (\A i \in 1..Len(a) : w[i] = a[i])
      /\ \A i \in 1..Len(b) : w[Len(a) + i] = b[i]
  <2>1. a \in Seq(STRING) /\ b \in Seq(STRING)
    BY <1>2, <1>3
  <2>2. QED BY <2>1, JoinedElements
<1> HIDE DEF w
<1>7. IsPrefix(v, w) <=> Len(v) <= Len(w) /\ \A i \in 1..Len(v) : v[i] = w[i]
  <2>1. v \in Seq(STRING) /\ w \in Seq(STRING)
    BY <1>4, <1>6
  <2>2. QED BY <2>1, PrefixElements
<1>8. IsPrefix(v, w) <=> Len(sp) <= Len(u.path) + Len(q) /\ \A i \in 1..Len(sp) : sp[i].name = w[i]
  BY <1>2, <1>3, <1>4, <1>6, <1>7
<1>9. Len(w) = Len(u.path) + Len(q) /\ (\A i \in 1..Len(u.path) : w[i] = u.path[i].name)
      /\ \A i \in 1..Len(q) : w[Len(u.path) + i] = q[i][1]
  BY <1>2, <1>3, <1>6
<1>10. QED BY <1>1, <1>5, <1>6, <1>8, <1>9 DEF v

\* What is delivered to a transformer may be drilled into.
LEMMA NormalizedRoutable ==
  ASSUME WellFormed, TextInv, SlashFree, NEW u \in Normalized
  PROVE  Routable(u)
<1>1. CASE /\ hasLeafUpdates(Updates)
           /\ u.path = commonPathPrefix(Updates) /\ u.tree = FoldLeft(AddUpdate, <<>>, Rest)
  <2> DEFINE tree == FoldLeft(AddUpdate, <<>>, Rest)
             n    == Len(commonPathPrefix(Updates))
  <2>1. u.path \in Path /\ n \in Nat
    BY <1>1, CommonPrefix
  <2>2. /\ Len(sent) \in Nat /\ DOMAIN Rest = 1..Len(sent)
        /\ \A i \in 1..Len(sent) : UpdateOK(Rest[i])
    BY <1>1, ResponseUpdates, RestUpdates
  <2>3. TreeOK(tree) /\ \A p \in DOMAIN tree : \E i \in 1..Len(sent) : Holds(Rest[i], p, tree[p])
    BY <2>2, TreeBuilt
  <2> HIDE DEF tree
  <2>4. ASSUME NEW i \in 1..Len(sent)
        PROVE  Rest[i].path \in Path /\ Len(Rest[i].path) > 0 /\ Rest[i].below \in Seq(STRING)
    <3> DEFINE r == SubSeq(text[i], n + 1, Len(text[i]))
    <3>1. Rest[i].path = r /\ UpdateOK(Rest[i])
      BY <1>1, RestUpdates
    <3>2. text[i] \in Path /\ Len(text[i]) = Len(sent[i].path) /\ n < Len(sent[i].path)
          /\ sent[i].path \in Seq(Element)
      <4>1. text[i] \in Path /\ TextOf(text[i], sent[i].path)
        BY ResponseUpdates
      <4>2. n < Len(sent[i].path) /\ sent[i].path \in Seq(Element)
        BY <1>1, StemElements
      <4>3. QED BY <4>1, <4>2 DEF TextOf
    <3>3. n \in 0..Len(text[i]) /\ text[i] \in Seq(Segment) /\ Len(text[i]) - n > 0
      BY <2>1, <3>2 DEF Path
    <3>4. r \in Seq(Segment) /\ Len(r) = Len(text[i]) - n
      BY <3>3, RestPart
    <3>5. Rest[i].path # <<>>
      <4> HIDE DEF r
      <4>1. r # <<>>
        BY <3>3, <3>4
      <4>2. QED BY <3>1, <4>1
    <3> HIDE DEF r
    <3>6. Rest[i].below \in Seq(STRING)
      BY <3>1, <3>5 DEF UpdateOK
    <3>7. QED BY <3>1, <3>3, <3>4, <3>6 DEF Path
  <2>5. <<>> \notin DOMAIN tree
    <3>1. SUFFICES ASSUME <<>> \in DOMAIN tree PROVE FALSE
      OBVIOUS
    <3>2. PICK i \in 1..Len(sent) : Holds(Rest[i], <<>>, tree[<<>>])
      BY <2>3, <3>1
    <3> DEFINE q == Rest[i].path
               b == Rest[i].below
    <3>3. q \in Path /\ Len(q) > 0 /\ b \in Seq(STRING)
      BY <2>4
    <3>4. StepNames(<<>>) = <<>>
      BY DEF StepNames
    <3>5. Names(q) \o b # <<>>
      <4> DEFINE a == Names(q)
      <4>1. a \in Seq(STRING) /\ Len(a) > 0 /\ b \in Seq(STRING)
        BY <3>3, NamesElements
      <4> HIDE DEF a, b
      <4>2. a \o b # <<>>
        BY <4>1
      <4>3. QED BY <4>2 DEF a
    <3>6. ASSUME NEW j \in 1..Len(q), NEW s \in STRING
          PROVE  Append(Names(SubSeq(q, 1, j)), s) # <<>>
      <4>1. Append(Names(SubSeq(q, 1, j)), s) # <<>>
        <5>1. j \in 0..Len(q) /\ q \in Seq(Segment)
          BY <3>3 DEF Path
        <5>2. SubSeq(q, 1, j) \in Path
          BY <5>1, PrefixPart DEF Path
        <5>3. Names(SubSeq(q, 1, j)) \in Seq(STRING)
          BY <5>2, NamesElements
        <5>4. QED BY <5>3, AppendElements
      <4>2. QED BY <4>1
    <3>7. KeyAt(q, <<>>, tree[<<>>])
      BY <3>2, <3>4, <3>5 DEF Holds
    <3>8. PICK j \in 1..Len(q) : \E kv \in ToSet(q[j].sel) :
                StepNames(<<>>) = Append(Names(SubSeq(q, 1, j)), kv[1])
      <4>1. DOMAIN q = 1..Len(q)
        BY <3>3 DEF Path
      <4> HIDE DEF q
      <4>2. QED BY <3>7, <4>1 DEF KeyAt
    <3> HIDE DEF q, b
    <3>9. PICK kv \in ToSet(q[j].sel) : <<>> = Append(Names(SubSeq(q, 1, j)), kv[1])
      BY <3>4, <3>8
    <3>10. kv[1] \in STRING
      <4>1. q[j].sel \in Seq(STRING \X STRING)
        <5>1. q[j] \in Segment
          BY <3>3 DEF Path
        <5>2. QED BY <5>1 DEF Segment
      <4>2. QED BY <4>1 DEF ToSet
    <3>11. QED BY <3>6, <3>9, <3>10
  <2>6. QED BY <1>1, <2>1, <2>3, <2>5 DEF Routable, TreeOK, tree
<1>2. CASE \E i \in 1..Len(sent) :
             u = [path |-> text[i], tree |-> [at \in {Plain(sent[i].below)} |-> sent[i].val]]
  <2>1. PICK i \in 1..Len(sent) :
             u = [path |-> text[i], tree |-> [at \in {Plain(sent[i].below)} |-> sent[i].val]]
    BY <1>2
  <2> DEFINE b == sent[i].below
  <2>2. sent[i] \in Leaves /\ text[i] \in Path
    BY ResponseUpdates
  <2>3. b \in Seq(STRING)
    BY <2>2, LeafPath
  <2>4. u.path = text[i] /\ DOMAIN u.tree = {Plain(b)}
    BY <2>1
  <2> HIDE DEF b
  <2>5. Plain(b) \in Position
    BY <2>3, PlainPosition
  <2>6. QED BY <2>2, <2>4, <2>5 DEF Routable
<1>3. QED BY <1>1, <1>2, NormalizedForms

\* The positions below u that the subscribed path sp leads to, and what is
\* delivered of each of them.
Found(u, sp) ==
  {at \in UNION {Prefixes(p) : p \in DOMAIN u.tree} :
     /\ Len(at) = Len(SubSeq(sp, Len(u.path) + 1, Len(sp)))
     /\ \A j \in DOMAIN at :
          SubSeq(sp, Len(u.path) + 1, Len(sp))[j] = [name |-> at[j][1], sel |-> <<>>]}

Entity(u, at, j) == IF at[j][2] = 0 THEN <<>> ELSE EntityName(u.tree, SubSeq(at, 1, j))

Drilled(u, at) ==
  [path |-> u.path \o [j \in DOMAIN at |-> [name |-> at[j][1], sel |-> Entity(u, at, j)]],
   tree |-> [p \in {SubSeq(q, Len(at) + 1, Len(q)) : q \in {r \in DOMAIN u.tree : IsPrefix(at, r)}}
               |-> u.tree[at \o p]]]

LEMMA AboveForm ==
  ASSUME NEW u, NEW sp
  PROVE  AbovePath(u, sp) = IF ~IsStrictPrefix(Unkeyed(u.path), sp) \/ <<>> \in DOMAIN u.tree THEN {}
                            ELSE {Drilled(u, at) : at \in Found(u, sp)}
BY DEF AbovePath, Drilled, Found, Entity

LEMMA FoundElements ==
  ASSUME NEW u, Routable(u), NEW sp, Bare(sp), Len(u.path) < Len(sp)
  PROVE  /\ \A at \in Found(u, sp) :
              /\ at \in Position /\ Len(u.path) + Len(at) = Len(sp)
              /\ \A j \in 1..Len(at) : sp[Len(u.path) + j].name = at[j][1]
         /\ \A q \in DOMAIN u.tree : \A m \in 0..Len(q) :
              /\ Len(u.path) + m = Len(sp)
              /\ \A j \in 1..m : sp[Len(u.path) + j].name = q[j][1]
              => SubSeq(q, 1, m) \in Found(u, sp)
<1> DEFINE n == Len(u.path)
           r == SubSeq(sp, n + 1, Len(sp))
<1>1. sp \in Seq(Segment) /\ n \in 0..Len(sp) /\ Len(sp) \in Nat /\ n \in Nat
  <2>1. u.path \in Path /\ sp \in Path
    BY DEF Routable, Bare
  <2>2. QED BY <2>1 DEF Path
<1>2. r \in Seq(Segment) /\ Len(r) = Len(sp) - n /\ \A j \in 1..(Len(sp) - n) : r[j] = sp[n + j]
  BY <1>1, RestPart
<1>3. Found(u, sp) = {at \in UNION {Prefixes(p) : p \in DOMAIN u.tree} :
        Len(at) = Len(r) /\ \A j \in DOMAIN at : r[j] = [name |-> at[j][1], sel |-> <<>>]}
  BY DEF Found
<1> HIDE DEF n, r
<1>4. ASSUME NEW j \in 1..Len(r) PROVE r[j] \in Segment /\ r[j].sel = <<>> /\ r[j] = sp[n + j]
  <2>1. r[j] \in Segment /\ n + j \in DOMAIN sp /\ r[j] = sp[n + j]
    BY <1>1, <1>2
  <2>2. QED BY <2>1 DEF Bare
<1>5. ASSUME NEW q \in DOMAIN u.tree, NEW m \in 0..Len(q)
      PROVE  /\ q \in Position /\ SubSeq(q, 1, m) \in Position /\ Len(SubSeq(q, 1, m)) = m
             /\ \A j \in 1..m : SubSeq(q, 1, m)[j] = q[j]
  <2>1. q \in Seq(Step)
    BY DEF Routable, Position
  <2>2. QED BY <2>1, PrefixPart DEF Position
<1>6. ASSUME NEW at \in Found(u, sp)
      PROVE  /\ at \in Position /\ n + Len(at) = Len(sp)
             /\ \A j \in 1..Len(at) : sp[n + j].name = at[j][1]
  <2>1. PICK q \in DOMAIN u.tree : at \in Prefixes(q)
    BY <1>3
  <2>2. PICK m \in 0..Len(q) : at = SubSeq(q, 1, m)
    BY <2>1 DEF Prefixes
  <2>3. at \in Position /\ DOMAIN at = 1..Len(at)
    BY <1>5, <2>2 DEF Position
  <2>4. Len(at) = Len(r) /\ \A j \in 1..Len(at) : r[j] = [name |-> at[j][1], sel |-> <<>>]
    BY <1>3, <2>3
  <2>5. n + Len(at) = Len(sp)
    BY <1>1, <1>2, <2>4
  <2>6. ASSUME NEW j \in 1..Len(at) PROVE sp[n + j].name = at[j][1]
    <3>1. r[j] = sp[n + j] /\ r[j] = [name |-> at[j][1], sel |-> <<>>]
      BY <1>4, <2>4
    <3>2. QED BY <3>1
  <2>7. QED BY <2>3, <2>5, <2>6
<1>7. ASSUME NEW q \in DOMAIN u.tree, NEW m \in 0..Len(q), n + m = Len(sp),
             \A j \in 1..m : sp[n + j].name = q[j][1]
      PROVE  SubSeq(q, 1, m) \in Found(u, sp)
  <2> DEFINE at == SubSeq(q, 1, m)
  <2>1. at \in Position /\ Len(at) = m /\ \A j \in 1..m : at[j] = q[j]
    BY <1>5
  <2>2. at \in Prefixes(q)
    BY DEF Prefixes
  <2> HIDE DEF at
  <2>3. Len(at) = Len(r) /\ DOMAIN at = 1..Len(r)
    BY <1>1, <1>2, <1>7, <2>1 DEF Position
  <2>4. ASSUME NEW j \in 1..Len(r) PROVE r[j] = [name |-> at[j][1], sel |-> <<>>]
    <3>1. r[j] \in Segment /\ r[j].sel = <<>> /\ r[j] = sp[n + j]
      BY <1>4
    <3>2. sp[n + j].name = at[j][1]
      BY <1>7, <2>1, <2>3
    <3>3. r[j].name = at[j][1]
      BY <3>1, <3>2
    <3> DEFINE s == r[j]
               nm == at[j][1]
    <3> HIDE DEF s, nm
    <3>4. s \in Segment /\ s.sel = <<>> /\ s.name = nm => s = [name |-> nm, sel |-> <<>>]
      BY DEF Segment
    <3>5. QED BY <3>1, <3>3, <3>4 DEF s, nm
  <2>5. at \in Found(u, sp)
    BY <1>3, <2>2, <2>3, <2>4
  <2>6. QED BY <2>5 DEF at
<1>8. QED BY <1>6, <1>7 DEF n

\* An update that is delivered for a position has the path that leads there.
LEMMA DrilledPath ==
  ASSUME NEW u, Routable(u), NEW at \in Position
  PROVE  /\ Names(Drilled(u, at).path) = Names(u.path) \o StepNames(at)
         /\ Len(Drilled(u, at).path) = Len(u.path) + Len(at)
         /\ \A i \in 1..Len(u.path) : Drilled(u, at).path[i] = u.path[i]
         /\ \A j \in 1..Len(at) : Drilled(u, at).path[Len(u.path) + j].sel = Entity(u, at, j)
<1> DEFINE t == u.path
           h == [j \in DOMAIN at |-> [name |-> at[j][1], sel |-> Entity(u, at, j)]]
           w == t \o h
           X == {t[i] : i \in DOMAIN t} \cup {h[j] : j \in DOMAIN at}
           a == Names(t)
           b == StepNames(at)
           z == Names(w)
<1>1. DOMAIN t = 1..Len(t) /\ Len(t) \in Nat /\ DOMAIN at = 1..Len(at) /\ Len(at) \in Nat
  BY DEF Routable, Path, Position
<1>2. t \in Seq(X)
  <2>1. t \in Seq(Segment) /\ \A i \in DOMAIN t : t[i] \in X
    BY DEF Routable, Path
  <2> HIDE DEF X, t
  <2>2. QED BY <2>1
<1>3. /\ h \in Seq(X) /\ Len(h) = Len(at)
      /\ \A j \in 1..Len(at) : h[j].name = at[j][1] /\ h[j].sel = Entity(u, at, j)
  <2>1. DOMAIN h = 1..Len(at) /\ \A j \in 1..Len(at) : h[j] \in X
    BY <1>1
  <2>2. \A j \in 1..Len(at) : h[j].name = at[j][1] /\ h[j].sel = Entity(u, at, j)
    BY <1>1
  <2>3. h = [j \in 1..Len(at) |-> h[j]]
    BY <1>1
  <2> HIDE DEF X, h
  <2>4. [j \in 1..Len(at) |-> h[j]] \in Seq(X) /\ Len([j \in 1..Len(at) |-> h[j]]) = Len(at)
    BY <1>1, <2>1
  <2>5. QED BY <2>2, <2>3, <2>4
<1>4. a \in Seq(STRING) /\ Len(a) = Len(t) /\ \A i \in 1..Len(t) : a[i] = t[i].name
  BY NamesElements DEF Routable
<1>5. b \in Seq(STRING) /\ Len(b) = Len(at) /\ \A j \in 1..Len(at) : b[j] = at[j][1]
  BY StepNamesElements
<1>6. Drilled(u, at).path = w
  BY DEF Drilled
<1> HIDE DEF X, h, t, a, b
<1>7. /\ w \in Seq(X) /\ Len(w) = Len(t) + Len(at) /\ (\A i \in 1..Len(t) : w[i] = t[i])
      /\ \A j \in 1..Len(at) : w[Len(t) + j] = h[j]
  <2>1. /\ w \in Seq(X) /\ Len(w) = Len(t) + Len(h) /\ (\A i \in 1..Len(t) : w[i] = t[i])
        /\ \A j \in 1..Len(h) : w[Len(t) + j] = h[j]
    <3>1. t \in Seq(X) /\ h \in Seq(X)
      BY <1>2, <1>3
    <3>2. QED BY <3>1, JoinedElements
  <2>2. QED BY <1>3, <2>1
<1> HIDE DEF w
<1>8. DOMAIN z = 1..Len(w) /\ Len(w) \in Nat /\ \A i \in 1..Len(w) : z[i] = w[i].name
  <2>1. DOMAIN w = 1..Len(w) /\ Len(w) \in Nat
    BY <1>7
  <2>2. QED BY <2>1 DEF Names
<1>9. \A i \in 1..Len(a) : a[i] = z[i] /\ z[i] \in STRING
  <2>1. \A i \in 1..Len(a) : i \in 1..Len(w)
    BY <1>1, <1>4, <1>7
  <2>2. \A i \in 1..Len(a) : a[i] \in STRING
    BY <1>4
  <2>3. QED BY <1>4, <1>7, <1>8, <2>1, <2>2
<1>10. \A j \in 1..Len(b) : b[j] = z[Len(a) + j] /\ z[Len(a) + j] \in STRING
  <2>1. \A j \in 1..Len(b) : Len(a) + j \in 1..Len(w)
    BY <1>1, <1>4, <1>5, <1>7
  <2>2. \A j \in 1..Len(b) : b[j] \in STRING
    BY <1>5
  <2>3. \A j \in 1..Len(at) : h[j].name = at[j][1]
    BY <1>3
  <2>4. SUFFICES ASSUME NEW j \in 1..Len(b) PROVE b[j] = z[Len(a) + j] /\ z[Len(a) + j] \in STRING
    OBVIOUS
  <2>5. j \in 1..Len(at) /\ Len(a) + j \in 1..Len(w) /\ b[j] \in STRING
    BY <1>5, <2>1, <2>2, <2>4
  <2>6. z[Len(a) + j] = w[Len(a) + j].name
    BY <1>8, <2>5
  <2>7. w[Len(a) + j] = h[j]
    BY <1>4, <1>7, <2>5
  <2>8. b[j] = h[j].name
    BY <1>5, <2>3, <2>5
  <2>9. QED BY <2>5, <2>6, <2>7, <2>8
<1>11. \A i \in 1..Len(w) : z[i] \in STRING
  <2>1. SUFFICES ASSUME NEW i \in 1..Len(w) PROVE z[i] \in STRING
    OBVIOUS
  <2>2. CASE i \in 1..Len(a)
    BY <1>9, <2>2
  <2>3. CASE i \notin 1..Len(a)
    <3>1. i - Len(a) \in 1..Len(b) /\ Len(a) + (i - Len(a)) = i
      BY <1>1, <1>4, <1>5, <1>7, <2>3
    <3>2. QED BY <1>10, <3>1
  <2>4. QED BY <2>2, <2>3
<1>12. z \in Seq(STRING) /\ Len(z) = Len(w)
  <2>1. z = [i \in 1..Len(w) |-> z[i]]
    BY <1>8 DEF Names
  <2> HIDE DEF z
  <2>2. [i \in 1..Len(w) |-> z[i]] \in Seq(STRING) /\ Len([i \in 1..Len(w) |-> z[i]]) = Len(w)
    BY <1>8, <1>11
  <2>3. QED BY <2>1, <2>2
<1> HIDE DEF z
<1>13. Len(z) = Len(a) + Len(b)
  BY <1>4, <1>5, <1>7, <1>12
<1>14. a \o b = z
  BY <1>4, <1>5, <1>9, <1>10, <1>12, <1>13, JoinedParts
<1>15. /\ Len(w) = Len(u.path) + Len(at) /\ (\A i \in 1..Len(u.path) : w[i] = u.path[i])
       /\ \A j \in 1..Len(at) : w[Len(u.path) + j].sel = Entity(u, at, j)
  BY <1>3, <1>7 DEF t
<1>16. QED BY <1>6, <1>14, <1>15 DEF a, b, z, t

\* Its positions are those below the one that was entered.
LEMMA DrilledTree ==
  ASSUME NEW u, Routable(u), NEW at \in Position
  PROVE  /\ \A p \in DOMAIN Drilled(u, at).tree : \E q \in DOMAIN u.tree :
              /\ IsPrefix(at, q) /\ p = SubSeq(q, Len(at) + 1, Len(q))
              /\ Same(Drilled(u, at), p, u, q)
         /\ \A q \in DOMAIN u.tree : IsPrefix(at, q) =>
              /\ SubSeq(q, Len(at) + 1, Len(q)) \in DOMAIN Drilled(u, at).tree
              /\ Same(Drilled(u, at), SubSeq(q, Len(at) + 1, Len(q)), u, q)
<1> DEFINE d == Drilled(u, at)
           D == {SubSeq(q, Len(at) + 1, Len(q)) : q \in {r \in DOMAIN u.tree : IsPrefix(at, r)}}
<1>1. d.tree = [p \in D |-> u.tree[at \o p]]
  BY DEF Drilled
<1>2. Names(d.path) = Names(u.path) \o StepNames(at)
  BY DrilledPath
<1> HIDE DEF d
<1>3. ASSUME NEW q \in DOMAIN u.tree, IsPrefix(at, q), NEW p, p = SubSeq(q, Len(at) + 1, Len(q))
      PROVE  p \in DOMAIN d.tree /\ Same(d, p, u, q)
  <2> DEFINE m == Len(at)
  <2>1. q \in Seq(Step) /\ at \in Seq(Step)
    BY DEF Routable, Position
  <2>2. m \in 0..Len(q) /\ at = SubSeq(q, 1, m)
    <3>1. m <= Len(q) /\ \A i \in 1..m : at[i] = q[i]
      BY <1>3, <2>1, PrefixElements
    <3>2. m \in 0..Len(q)
      BY <2>1, <3>1
    <3> DEFINE s == SubSeq(q, 1, m)
    <3>3. s \in Seq(Step) /\ Len(s) = m /\ \A i \in 1..m : s[i] = q[i]
      BY <2>1, <3>2, PrefixPart
    <3> HIDE DEF s
    <3>4. at = s
      BY <2>1, <3>1, <3>3, SameElements
    <3>5. QED BY <3>2, <3>4 DEF s
  <2>3. p \in Seq(Step)
    BY <1>3, <2>1, <2>2, RestPart
  <2>4. at \o p = q
    <3>1. SubSeq(q, 1, m) \o SubSeq(q, m + 1, Len(q)) = q
      BY <2>1, <2>2, SplitJoined
    <3>2. QED BY <1>3, <2>2, <3>1
  <2>5. p \in D
    BY <1>3
  <2>6. p \in DOMAIN d.tree /\ d.tree[p] = u.tree[q]
    BY <1>1, <2>4, <2>5
  <2>7. Reading(d, p) = Reading(u, q)
    <3> DEFINE a == Names(u.path)
               b == StepNames(at)
               c == StepNames(p)
    <3>1. at \in Position /\ p \in Position
      BY <2>3 DEF Position
    <3>2. StepNames(q) = b \o c
      BY <2>4, <3>1, StepNamesJoined
    <3>3. a \in Seq(STRING) /\ b \in Seq(STRING) /\ c \in Seq(STRING)
      BY <3>1, NamesElements, StepNamesElements DEF Routable
    <3> HIDE DEF a, b, c
    <3>4. (a \o b) \o c = a \o (b \o c)
      BY <3>3, JoinedThrice
    <3>5. Reading(d, p) = (a \o b) \o c
      BY <1>2 DEF Reading, a, b, c
    <3>6. Reading(u, q) = a \o (b \o c)
      BY <3>2 DEF Reading, a
    <3>7. QED BY <3>4, <3>5, <3>6
  <2>8. QED BY <2>6, <2>7 DEF Same
<1>4. ASSUME NEW p \in DOMAIN d.tree
      PROVE  \E q \in DOMAIN u.tree :
               IsPrefix(at, q) /\ p = SubSeq(q, Len(at) + 1, Len(q)) /\ Same(d, p, u, q)
  <2>1. p \in D
    BY <1>1
  <2>2. PICK q \in DOMAIN u.tree : IsPrefix(at, q) /\ p = SubSeq(q, Len(at) + 1, Len(q))
    BY <2>1
  <2>3. QED BY <1>3, <2>2
<1>5. ASSUME NEW q \in DOMAIN u.tree, IsPrefix(at, q)
      PROVE  /\ SubSeq(q, Len(at) + 1, Len(q)) \in DOMAIN d.tree
             /\ Same(d, SubSeq(q, Len(at) + 1, Len(q)), u, q)
  BY <1>3, <1>5
<1>6. QED BY <1>4, <1>5 DEF d

\* Below a subscribed path, the value is delivered with the names that are missing.
Wrapped(u, sp) ==
  LET missing == Plain(Names(SubSeq(u.path, Len(sp) + 1, Len(u.path))))
  IN  [path |-> sp, tree |-> [at \in {missing \o p : p \in DOMAIN u.tree} |->
                                u.tree[SubSeq(at, Len(missing) + 1, Len(at))]]]

LEMMA WrappedTree ==
  ASSUME NEW u, Routable(u), NEW sp \in Path, Len(sp) < Len(u.path), SameNames(sp, u.path, Len(sp))
  PROVE  /\ \A p \in DOMAIN Wrapped(u, sp).tree : \E q \in DOMAIN u.tree : Same(Wrapped(u, sp), p, u, q)
         /\ \A q \in DOMAIN u.tree : \E p \in DOMAIN Wrapped(u, sp).tree : Same(Wrapped(u, sp), p, u, q)
<1> DEFINE d == Wrapped(u, sp)
           t == u.path
           n == Len(sp)
           rel == SubSeq(t, n + 1, Len(t))
           names == Names(rel)
           missing == Plain(names)
           D == {missing \o p : p \in DOMAIN u.tree}
<1>1. d = [path |-> sp, tree |-> [at \in D |-> u.tree[SubSeq(at, Len(missing) + 1, Len(at))]]]
  BY DEF Wrapped
<1>2. d.path = sp /\ d.tree = [at \in D |-> u.tree[SubSeq(at, Len(missing) + 1, Len(at))]]
  BY <1>1
<1>3. t \in Path /\ n \in 0..Len(t) /\ Len(t) \in Nat
  <2>1. t \in Path
    BY DEF Routable
  <2>2. QED BY <2>1 DEF Path
<1>4. rel \in Path /\ Names(SubSeq(t, 1, n)) \o names = Names(t)
  <2>1. 0 \in 0..(Len(t) - n)
    BY <1>3
  <2>2. QED BY <1>3, <2>1, NamesJoined
<1>5. Names(SubSeq(t, 1, n)) = Names(sp)
  <2> DEFINE s == SubSeq(t, 1, n)
             a == Names(s)
             b == Names(sp)
  <2>1. s \in Path /\ Len(s) = n /\ \A i \in 1..n : s[i] = t[i]
    BY <1>3, PrefixPart DEF Path
  <2> HIDE DEF s
  <2>2. a \in Seq(STRING) /\ Len(a) = n /\ \A i \in 1..n : a[i] = s[i].name
    BY <2>1, NamesElements
  <2>3. b \in Seq(STRING) /\ Len(b) = n /\ \A i \in 1..n : b[i] = sp[i].name
    BY NamesElements
  <2>4. \A i \in 1..n : a[i] = b[i]
    BY <2>1, <2>2, <2>3 DEF SameNames
  <2> HIDE DEF a, b
  <2>5. a = b
    BY <2>2, <2>3, <2>4, SameElements
  <2>6. QED BY <2>5 DEF a, b, s
<1> HIDE DEF d, rel
<1>6. names \in Seq(STRING)
  BY <1>4, NamesElements
<1> HIDE DEF names
<1>7. missing \in Position /\ StepNames(missing) = names
  BY <1>6, PlainPosition
<1> HIDE DEF missing
<1>8. ASSUME NEW q \in DOMAIN u.tree
      PROVE  missing \o q \in DOMAIN d.tree /\ Same(d, missing \o q, u, q)
  <2> DEFINE p == missing \o q
  <2>1. q \in Position /\ missing \in Seq(Step) /\ q \in Seq(Step)
    BY <1>7 DEF Routable, Position
  <2>2. SubSeq(p, Len(missing) + 1, Len(p)) = q
    BY <2>1, JoinedRest
  <2>3. p \in D
    OBVIOUS
  <2>4. p \in DOMAIN d.tree /\ d.tree[p] = u.tree[q]
    BY <1>2, <2>2, <2>3
  <2>5. Reading(d, p) = Reading(u, q)
    <3> DEFINE a == Names(sp)
               c == StepNames(q)
    <3>1. StepNames(p) = names \o c
      BY <1>7, <2>1, StepNamesJoined
    <3>2. a \in Seq(STRING) /\ c \in Seq(STRING)
      BY <2>1, NamesElements, StepNamesElements
    <3> HIDE DEF a, c, p
    <3>3. (a \o names) \o c = a \o (names \o c)
      BY <1>6, <3>2, JoinedThrice
    <3>4. Reading(d, p) = a \o (names \o c)
      BY <1>2, <3>1 DEF Reading, a
    <3>5. Reading(u, q) = (a \o names) \o c
      BY <1>4, <1>5 DEF Reading, a, c, t
    <3>6. QED BY <3>3, <3>4, <3>5
  <2>6. QED BY <2>4, <2>5 DEF Same
<1>9. ASSUME NEW p \in DOMAIN d.tree PROVE \E q \in DOMAIN u.tree : Same(d, p, u, q)
  <2>1. p \in D
    BY <1>2
  <2>2. PICK q \in DOMAIN u.tree : p = missing \o q
    BY <2>1
  <2>3. QED BY <1>8, <2>2
<1>10. QED BY <1>8, <1>9 DEF d

\* Where a subscribed path leads, in the path of an update and below it.
LEMMA ReadingLed ==
  ASSUME NEW u, Routable(u), NEW q \in DOMAIN u.tree, NEW sp \in Path
  PROVE  /\ q \in Seq(Step) /\ Len(u.path) \in Nat /\ Len(sp) \in Nat
         /\ Len(sp) <= Len(u.path) =>
              (IsPrefix(Names(sp), Reading(u, q)) <=> SameNames(sp, u.path, Len(sp)))
         /\ Len(u.path) < Len(sp) =>
              (IsPrefix(Names(sp), Reading(u, q)) <=>
                 /\ Len(sp) - Len(u.path) <= Len(q) /\ SameNames(sp, u.path, Len(u.path))
                 /\ \A j \in 1..(Len(sp) - Len(u.path)) : sp[Len(u.path) + j].name = q[j][1])
<1> DEFINE r == Reading(u, q)
           n == Len(u.path)
           m == Len(sp)
           k == Len(q)
           ok == IsPrefix(Names(sp), r)
<1>1. /\ q \in Position /\ Len(r) = n + k
      /\ (\A i \in 1..n : r[i] = u.path[i].name) /\ (\A i \in 1..k : r[n + i] = q[i][1])
      /\ ok <=> m <= n + k /\ \A i \in 1..m : sp[i].name = r[i]
  BY ReadingPrefix
<1>2. n \in Nat /\ m \in Nat /\ k \in Nat /\ q \in Seq(Step)
  <2>1. u.path \in Path
    BY DEF Routable
  <2>2. QED BY <1>1, <2>1 DEF Path, Position
<1> HIDE DEF r, n, m, k, ok
<1>3. ASSUME m <= n PROVE ok <=> SameNames(sp, u.path, m)
  <2>1. m <= n + k /\ \A i \in 1..m : i \in 1..n
    BY <1>2, <1>3
  <2>2. QED BY <1>1, <2>1 DEF SameNames
<1>4. ASSUME n < m
      PROVE  ok <=> m - n <= k /\ SameNames(sp, u.path, n) /\ \A j \in 1..(m - n) : sp[n + j].name = q[j][1]
  <2>1. ASSUME ok
        PROVE  m - n <= k /\ SameNames(sp, u.path, n) /\ \A j \in 1..(m - n) : sp[n + j].name = q[j][1]
    <3>1. m - n <= k
      BY <1>1, <1>2, <2>1
    <3>2. \A i \in 1..n : i \in 1..m
      BY <1>2, <1>4
    <3>3. \A j \in 1..(m - n) : n + j \in 1..m /\ j \in 1..k
      BY <1>2, <1>4, <3>1
    <3>4. QED BY <1>1, <2>1, <3>1, <3>2, <3>3 DEF SameNames
  <2>2. ASSUME m - n <= k, SameNames(sp, u.path, n), \A j \in 1..(m - n) : sp[n + j].name = q[j][1]
        PROVE  ok
    <3>1. m <= n + k
      BY <1>2, <2>2
    <3>2. ASSUME NEW i \in 1..m PROVE sp[i].name = r[i]
      <4>1. CASE i \in 1..n
        BY <1>1, <2>2, <4>1 DEF SameNames
      <4>2. CASE i \notin 1..n
        <5>1. PICK j \in 1..(m - n) : i = n + j
          <6>1. i - n \in 1..(m - n) /\ i = n + (i - n)
            BY <1>2, <4>2
          <6>2. QED BY <6>1
        <5>2. j \in 1..k
          BY <1>2, <2>2
        <5>3. QED BY <1>1, <2>2, <5>1, <5>2
      <4>3. QED BY <4>1, <4>2
    <3>3. QED BY <1>1, <3>1, <3>2
  <2>3. QED BY <2>1, <2>2
<1>5. QED BY <1>2, <1>3, <1>4 DEF r, n, m, k, ok

\* What of the update u is delivered to the subscribed path sp.
DrillDown(u, sp) == AtPath(u, sp) \cup BelowPath(u, sp) \cup AbovePath(u, sp)

\* It is there in u too, below the subscribed path.
LEMMA DrilledSound ==
  ASSUME NEW u, Routable(u), NEW sp, Bare(sp), NEW d \in DrillDown(u, sp), NEW p \in DOMAIN d.tree
  PROVE  \E q \in DOMAIN u.tree : Same(d, p, u, q) /\ IsPrefix(Names(sp), Reading(u, q))
<1>1. u.path \in Path /\ sp \in Path /\ Len(u.path) \in Nat /\ Len(sp) \in Nat
  <2>1. u.path \in Path /\ sp \in Path
    BY DEF Routable, Bare
  <2>2. QED BY <2>1 DEF Path
<1>2. CASE d \in AtPath(u, sp)
  <2>1. d = u /\ Unkeyed(u.path) = sp
    BY <1>2 DEF AtPath
  <2>2. Len(u.path) = Len(sp) /\ SameNames(sp, u.path, Len(sp))
    BY <1>1, <2>1, BareNames
  <2>3. Len(sp) <= Len(u.path)
    BY <1>1, <2>2
  <2>4. IsPrefix(Names(sp), Reading(u, p))
    BY <1>1, <2>1, <2>2, <2>3, ReadingLed
  <2>5. QED BY <2>1, <2>4 DEF Same
<1>3. CASE d \in BelowPath(u, sp)
  <2>1. IsStrictPrefix(sp, Unkeyed(u.path)) /\ d = Wrapped(u, sp)
    BY <1>3 DEF BelowPath, Wrapped
  <2>2. Len(sp) < Len(u.path) /\ SameNames(sp, u.path, Len(sp))
    BY <1>1, <2>1, BareNames
  <2>3. PICK q \in DOMAIN u.tree : Same(d, p, u, q)
    BY <1>1, <2>1, <2>2, WrappedTree
  <2>4. Len(sp) <= Len(u.path)
    BY <1>1, <2>2
  <2>5. IsPrefix(Names(sp), Reading(u, q))
    BY <1>1, <2>2, <2>4, ReadingLed
  <2>6. QED BY <2>3, <2>5
<1>4. CASE d \in AbovePath(u, sp)
  <2>1. IsStrictPrefix(Unkeyed(u.path), sp) /\ \E at \in Found(u, sp) : d = Drilled(u, at)
    BY <1>4, AboveForm
  <2>2. PICK at \in Found(u, sp) : d = Drilled(u, at)
    BY <2>1
  <2>3. Len(u.path) < Len(sp) /\ SameNames(sp, u.path, Len(u.path))
    BY <1>1, <2>1, BareNames
  <2>4. /\ at \in Position /\ Len(u.path) + Len(at) = Len(sp)
        /\ \A j \in 1..Len(at) : sp[Len(u.path) + j].name = at[j][1]
    BY <2>3, FoundElements
  <2>5. PICK q \in DOMAIN u.tree : IsPrefix(at, q) /\ Same(d, p, u, q)
    BY <2>2, <2>4, DrilledTree
  <2>6. q \in Seq(Step) /\ at \in Seq(Step)
    BY <2>4 DEF Routable, Position
  <2>7. Len(at) <= Len(q) /\ \A j \in 1..Len(at) : at[j] = q[j]
    BY <2>5, <2>6, PrefixElements
  <2>8. Len(sp) - Len(u.path) = Len(at)
    <3>1. Len(at) \in Nat
      BY <2>6
    <3>2. QED BY <1>1, <2>4, <3>1
  <2>9. /\ Len(sp) - Len(u.path) <= Len(q)
        /\ \A j \in 1..(Len(sp) - Len(u.path)) : sp[Len(u.path) + j].name = q[j][1]
    BY <2>4, <2>7, <2>8
  <2>10. IsPrefix(Names(sp), Reading(u, q))
    BY <1>1, <2>3, <2>9, ReadingLed
  <2>11. QED BY <2>5, <2>10
<1>5. QED BY <1>2, <1>3, <1>4 DEF DrillDown

\* Whatever of u is below the subscribed path is delivered.
LEMMA DrilledComplete ==
  ASSUME NEW u, Routable(u), NEW sp, Bare(sp), NEW q \in DOMAIN u.tree,
         IsPrefix(Names(sp), Reading(u, q))
  PROVE  \E d \in DrillDown(u, sp) : \E p \in DOMAIN d.tree : Same(d, p, u, q)
<1>1. u.path \in Path /\ sp \in Path /\ Len(u.path) \in Nat /\ Len(sp) \in Nat
  <2>1. u.path \in Path /\ sp \in Path
    BY DEF Routable, Bare
  <2>2. QED BY <2>1 DEF Path
<1>2. CASE Len(sp) = Len(u.path)
  <2>1. Len(sp) <= Len(u.path)
    BY <1>1, <1>2
  <2>2. SameNames(sp, u.path, Len(sp))
    BY <1>1, <2>1, ReadingLed
  <2>3. Unkeyed(u.path) = sp
    BY <1>1, <1>2, <2>2, BareNames
  <2>4. u \in DrillDown(u, sp)
    BY <2>3 DEF DrillDown, AtPath
  <2>5. QED BY <2>4 DEF Same
<1>3. CASE Len(sp) < Len(u.path)
  <2>1. Len(sp) <= Len(u.path)
    BY <1>1, <1>3
  <2>2. SameNames(sp, u.path, Len(sp))
    BY <1>1, <2>1, ReadingLed
  <2>3. IsStrictPrefix(sp, Unkeyed(u.path))
    BY <1>1, <1>3, <2>2, BareNames
  <2>4. Wrapped(u, sp) \in DrillDown(u, sp)
    <3>1. BelowPath(u, sp) = {Wrapped(u, sp)}
      BY <2>3 DEF BelowPath, Wrapped
    <3>2. QED BY <3>1 DEF DrillDown
  <2>5. \E p \in DOMAIN Wrapped(u, sp).tree : Same(Wrapped(u, sp), p, u, q)
    BY <1>1, <1>3, <2>2, WrappedTree
  <2>6. QED BY <2>4, <2>5
<1>4. CASE Len(u.path) < Len(sp)
  <2> DEFINE m  == Len(sp) - Len(u.path)
             at == SubSeq(q, 1, m)
  <2>1. /\ q \in Seq(Step) /\ m <= Len(q) /\ SameNames(sp, u.path, Len(u.path))
        /\ \A j \in 1..m : sp[Len(u.path) + j].name = q[j][1]
    BY <1>1, <1>4, ReadingLed
  <2>2. m \in Nat /\ m > 0 /\ Len(u.path) + m = Len(sp)
    BY <1>1, <1>4
  <2>3. m \in 0..Len(q)
    BY <2>1, <2>2
  <2> HIDE DEF m
  <2>4. at \in Found(u, sp)
    BY <1>4, <2>1, <2>2, <2>3, FoundElements
  <2>5. at \in Seq(Step) /\ Len(at) = m /\ \A i \in 1..m : at[i] = q[i]
    BY <2>1, <2>3, PrefixPart
  <2> HIDE DEF at
  <2>6. IsPrefix(at, q)
    BY <2>1, <2>5, PrefixElements
  <2>7. <<>> \notin DOMAIN u.tree
    <3>1. q # <<>>
      BY <2>1, <2>2
    <3>2. QED BY <3>1 DEF Routable
  <2>8. IsStrictPrefix(Unkeyed(u.path), sp)
    BY <1>1, <1>4, <2>1, BareNames
  <2>9. Drilled(u, at) \in DrillDown(u, sp)
    <3>1. AbovePath(u, sp) = {Drilled(u, a) : a \in Found(u, sp)}
      BY <2>7, <2>8, AboveForm
    <3>2. QED BY <2>4, <3>1 DEF DrillDown
  <2>10. at \in Position
    BY <2>5 DEF Position
  <2>11. \E p \in DOMAIN Drilled(u, at).tree : Same(Drilled(u, at), p, u, q)
    BY <2>6, <2>10, DrilledTree
  <2>12. QED BY <2>9, <2>11
<1>5. QED BY <1>1, <1>2, <1>3, <1>4

\* Between the leaves of a response and what a subscribed path is given of it.
LEMMA RoutedLeaves ==
  ASSUME WellFormed, PlainSubs, TextInv, SlashFree, NEW i \in DOMAIN Sub
  PROVE  /\ \A j \in DOMAIN sent : Wanted(sent[j], i) => \E d \in Delivered(i) : Carries(d, sent[j]) # {}
         /\ \A d \in Delivered(i) : \A at \in DOMAIN d.tree :
              \E j \in DOMAIN sent : \/ Wanted(sent[j], i) /\ at \in Carries(d, sent[j])
                                     \/ HoldsKey(d, at, sent[j])
<1> DEFINE sp == Sub[i]
<1>1. Bare(sp)
  <2>1. sp \in Seq([name : STRING, sel : {<<>>}])
    BY DEF PlainSubs
  <2> HIDE DEF sp
  <2>2. \A k \in 1..Len(sp) : sp[k] \in [name : STRING, sel : {<<>>}]
    <3> DEFINE X == [name : STRING, sel : {<<>>}]
    <3> HIDE DEF X
    <3>1. sp \in Seq(X) => \A k \in 1..Len(sp) : sp[k] \in X
      OBVIOUS
    <3>2. QED BY <2>1, <3>1 DEF X
  <2>3. \A s \in [name : STRING, sel : {<<>>}] : s \in Segment /\ s.sel = <<>>
    <3>1. <<>> \in Seq(STRING \X STRING)
      OBVIOUS
    <3> DEFINE e == <<>>
               Y == Seq(STRING \X STRING)
    <3> HIDE DEF e, Y
    <3>2. e \in Y => \A s \in [name : STRING, sel : {e}] : s \in [name : STRING, sel : Y] /\ s.sel = e
      OBVIOUS
    <3>3. QED BY <3>1, <3>2 DEF Segment, e, Y
  <2>4. \A k \in 1..Len(sp) : sp[k] \in Segment /\ sp[k].sel = <<>>
    BY <2>2, <2>3
  <2>5. sp \in Seq(Segment) /\ DOMAIN sp = 1..Len(sp)
    BY <2>1, <2>4
  <2>6. QED BY <2>4, <2>5 DEF Bare, Path
<1>2. Delivered(i) = UNION {DrillDown(u, sp) : u \in Normalized}
  BY DEF Delivered, drillDownToSubscribedPath, DrillDown
<1>3. DOMAIN sent = 1..Len(sent)
  BY ResponseUpdates
<1> HIDE DEF sp
<1>4. ASSUME NEW j \in DOMAIN sent, Wanted(sent[j], i)
      PROVE  \E d \in Delivered(i) : Carries(d, sent[j]) # {}
  <2>0. PICK u \in Normalized : Carries(u, sent[j]) # {}
    BY <1>3, LeafKept
  <2>1. PICK q \in Carries(u, sent[j]) : TRUE
    BY <2>0
  <2>2. q \in DOMAIN u.tree /\ u.tree[q] = sent[j].val /\ Reading(u, q) = FullNames(sent[j])
    BY <2>1 DEF Carries, Reading
  <2>3. IsPrefix(Names(sp), Reading(u, q))
    BY <1>4, <2>2 DEF Wanted, sp
  <2>4. Routable(u)
    BY NormalizedRoutable
  <2>5. PICK d \in DrillDown(u, sp) : \E p \in DOMAIN d.tree : Same(d, p, u, q)
    BY <1>1, <2>2, <2>3, <2>4, DrilledComplete
  <2>6. PICK p \in DOMAIN d.tree : Same(d, p, u, q)
    BY <2>5
  <2>7. p \in Carries(d, sent[j])
    BY <2>2, <2>6 DEF Same, Carries, Reading
  <2>8. d \in Delivered(i)
    BY <1>2
  <2>9. QED BY <2>7, <2>8
<1>5. ASSUME NEW d \in Delivered(i), NEW p \in DOMAIN d.tree
      PROVE  \E j \in DOMAIN sent : \/ Wanted(sent[j], i) /\ p \in Carries(d, sent[j])
                                    \/ HoldsKey(d, p, sent[j])
  <2>1. PICK u \in Normalized : d \in DrillDown(u, sp)
    BY <1>2
  <2>2. Routable(u)
    BY NormalizedRoutable
  <2>3. PICK q \in DOMAIN u.tree : Same(d, p, u, q) /\ IsPrefix(Names(sp), Reading(u, q))
    BY <1>1, <2>1, <2>2, DrilledSound
  <2>4. PICK j \in 1..Len(sent) : q \in Carries(u, sent[j]) \/ HoldsKey(u, q, sent[j])
    BY SoundUpdate
  <2>5. CASE q \in Carries(u, sent[j])
    <3>1. u.tree[q] = sent[j].val /\ Reading(u, q) = FullNames(sent[j])
      BY <2>5 DEF Carries, Reading
    <3>2. p \in Carries(d, sent[j])
      BY <2>3, <3>1 DEF Same, Carries, Reading
    <3>3. Wanted(sent[j], i)
      BY <2>3, <3>1 DEF Wanted, sp
    <3>4. QED BY <1>3, <3>2, <3>3
  <2>6. CASE HoldsKey(u, q, sent[j])
    <3>1. HoldsKey(d, p, sent[j])
      BY <2>3, <2>6 DEF HoldsKey, Same, Reading
    <3>2. QED BY <1>3, <3>1
  <2>7. QED BY <2>4, <2>5, <2>6
<1>6. QED BY <1>4, <1>5

\* However a response is ordered, split and normalized, a transformer is given
\* the leaves below its path and nothing else but keys of list entries, if its
\* path has no keys: of subscriber.go 317-436 on top of client.go 482-774.
THEOREM RoutedAsSubscribed ==
  ASSUME WellFormed, PlainSubs
  PROVE  Spec => []RoutedExactly
<1>1. TextInv => RoutedExactly
  BY RoutedLeaves DEF RoutedExactly
<1>2. QED BY <1>1, TextInvariant, PTL

-----------------------------------------------------------------------------
(* What is delivered is under the keys it was reported with.               *)

\* The facts that a response reports.
SentFacts == UNION {FactsOf(sent[i]) : i \in 1..Len(sent)}

LEMMA SentCoherent ==
  ASSUME WellFormed, TextInv
  PROVE  SentFacts \subseteq Facts /\ Coherent(SentFacts)
<1>1. \A i \in 1..Len(sent) : sent[i] \in Leaves
  BY ResponseUpdates
<1>2. SentFacts \subseteq Facts
  BY <1>1 DEF SentFacts, Facts
<1>3. \A f \in SentFacts : f \in Facts
  BY <1>2
<1>4. Coherent(Facts)
  BY FactsCoherent
<1>5. \A f \in SentFacts : f.at \in Seq(Element) /\ f.at # <<>>
  <2>1. \A f \in Facts : f.at \in Seq(Element) /\ f.at # <<>>
    BY <1>4 DEF Coherent
  <2>2. QED BY <1>3, <2>1
<1>6. \A f \in SentFacts : \A i \in DOMAIN f.at : \A kv, kw \in f.at[i].keys : kv = kw
  <2>1. \A f \in Facts : \A i \in DOMAIN f.at : \A kv, kw \in f.at[i].keys : kv = kw
    BY <1>4 DEF Coherent
  <2>2. QED BY <1>3, <2>1
<1>7. \A f, g \in SentFacts : IsPrefix(f.at, g.at) => f = g
  <2>1. \A f, g \in Facts : IsPrefix(f.at, g.at) => f = g
    BY <1>4 DEF Coherent
  <2>2. QED BY <1>3, <2>1
<1>8. \A f, g \in SentFacts : \A i \in Nat : Sibling(f.at, g.at, i) => KeyNames(f.at[i]) = KeyNames(g.at[i])
  <2>1. \A f, g \in Facts : \A i \in Nat : Sibling(f.at, g.at, i) => KeyNames(f.at[i]) = KeyNames(g.at[i])
    BY <1>4 DEF Coherent
  <2>2. QED BY <1>3, <2>1
<1>9. ASSUME NEW f \in SentFacts, NEW i \in DOMAIN f.at, NEW kv \in f.at[i].keys
      PROVE  \E h \in SentFacts : h.at = KeyPlace(Up(f.at, i), kv) /\ h.val = kv[2]
  <2>1. PICK n \in 1..Len(sent) : f \in FactsOf(sent[n])
    BY DEF SentFacts
  <2> DEFINE l == sent[n]
  <2>2. l \in Leaves /\ f \in FactsOf(l)
    BY <1>1, <2>1
  <2> HIDE DEF l
  <2>3. PICK j \in 1..Len(l.path) :
          /\ j <= Len(f.at) /\ Up(f.at, j) = Up(l.path, j)
          /\ \A m \in 1..Len(f.at) : m > j => f.at[m].keys = {}
    BY <2>2, EntriesOf
  <2>4. f.at \in Seq(Element) /\ l.path \in Seq(Element) /\ Len(l.path) \in Nat
    BY <2>2, EntriesOf, PlaceElements
  <2>5. i \in 1..Len(f.at) /\ i <= j
    BY <1>9, <2>3, <2>4
  <2>6. i \in 0..j /\ i > 0 /\ j \in 0..Len(f.at) /\ j <= Len(l.path) /\ i \in DOMAIN l.path
    BY <2>3, <2>4, <2>5
  <2>7. Up(f.at, i) = Up(l.path, i) /\ f.at[i] = l.path[i]
    BY <2>3, <2>4, <2>6, UpLess
  <2>8. KeyFact(l, i, kv) \in FactsOf(l)
    <3>1. kv \in l.path[i].keys
      BY <1>9, <2>7
    <3>2. QED BY <2>6, <3>1, FactForms
  <2>9. KeyFact(l, i, kv) \in SentFacts
    BY <2>8 DEF SentFacts, l
  <2>10. KeyFact(l, i, kv).at = KeyPlace(Up(f.at, i), kv) /\ KeyFact(l, i, kv).val = kv[2]
    BY <2>7 DEF KeyFact
  <2>11. QED BY <2>9, <2>10
<1>10. QED BY <1>2, <1>5, <1>6, <1>7, <1>8, <1>9 DEF Coherent

\* The tree of a response holds facts of it only.
LEMMA SentRepresented ==
  ASSUME WellFormed, TextInv, SlashFree, hasLeafUpdates(Updates)
  PROVE  \E E, ix : Represents(FoldLeft(AddUpdate, <<>>, Rest), Below(SentFacts, Stem), E, ix)
<1> DEFINE B == Below(SentFacts, Stem)
           G == [k \in 1..Len(sent) |-> RestFact(k)]
<1>1. SentFacts \subseteq Facts /\ Coherent(SentFacts) /\ Stem \in Seq(Element)
  BY SentCoherent, StemElements
<1>2. Coherent(B)
  BY <1>1, BelowCoherent
<1>3. B \subseteq Below(Facts, Stem)
  BY <1>1 DEF Below, Within
<1>4. Len(sent) \in Nat /\ DOMAIN Rest = 1..Len(sent)
  BY ResponseUpdates, RestUpdates
<1>5. ASSUME NEW k \in 1..Len(sent)
      PROVE  RestFact(k) \in B /\ Reports(Rest[k], RestFact(k)) /\ Alone(B, Rest[k], RestFact(k))
  <2>1. /\ LeafFact(sent[k]) \in Within(Facts, Stem) /\ Reports(Rest[k], RestFact(k))
        /\ Alone(Below(Facts, Stem), Rest[k], RestFact(k))
    BY RestReported
  <2>2. LeafFact(sent[k]) \in SentFacts
    <3>1. LeafFact(sent[k]) \in FactsOf(sent[k])
      BY FactForms
    <3>2. QED BY <3>1 DEF SentFacts
  <2>3. LeafFact(sent[k]) \in Within(SentFacts, Stem)
    BY <2>1, <2>2 DEF Within
  <2>4. RestFact(k) \in B
    BY <2>3 DEF RestFact, Below
  <2> HIDE DEF B
  <2>5. Alone(B, Rest[k], RestFact(k))
    BY <1>3, <2>1 DEF Alone
  <2>6. QED BY <2>1, <2>4, <2>5
<1>6. \A k \in 1..Len(sent) : G[k] \in B /\ Reports(Rest[k], G[k]) /\ Alone(B, Rest[k], G[k])
  BY <1>5
<1> HIDE DEF G, B
<1>7. HasFacts(FoldLeft(AddUpdate, <<>>, Rest), B, {G[k] : k \in 1..Len(sent)})
  BY <1>2, <1>4, <1>6, FactsFolded
<1>8. QED BY <1>7 DEF HasFacts, B

\* The names of a place.
LEMMA PlaceNames ==
  ASSUME NEW p \in Seq(Element)
  PROVE  Names(p) \in Seq(STRING) /\ Len(Names(p)) = Len(p) /\ \A i \in 1..Len(p) : Names(p)[i] = p[i].name
<1>1. \A i \in DOMAIN p : p[i].name \in STRING
  <2>1. \A i \in DOMAIN p : p[i] \in Element
    OBVIOUS
  <2>2. QED BY <2>1 DEF Element
<1>2. QED BY <1>1 DEF Names

\* The key of the j-th element of a place is right below its position.
LEMMA KeyBelow ==
  ASSUME NEW ix \in [Seq(Element) -> Nat], NEW r \in Seq(Element), NEW j \in 1..Len(r),
         NEW kv, kv[1] \in STRING
  PROVE  LET h == KeyPlace(Up(r, j), kv)
         IN  /\ Len(h) = j + 1
             /\ At(ix, h, j + 1) = Append(SubSeq(At(ix, r, Len(r)), 1, j), <<kv[1], 0>>)
<1> DEFINE h == KeyPlace(Up(r, j), kv)
           a == At(ix, r, Len(r))
           b == SubSeq(a, 1, j)
           d == At(ix, r, j)
           s == Len(r)
<1>1. Len(h) = j + 1 /\ At(ix, h, j + 1) = Append(d, <<kv[1], 0>>)
  BY KeyPosition
<1>2. s \in 0..Len(r) /\ j \in 0..Len(r) /\ j \in 0..s
  OBVIOUS
<1>3. a \in Seq(Step) /\ Len(a) = s /\ \A o \in 1..s : a[o] = <<r[o].name, Number(ix, r, o)>>
  <2> HIDE DEF s
  <2>1. /\ At(ix, r, s) \in Position /\ Len(At(ix, r, s)) = s
        /\ \A o \in 1..s : At(ix, r, s)[o] = <<r[o].name, Number(ix, r, o)>>
    BY <1>2, AtElements
  <2>2. QED BY <2>1 DEF Position, s
<1>4. d \in Seq(Step) /\ Len(d) = j /\ \A o \in 1..j : d[o] = <<r[o].name, Number(ix, r, o)>>
  BY <1>2, AtElements DEF Position
<1> HIDE DEF a, d, h
<1>5. b \in Seq(Step) /\ Len(b) = j /\ \A o \in 1..j : b[o] = a[o]
  BY <1>2, <1>3, PrefixPart
<1> HIDE DEF b
<1>6. \A o \in 1..Len(b) : b[o] = d[o]
  <2>1. \A o \in 1..j : o \in 1..s
    BY <1>2
  <2>2. QED BY <1>3, <1>4, <1>5, <2>1
<1>7. b = d
  BY <1>4, <1>5, <1>6, SameElements
<1>8. QED BY <1>1, <1>7 DEF h, a, b, d

\* Position p of u holds the fact f, under its keys, and list elements are
\* entered for the entries on its place.
Told(u, p, f) ==
  /\ f.at \in Seq(Element) /\ p \in Position
  /\ u.tree[p] = f.val /\ Reading(u, p) = Names(f.at) /\ Tells(u, p, f.at)
  /\ \A i \in DOMAIN f.at : f.at[i].keys # {} /\ ~(i <= Len(u.path)) => p[i - Len(u.path)][2] # 0

\* What a tree holds that a response became.
LEMMA ToldWithin ==
  ASSUME WellFormed, TextInv, SlashFree, hasLeafUpdates(Updates), NEW u,
         u.path = commonPathPrefix(Updates), u.tree = FoldLeft(AddUpdate, <<>>, Rest),
         NEW p \in DOMAIN u.tree
  PROVE  \E i \in 1..Len(sent) : \E f \in FactsOf(sent[i]) : Told(u, p, f)
<1> DEFINE c == commonPathPrefix(Updates)
           n == Len(Stem)
           B == Below(SentFacts, Stem)
<1>1. /\ Stem \in Seq(Element) /\ n = Len(c) /\ n \in Nat /\ c \in Path
      /\ \A k \in 1..n : c[k].name = Stem[k].name /\ ToSet(c[k].sel) = Stem[k].keys
  <2>1. Len(sent) > 1 /\ Len(sent) \in Nat
    BY ResponseUpdates DEF hasLeafUpdates
  <2> DEFINE q == sent[1].path
  <2>2. /\ Stem \in Seq(Element) /\ n = Len(c) /\ n \in Nat /\ c \in Path
        /\ q \in Seq(Element) /\ n < Len(q) /\ Up(q, n) = Stem
        /\ \A k \in 1..n : c[k].name = q[k].name /\ ToSet(c[k].sel) = q[k].keys
    BY <2>1, StemElements
  <2> HIDE DEF q, n
  <2>3. \A k \in 1..n : Stem[k] = q[k]
    <3>1. n \in 0..Len(q)
      BY <2>2
    <3>2. QED BY <2>2, <3>1, UpElements
  <2>4. QED BY <2>2, <2>3
<1>2. SentFacts \subseteq Facts /\ Coherent(SentFacts)
  BY SentCoherent
<1>3. PICK E, ix : Represents(u.tree, B, E, ix)
  BY SentRepresented
<1>4. /\ ix \in [Seq(Element) -> Nat] /\ E \subseteq B
      /\ DOMAIN u.tree = {At(ix, f.at, Len(f.at)) : f \in E}
      /\ (\A f \in E : u.tree[At(ix, f.at, Len(f.at))] = f.val)
      /\ (\A f \in E : \A j \in DOMAIN f.at : \A kv \in f.at[j].keys :
            \E h \in E : h.at = KeyPlace(Up(f.at, j), kv) /\ h.val = kv[2])
      /\ \A f \in E : \A j \in DOMAIN f.at : f.at[j].keys # {} => ix[Up(f.at, j)] > 0
  BY <1>3 DEF Represents, Numbered
<1>5. PICK g \in E : p = At(ix, g.at, Len(g.at))
  BY <1>4
<1> DEFINE r == g.at
<1>6. PICK f \in Within(SentFacts, Stem) : g = CutFact(f, n)
  BY <1>4 DEF Below
<1>7. /\ f \in SentFacts /\ f.at \in Seq(Element) /\ n \in 0..Len(f.at) /\ Len(f.at) \in Nat
      /\ Up(f.at, n) = Stem /\ g.val = f.val
      /\ r \in Seq(Element) /\ Len(r) = Len(f.at) - n /\ DOMAIN r = 1..(Len(f.at) - n)
      /\ \A i \in 1..(Len(f.at) - n) : r[i] = f.at[n + i]
  <2>1. LET s == CutFact(f, Len(Stem)).at
        IN  /\ f \in SentFacts /\ f.at \in Seq(Element) /\ Len(Stem) \in 0..Len(f.at)
            /\ Len(f.at) \in Nat /\ Up(f.at, Len(Stem)) = Stem /\ CutFact(f, Len(Stem)).val = f.val
            /\ s \in Seq(Element) /\ Len(s) = Len(f.at) - Len(Stem)
            /\ DOMAIN s = 1..(Len(f.at) - Len(Stem))
            /\ \A i \in 1..(Len(f.at) - Len(Stem)) : s[i] = f.at[Len(Stem) + i]
    <3>1. Coherent(SentFacts) /\ Stem \in Seq(Element) /\ f \in Within(SentFacts, Stem)
      BY <1>1, <1>2
    <3>2. QED BY <3>1, CutFacts
  <2>2. QED BY <1>6, <2>1
<1>8. PICK i \in 1..Len(sent) : f \in FactsOf(sent[i])
  BY <1>7 DEF SentFacts
<1>9. \A k \in 1..n : f.at[k] = Stem[k]
  BY <1>7, UpElements
<1>10. /\ p \in Position /\ Len(p) = Len(r)
       /\ \A k \in 1..Len(r) : p[k][1] = r[k].name /\ p[k][2] = Number(ix, r, k)
  <2> DEFINE s == Len(r)
  <2>1. s \in 0..Len(r)
    BY <1>7
  <2> HIDE DEF r, s
  <2>2. /\ At(ix, r, s) \in Position /\ Len(At(ix, r, s)) = s
        /\ \A k \in 1..s : At(ix, r, s)[k][1] = r[k].name /\ At(ix, r, s)[k][2] = Number(ix, r, k)
    BY <1>4, <1>7, <2>1, AtElements
  <2>3. QED BY <1>5, <2>2 DEF s, r
<1> HIDE DEF c, n, r, B
<1>11. Reading(u, p) = Names(f.at)
  <2> DEFINE a == Names(c)
             b == StepNames(p)
             z == Names(f.at)
  <2>1. a \in Seq(STRING) /\ Len(a) = n /\ \A k \in 1..n : a[k] = f.at[k].name
    <3>1. a \in Seq(STRING) /\ Len(a) = n /\ \A k \in 1..n : a[k] = c[k].name
      BY <1>1, NamesElements
    <3>2. QED BY <1>1, <1>9, <3>1
  <2>2. b \in Seq(STRING) /\ Len(b) = Len(f.at) - n /\ \A k \in 1..(Len(f.at) - n) : b[k] = f.at[n + k].name
    <3>1. b \in Seq(STRING) /\ Len(b) = Len(p) /\ \A k \in 1..Len(p) : b[k] = p[k][1]
      BY <1>10, StepNamesElements
    <3>2. QED BY <1>7, <1>10, <3>1
  <2>3. z \in Seq(STRING) /\ Len(z) = Len(f.at) /\ \A k \in 1..Len(f.at) : z[k] = f.at[k].name
    BY <1>7, PlaceNames
  <2>4. Reading(u, p) = a \o b
    BY DEF Reading, c
  <2> HIDE DEF a, b, z
  <2>5. Len(z) = Len(a) + Len(b)
    BY <1>7, <2>1, <2>2, <2>3
  <2>6. \A k \in 1..Len(a) : a[k] = z[k]
    <3>1. \A k \in 1..n : k \in 1..Len(f.at)
      BY <1>7
    <3>2. QED BY <2>1, <2>3, <3>1
  <2>7. \A k \in 1..Len(b) : b[k] = z[Len(a) + k]
    <3>1. \A k \in 1..(Len(f.at) - n) : n + k \in 1..Len(f.at)
      BY <1>7
    <3>2. QED BY <2>1, <2>2, <2>3, <3>1
  <2>8. a \o b = z
    BY <2>1, <2>2, <2>3, <2>5, <2>6, <2>7, JoinedParts
  <2>9. QED BY <2>4, <2>8 DEF z
<1>12. ASSUME NEW k \in DOMAIN f.at, ~(k <= n), f.at[k].keys # {}
       PROVE  p[k - n][2] # 0 /\ \A kv \in f.at[k].keys :
                LET q == Append(SubSeq(p, 1, k - n), <<kv[1], 0>>)
                IN  q \in DOMAIN u.tree /\ u.tree[q] = kv[2]
  <2>1. PICK j \in 1..Len(r) : k = n + j
    <3>1. k - n \in 1..Len(r) /\ k = n + (k - n)
      BY <1>7, <1>12
    <3>2. QED BY <3>1
  <2>2. j \in DOMAIN r /\ r[j] = f.at[k] /\ k - n = j
    BY <1>1, <1>7, <2>1
  <2>3. p[j][2] # 0
    <3>1. ix[Up(r, j)] > 0
      BY <1>4, <1>12, <2>2 DEF r
    <3>2. p[j][2] = ix[Up(r, j)]
      BY <1>10, <1>12, <2>1, <2>2 DEF Number
    <3>3. Up(r, j) \in Seq(Element)
      <4>1. j \in 0..Len(r)
        BY <1>7, <2>1
      <4>2. QED BY <1>7, <4>1, UpElements
    <3>4. QED BY <1>4, <3>1, <3>2, <3>3
  <2>4. ASSUME NEW kv \in f.at[k].keys
        PROVE  LET q == Append(SubSeq(p, 1, j), <<kv[1], 0>>)
               IN  q \in DOMAIN u.tree /\ u.tree[q] = kv[2]
    <3> DEFINE q == Append(SubSeq(p, 1, j), <<kv[1], 0>>)
    <3>1. PICK h \in E : h.at = KeyPlace(Up(r, j), kv) /\ h.val = kv[2]
      BY <1>4, <2>2 DEF r
    <3>2. kv[1] \in STRING
      <4>1. r[j] \in Element
        BY <1>7, <2>1
      <4>2. r[j].keys \subseteq STRING \X STRING
        BY <4>1 DEF Element
      <4>3. kv \in STRING \X STRING
        BY <2>2, <4>2
      <4>4. QED BY <4>3
    <3>3. Len(h.at) = j + 1 /\ At(ix, h.at, j + 1) = q
      <4>1. ix \in [Seq(Element) -> Nat] /\ r \in Seq(Element) /\ j \in 1..Len(r) /\ kv[1] \in STRING
        BY <1>4, <1>7, <3>2
      <4>2. LET o == KeyPlace(Up(r, j), kv)
            IN  /\ Len(o) = j + 1
                /\ At(ix, o, j + 1) = Append(SubSeq(At(ix, r, Len(r)), 1, j), <<kv[1], 0>>)
        BY <4>1, KeyBelow
      <4>3. QED BY <1>5, <3>1, <4>2 DEF r
    <3> HIDE DEF q
    <3>4. q = At(ix, h.at, Len(h.at))
      BY <3>3
    <3>5. q \in DOMAIN u.tree /\ u.tree[q] = kv[2]
      BY <1>4, <3>1, <3>4
    <3>6. QED BY <3>5 DEF q
  <2>5. QED BY <2>2, <2>3, <2>4
<1>13. Tells(u, p, f.at)
  <2>1. ASSUME NEW k \in DOMAIN f.at, NEW kv \in f.at[k].keys, k <= n PROVE kv \in ToSet(c[k].sel)
    <3>1. k \in 1..n
      BY <1>1, <1>7, <2>1
    <3>2. QED BY <1>1, <1>9, <2>1, <3>1
  <2>2. ASSUME NEW k \in DOMAIN f.at, NEW kv \in f.at[k].keys, ~(k <= n)
        PROVE  LET q == Append(SubSeq(p, 1, k - n), <<kv[1], 0>>)
               IN  q \in DOMAIN u.tree /\ u.tree[q] = kv[2]
    BY <1>12, <2>2
  <2>3. n = Len(u.path) /\ u.path = c
    BY <1>1 DEF c
  <2> HIDE DEF n, c
  <2>4. QED BY <2>1, <2>2, <2>3, Zenon DEF Tells
<1>14. \A k \in DOMAIN f.at : f.at[k].keys # {} /\ ~(k <= Len(u.path)) => p[k - Len(u.path)][2] # 0
  <2>1. n = Len(u.path)
    BY <1>1 DEF c
  <2>2. QED BY <1>12, <2>1
<1>15. u.tree[p] = f.val
  BY <1>4, <1>5, <1>7
<1>16. Told(u, p, f)
  BY <1>7, <1>10, <1>11, <1>13, <1>14, <1>15 DEF Told
<1>17. QED BY <1>8, <1>16

\* What an update holds that was left as it is.
LEMMA ToldAlone ==
  ASSUME TextInv, NEW i \in 1..Len(sent), NEW u,
         u = [path |-> text[i], tree |-> [at \in {Plain(sent[i].below)} |-> sent[i].val]]
  PROVE  \A p \in DOMAIN u.tree : Told(u, p, LeafFact(sent[i]))
<1> DEFINE l == sent[i]
           t == text[i]
           b == l.below
           a == Plain(b)
           f == LeafFact(l)
           q == Place(l)
           m == Len(l.path)
<1>1. l \in Leaves /\ TextOf(t, l.path) /\ t \in Path
  BY ResponseUpdates
<1>2. PathOK(l.path) /\ b \in Seq(STRING) /\ m \in Nat /\ 0 \in 0..m
  BY <1>1, LeafPath DEF PathOK
<1>3. u.path = t /\ DOMAIN u.tree = {a} /\ u.tree[a] = l.val
  OBVIOUS
<1>4. f.at = q /\ f.val = l.val
  BY DEF LeafFact
<1>5. /\ q \in Seq(Element) /\ Len(q) = m + Len(b) /\ DOMAIN q = 1..Len(q)
      /\ (\A k \in 1..m : q[k] = l.path[k])
      /\ (\A k \in 1..Len(b) : q[m + k] = [name |-> b[k], keys |-> {}])
  <2>1. /\ q \in Seq(Element) /\ Len(q) = m + Len(b)
        /\ (\A k \in 1..m : q[k] = l.path[k])
        /\ (\A k \in 1..Len(b) : q[m + k] = [name |-> b[k], keys |-> {}])
    BY <1>1, PlaceElements
  <2> HIDE DEF q, m, b
  <2>2. DOMAIN q = 1..Len(q)
    BY <2>1
  <2>3. QED BY <2>1, <2>2
<1> HIDE DEF l, t, a, f, q, m
<1>6. StepNames(a) = b /\ a \in Position
  BY <1>2, PlainPosition DEF a
<1>7. Len(t) = m /\ \A k \in 1..m : t[k].name = l.path[k].name /\ ToSet(t[k].sel) = l.path[k].keys
  BY <1>1, <1>2 DEF TextOf, PathOK, m
<1>8. Reading(u, a) = Names(q)
  <2> DEFINE x == Names(t)
             z == Names(q)
  <2>1. x \in Seq(STRING) /\ Len(x) = m /\ \A k \in 1..m : x[k] = q[k].name
    BY <1>1, <1>5, <1>7, NamesElements
  <2>2. z \in Seq(STRING) /\ Len(z) = Len(q) /\ \A k \in 1..Len(q) : z[k] = q[k].name
    BY <1>5, PlaceNames
  <2>3. Reading(u, a) = x \o b
    BY <1>3, <1>6 DEF Reading
  <2> HIDE DEF x, z, b
  <2>4. Len(b) \in Nat
    BY <1>2
  <2>5. Len(z) = Len(x) + Len(b) /\ \A k \in 1..Len(x) : x[k] = z[k]
    <3>1. \A k \in 1..m : k \in 1..Len(q)
      BY <1>2, <1>5, <2>4
    <3>2. QED BY <1>5, <2>1, <2>2, <3>1
  <2>6. ASSUME NEW k \in 1..Len(b) PROVE b[k] = z[Len(x) + k]
    <3>1. m + k \in 1..Len(q)
      BY <1>2, <1>5, <2>4
    <3>2. z[m + k] = q[m + k].name
      BY <2>2, <3>1
    <3>3. q[m + k].name = b[k]
      <4> DEFINE e == q[m + k]
                 o == b[k]
      <4>1. e = [name |-> o, keys |-> {}]
        BY <1>5
      <4> HIDE DEF e, o
      <4>2. e.name = o
        BY <4>1
      <4>3. QED BY <4>2 DEF e, o
    <3>4. QED BY <2>1, <3>2, <3>3
  <2>7. x \o b = z
    BY <1>2, <2>1, <2>2, <2>5, <2>6, JoinedParts
  <2>8. QED BY <2>3, <2>7 DEF z
<1>9. ASSUME NEW k \in DOMAIN q, q[k].keys # {} PROVE k \in 1..m
  <2>1. CASE k \in 1..m
    BY <2>1
  <2>2. CASE k \notin 1..m
    <3> DEFINE d == Len(b)
    <3>1. d \in Nat /\ k \in 1..(m + d)
      BY <1>2, <1>5
    <3>2. PICK j \in 1..d : k = m + j
      <4> HIDE DEF d
      <4>1. k - m \in 1..d /\ k = m + (k - m)
        BY <1>2, <2>2, <3>1
      <4>2. QED BY <4>1
    <3>3. q[k].keys = {}
      <4> DEFINE e == q[k]
                 o == b[j]
      <4>1. e = [name |-> o, keys |-> {}]
        BY <1>5, <3>2
      <4> HIDE DEF e, o
      <4>2. e.keys = {}
        BY <4>1
      <4>3. QED BY <4>2 DEF e
    <3>4. QED BY <1>9, <3>3
  <2>3. QED BY <2>1, <2>2
<1>10. Tells(u, a, q)
  <2>1. ASSUME NEW k \in DOMAIN q, NEW kv \in q[k].keys
        PROVE  k <= Len(u.path) /\ kv \in ToSet(u.path[k].sel)
    <3>1. k \in 1..m
      BY <1>9, <2>1
    <3>2. kv \in ToSet(t[k].sel) /\ k <= m
      <4>1. q[k] = l.path[k] /\ ToSet(t[k].sel) = l.path[k].keys
        BY <1>5, <1>7, <3>1
      <4>2. kv \in l.path[k].keys
        BY <2>1, <4>1
      <4>3. QED BY <1>2, <3>1, <4>1, <4>2
    <3>3. QED BY <1>3, <1>7, <3>2
  <2>2. QED BY <2>1 DEF Tells
<1>11. \A k \in DOMAIN q : q[k].keys # {} => k <= Len(u.path)
  <2>1. \A k \in 1..m : k <= m
    BY <1>2
  <2>2. QED BY <1>3, <1>7, <1>9, <2>1
<1>12. Told(u, a, f)
  BY <1>3, <1>4, <1>5, <1>6, <1>8, <1>10, <1>11 DEF Told
<1>13. QED BY <1>3, <1>12 DEF f, l

\* A list entry on the place of a fact is one on the path of a leaf.
LEMMA FactElement ==
  ASSUME NEW f \in Facts, NEW k \in DOMAIN f.at, NEW kv \in f.at[k].keys
  PROVE  \E l \in Leaves : k \in DOMAIN l.path /\ kv \in l.path[k].keys
<1>1. f.at \in Seq(Element) /\ f.at # <<>>
  BY FactEntries
<1>2. PICK l \in Leaves : \E j \in 1..Len(l.path) :
        /\ j <= Len(f.at) /\ Up(f.at, j) = Up(l.path, j)
        /\ \A m \in 1..Len(f.at) : m > j => f.at[m].keys = {}
  BY FactEntries
<1>3. PICK j \in 1..Len(l.path) :
        /\ j <= Len(f.at) /\ Up(f.at, j) = Up(l.path, j)
        /\ \A m \in 1..Len(f.at) : m > j => f.at[m].keys = {}
  BY <1>2
<1>4. l.path \in Seq(Element) /\ Len(l.path) \in Nat
  BY PlaceElements
<1>5. k \in 1..Len(f.at) /\ k <= j
  BY <1>1, <1>3
<1>6. k \in 1..j /\ j \in 0..Len(f.at) /\ j <= Len(l.path) /\ k \in DOMAIN l.path
  BY <1>1, <1>3, <1>4, <1>5
<1>7. f.at[k] = l.path[k]
  BY <1>1, <1>3, <1>4, <1>6, UpSame
<1>8. QED BY <1>6, <1>7

\* A position that a path leads to.
LEMMA FoundPosition ==
  ASSUME NEW u, Routable(u), NEW sp, NEW at \in Found(u, sp)
  PROVE  at \in Position
<1>1. PICK q \in DOMAIN u.tree : at \in Prefixes(q)
  BY DEF Found
<1>2. PICK m \in 0..Len(q) : at = SubSeq(q, 1, m)
  BY <1>1 DEF Prefixes
<1>3. q \in Seq(Step)
  BY DEF Routable, Position
<1>4. QED BY <1>2, <1>3, PrefixPart DEF Position

\* An element that has its name is called by it.
LEMMA NamedEntity ==
  ASSUME NEW tree, NEW at, Append(at, <<"name", 0>>) \in DOMAIN tree
  PROVE  EntityName(tree, at) = << <<"name", tree[Append(at, <<"name", 0>>)]>> >>
<1> DEFINE own == {k \in DOMAIN EntityKeys : Append(at, <<EntityKeys[k], 0>>) \in DOMAIN tree}
<1>1. DOMAIN EntityKeys = 1..3 /\ EntityKeys[1] = "name"
  BY DEF EntityKeys
<1>2. 1 \in own /\ own \subseteq 1..3
  BY <1>1
<1>3. EntityName(tree, at) =
        IF own = {} THEN <<>> ELSE << <<"name", tree[Append(at, <<EntityKeys[Min(own)], 0>>)]>> >>
  BY DEF EntityName
<1> HIDE DEF own
<1>4. Min(own) = 1
  <2>1. Min(own) \in own /\ \A y \in own : Min(own) <= y
    <3>1. \A y \in own : 1 <= y
      BY <1>2
    <3>2. QED BY <1>2, <3>1 DEF Min
  <2> DEFINE x == Min(own)
  <2>2. x \in 1..3 /\ x <= 1
    BY <1>2, <2>1
  <2> HIDE DEF x
  <2>3. x = 1
    BY <2>2
  <2>4. QED BY <2>3 DEF x
<1>5. own # {}
  BY <1>2
<1>6. QED BY <1>1, <1>3, <1>4, <1>5

\* A key below a position that was entered.
LEMMA KeyEntered ==
  ASSUME NEW X, NEW q \in Seq(X), NEW m \in 0..Len(q), NEW k \in 0..(Len(q) - m), NEW e \in X
  PROVE  LET z == Append(SubSeq(q, 1, m + k), e)
         IN  /\ IsPrefix(SubSeq(q, 1, m), z)
             /\ SubSeq(z, m + 1, Len(z)) = Append(SubSeq(SubSeq(q, m + 1, Len(q)), 1, k), e)
<1> DEFINE n == m + k
           a == SubSeq(q, 1, m)
           x == SubSeq(q, 1, n)
           z == Append(x, e)
           p == SubSeq(q, m + 1, Len(q))
           y == SubSeq(p, 1, k)
           v == Append(y, e)
           w == SubSeq(z, m + 1, Len(z))
<1>1. n \in 0..Len(q) /\ m \in Nat /\ k \in Nat /\ m <= n /\ Len(q) \in Nat
  OBVIOUS
<1>2. a \in Seq(X) /\ Len(a) = m /\ \A i \in 1..m : a[i] = q[i]
  BY PrefixPart
<1>3. p \in Seq(X) /\ Len(p) = Len(q) - m /\ \A i \in 1..(Len(q) - m) : p[i] = q[m + i]
  BY RestPart
<1> HIDE DEF a, p, n
<1>4. x \in Seq(X) /\ Len(x) = n /\ \A i \in 1..n : x[i] = q[i]
  BY <1>1, PrefixPart
<1>5. k \in 0..Len(p)
  BY <1>3
<1>6. y \in Seq(X) /\ Len(y) = k /\ \A i \in 1..k : y[i] = p[i]
  BY <1>3, <1>5, PrefixPart
<1> HIDE DEF x, y
<1>7. z \in Seq(X) /\ Len(z) = n + 1 /\ (\A i \in 1..n : z[i] = x[i]) /\ z[n + 1] = e
  BY <1>4, AppendElements
<1>8. v \in Seq(X) /\ Len(v) = k + 1 /\ (\A i \in 1..k : v[i] = y[i]) /\ v[k + 1] = e
  BY <1>6, AppendElements
<1> HIDE DEF z, v
<1>9. n = m + k
  BY DEF n
<1>10. m \in 0..Len(z) /\ Len(z) - m = k + 1
  BY <1>1, <1>7, <1>9
<1>11. w \in Seq(X) /\ Len(w) = k + 1 /\ \A i \in 1..(k + 1) : w[i] = z[m + i]
  <2>1. w \in Seq(X) /\ Len(w) = Len(z) - m /\ \A i \in 1..(Len(z) - m) : w[i] = z[m + i]
    BY <1>7, <1>10, RestPart
  <2> HIDE DEF w
  <2>2. QED BY <1>10, <2>1
<1> HIDE DEF w
<1>12. ASSUME NEW i \in 1..(k + 1) PROVE w[i] = v[i]
  <2>1. CASE i = k + 1
    <3>1. m + i = n + 1
      BY <1>1, <1>9, <2>1
    <3>2. QED BY <1>7, <1>8, <1>11, <2>1, <3>1
  <2>2. CASE i # k + 1
    <3>1. i \in 1..k /\ m + i \in 1..n /\ i \in 1..(Len(q) - m)
      BY <1>1, <1>9, <2>2
    <3>2. w[i] = q[m + i]
      BY <1>4, <1>7, <1>11, <3>1
    <3>3. v[i] = q[m + i]
      BY <1>3, <1>6, <1>8, <3>1
    <3>4. QED BY <3>2, <3>3
  <2>3. QED BY <2>1, <2>2
<1>13. w = v
  BY <1>8, <1>11, <1>12, SameElements
<1>14. IsPrefix(a, z)
  <2>1. Len(a) <= Len(z)
    BY <1>1, <1>2, <1>7
  <2>2. \A i \in 1..Len(a) : i \in 1..n /\ a[i] = q[i]
    BY <1>1, <1>2
  <2>3. \A i \in 1..n : z[i] = q[i]
    BY <1>4, <1>7
  <2>4. \A i \in 1..Len(a) : a[i] = z[i]
    BY <2>2, <2>3
  <2>5. QED BY <1>2, <1>7, <2>1, <2>4, PrefixElements
<1>15. QED BY <1>13, <1>14 DEF a, p, n, x, y, z, v, w

\* A fact is under its keys where the drill-down moves it.
LEMMA ToldDrilled ==
  ASSUME NEW u, Routable(u), NEW at \in Position, NEW q \in DOMAIN u.tree, IsPrefix(at, q),
         NEW f, Told(u, q, f), \A i \in DOMAIN f.at : \A kv \in f.at[i].keys : kv[1] = "name"
  PROVE  Tells(Drilled(u, at), SubSeq(q, Len(at) + 1, Len(q)), f.at)
<1> DEFINE d == Drilled(u, at)
           n == Len(u.path)
           m == Len(at)
           p == SubSeq(q, m + 1, Len(q))
           place == f.at
<1>1. /\ Len(d.path) = n + m /\ (\A i \in 1..n : d.path[i] = u.path[i])
      /\ \A j \in 1..m : d.path[n + j].sel = Entity(u, at, j)
  BY DrilledPath
<1>2. n \in Nat /\ q \in Seq(Step) /\ at \in Seq(Step) /\ m \in Nat
  <2>1. u.path \in Path /\ q \in Position
    BY DEF Routable
  <2>2. QED BY <2>1 DEF Path, Position
<1>3. m \in 0..Len(q) /\ at = SubSeq(q, 1, m)
  <2>1. m <= Len(q) /\ \A i \in 1..m : at[i] = q[i]
    BY <1>2, PrefixElements
  <2>2. m \in 0..Len(q)
    BY <1>2, <2>1
  <2> DEFINE s == SubSeq(q, 1, m)
  <2>3. s \in Seq(Step) /\ Len(s) = m /\ \A i \in 1..m : s[i] = q[i]
    BY <1>2, <2>2, PrefixPart
  <2> HIDE DEF s
  <2>4. at = s
    BY <1>2, <2>1, <2>3, SameElements
  <2>5. QED BY <2>2, <2>4 DEF s
<1>4. /\ place \in Seq(Element) /\ Reading(u, q) = Names(place) /\ Tells(u, q, place)
      /\ \A i \in DOMAIN place : place[i].keys # {} /\ ~(i <= n) => q[i - n][2] # 0
  BY DEF Told
<1>5. DOMAIN place = 1..(n + Len(q)) /\ Len(q) \in Nat
  <2>1. Len(Reading(u, q)) = n + Len(q) /\ Reading(u, q) \in Seq(STRING)
    <3>1. <<>> \in Path
      BY DEF Path
    <3>2. QED BY <3>1, ReadingPrefix
  <2>2. Len(Names(place)) = Len(place) /\ DOMAIN place = 1..Len(place)
    BY <1>4, PlaceNames
  <2>3. Len(place) = n + Len(q)
    BY <1>4, <2>1, <2>2
  <2>4. Len(q) \in Nat
    BY <1>2
  <2> HIDE DEF place, n
  <2>5. QED BY <2>2, <2>3, <2>4
<1>6. \A z \in DOMAIN u.tree : IsPrefix(at, z) =>
        LET x == SubSeq(z, m + 1, Len(z)) IN x \in DOMAIN d.tree /\ d.tree[x] = u.tree[z]
  BY DrilledTree DEF Same
<1> HIDE DEF d, n, m, place
<1>7. ASSUME NEW i \in DOMAIN place, NEW kv \in place[i].keys
      PROVE  kv = <<"name", kv[2]>>
  <2>1. place[i] \in Element
    BY <1>4
  <2>2. kv \in STRING \X STRING
    BY <1>7, <2>1 DEF Element
  <2>3. kv[1] = "name"
    BY <1>7 DEF place
  <2>4. QED BY <2>2, <2>3
<1>8. ASSUME NEW i \in DOMAIN place, NEW kv \in place[i].keys, ~(i <= n)
      PROVE  LET z == Append(SubSeq(q, 1, i - n), <<"name", 0>>)
             IN  z \in DOMAIN u.tree /\ u.tree[z] = kv[2]
  <2>1. LET z == Append(SubSeq(q, 1, i - n), <<kv[1], 0>>)
        IN  z \in DOMAIN u.tree /\ u.tree[z] = kv[2]
    BY <1>4, <1>8 DEF Tells, n
  <2>2. kv[1] = "name"
    BY <1>8 DEF place
  <2>3. QED BY <2>1, <2>2
<1>9. ASSUME NEW i \in DOMAIN place, NEW kv \in place[i].keys, i <= n + m
      PROVE  kv \in ToSet(d.path[i].sel)
  <2>1. CASE i <= n
    <3>1. i \in 1..n
      BY <1>2, <1>5, <2>1
    <3>2. kv \in ToSet(u.path[i].sel)
      BY <1>4, <1>9, <2>1 DEF Tells, n
    <3>3. QED BY <1>1, <3>1, <3>2
  <2>2. CASE ~(i <= n)
    <3>1. PICK j \in 1..m : i = n + j
      <4>1. i - n \in 1..m /\ i = n + (i - n)
        BY <1>2, <1>5, <1>9, <2>2
      <4>2. QED BY <4>1
    <3>2. i - n = j /\ j \in 1..Len(q)
      BY <1>2, <1>3, <3>1
    <3> DEFINE b == SubSeq(q, 1, j)
    <3>3. Append(b, <<"name", 0>>) \in DOMAIN u.tree /\ u.tree[Append(b, <<"name", 0>>)] = kv[2]
      BY <1>8, <1>9, <2>2, <3>2
    <3>4. SubSeq(at, 1, j) = b /\ at[j] = q[j]
      <4> DEFINE c == SubSeq(at, 1, j)
      <4>1. j \in 0..Len(at) /\ j \in 0..Len(q) /\ Len(at) = m
        BY <1>2, <1>3, <3>1, <3>2 DEF m
      <4>2. c \in Seq(Step) /\ Len(c) = j /\ \A k \in 1..j : c[k] = at[k]
        BY <1>2, <4>1, PrefixPart
      <4>3. b \in Seq(Step) /\ Len(b) = j /\ \A k \in 1..j : b[k] = q[k]
        BY <1>2, <4>1, PrefixPart
      <4>4. \A k \in 1..m : at[k] = q[k]
        BY <1>2, PrefixElements DEF m
      <4> HIDE DEF b, c
      <4>5. \A k \in 1..j : k \in 1..m
        BY <4>1
      <4>6. \A k \in 1..Len(c) : c[k] = b[k]
        BY <4>2, <4>3, <4>4, <4>5
      <4>7. c = b
        BY <4>2, <4>3, <4>6, SameElements
      <4>8. QED BY <3>1, <4>4, <4>7 DEF c
    <3>5. at[j][2] # 0
      BY <1>4, <1>9, <2>2, <3>2, <3>4
    <3>6. Entity(u, at, j) = EntityName(u.tree, b)
      BY <3>4, <3>5 DEF Entity
    <3>7. EntityName(u.tree, b) = << <<"name", kv[2]>> >>
      BY <3>3, NamedEntity
    <3>8. d.path[i].sel = <<kv>>
      BY <1>1, <1>7, <1>9, <3>1, <3>6, <3>7
    <3>9. kv \in ToSet(<<kv>>)
      BY DEF ToSet
    <3>10. QED BY <3>8, <3>9
  <2>3. QED BY <2>1, <2>2
<1>10. ASSUME NEW i \in DOMAIN place, NEW kv \in place[i].keys, ~(i <= n + m)
       PROVE  LET z == Append(SubSeq(p, 1, i - (n + m)), <<kv[1], 0>>)
              IN  z \in DOMAIN d.tree /\ d.tree[z] = kv[2]
  <2> DEFINE e == <<"name", 0>>
  <2>1. PICK k \in 0..(Len(q) - m) : i = (n + m) + k
    <3>1. i - (n + m) \in 0..(Len(q) - m) /\ i = (n + m) + (i - (n + m))
      BY <1>2, <1>3, <1>5, <1>10
    <3>2. QED BY <3>1
  <2>2. ~(i <= n) /\ i - n = m + k /\ i - (n + m) = k
    BY <1>2, <1>3, <1>5, <1>10, <2>1
  <2>3. kv[1] = "name"
    BY <1>10 DEF place
  <2> DEFINE z == Append(SubSeq(q, 1, m + k), e)
             w == Append(SubSeq(p, 1, k), e)
  <2>4. z \in DOMAIN u.tree /\ u.tree[z] = kv[2]
    BY <1>8, <1>10, <2>2
  <2>5. e \in Step
    <3>1. place[i] \in Element
      BY <1>4
    <3>2. kv[1] \in STRING
      BY <1>10, <3>1 DEF Element
    <3>3. 0 \in Nat
      OBVIOUS
    <3>4. QED BY <2>3, <3>2, <3>3 DEF Step
  <2> HIDE DEF e
  <2>6. IsPrefix(SubSeq(q, 1, m), z) /\ SubSeq(z, m + 1, Len(z)) = w
    BY <1>2, <1>3, <2>1, <2>5, KeyEntered
  <2> HIDE DEF z, w, p
  <2>7. w \in DOMAIN d.tree /\ d.tree[w] = kv[2]
    BY <1>3, <1>6, <2>4, <2>6
  <2>8. QED BY <2>2, <2>3, <2>7 DEF w, e
<1> HIDE DEF p
<1>11. Tells(d, p, place)
  <2>1. Len(d.path) = n + m
    BY <1>1
  <2>2. QED BY <1>9, <1>10, <2>1, Zenon DEF Tells
<1>12. QED BY <1>11 DEF d, p, place, m

\* What is delivered at or above a subscribed path.
LEMMA KeptUnderKeys ==
  ASSUME WellFormed, NameKeyed, TextInv, SlashFree, NEW i \in DOMAIN Sub, NEW u \in Normalized,
         NEW d \in AtPath(u, Sub[i]) \cup AbovePath(u, Sub[i]), NEW p \in DOMAIN d.tree
  PROVE  \E j \in DOMAIN sent : \E f \in FactsOf(sent[j]) :
           /\ d.tree[p] = f.val /\ Names(d.path) \o StepNames(p) = Names(f.at)
           /\ Tells(d, p, f.at)
<1> DEFINE sp == Sub[i]
<1>1. ASSUME NEW q \in DOMAIN u.tree PROVE \E j \in DOMAIN sent : \E f \in FactsOf(sent[j]) : Told(u, q, f)
  <2>1. CASE /\ hasLeafUpdates(Updates)
             /\ u.path = commonPathPrefix(Updates) /\ u.tree = FoldLeft(AddUpdate, <<>>, Rest)
    <3>1. \E j \in 1..Len(sent) : \E f \in FactsOf(sent[j]) : Told(u, q, f)
      BY <2>1, ToldWithin
    <3>2. QED BY <3>1, ResponseUpdates
  <2>2. CASE \E j \in 1..Len(sent) :
               u = [path |-> text[j], tree |-> [at \in {Plain(sent[j].below)} |-> sent[j].val]]
    <3>1. PICK j \in 1..Len(sent) :
               u = [path |-> text[j], tree |-> [at \in {Plain(sent[j].below)} |-> sent[j].val]]
      BY <2>2
    <3>2. Told(u, q, LeafFact(sent[j]))
      BY <3>1, ToldAlone
    <3>3. LeafFact(sent[j]) \in FactsOf(sent[j]) /\ j \in DOMAIN sent
      BY FactForms, ResponseUpdates
    <3>4. QED BY <3>2, <3>3
  <2>3. QED BY <2>1, <2>2, NormalizedForms
<1>2. Routable(u)
  BY NormalizedRoutable
<1>3. CASE d \in AtPath(u, sp)
  <2>1. d = u
    BY <1>3 DEF AtPath
  <2>2. PICK j \in DOMAIN sent : \E f \in FactsOf(sent[j]) : Told(u, p, f)
    BY <1>1, <2>1
  <2>3. QED BY <2>1, <2>2 DEF Told, Reading
<1>4. CASE d \in AbovePath(u, sp)
  <2>1. \E at \in Found(u, sp) : d = Drilled(u, at)
    BY <1>4, AboveForm
  <2>2. PICK at \in Found(u, sp) : d = Drilled(u, at)
    BY <2>1
  <2>3. at \in Position
    BY <1>2, FoundPosition
  <2>4. PICK q \in DOMAIN u.tree :
          IsPrefix(at, q) /\ p = SubSeq(q, Len(at) + 1, Len(q)) /\ Same(d, p, u, q)
    BY <1>2, <2>2, <2>3, DrilledTree
  <2>5. PICK j \in DOMAIN sent : \E f \in FactsOf(sent[j]) : Told(u, q, f)
    BY <1>1
  <2>6. PICK f \in FactsOf(sent[j]) : Told(u, q, f)
    BY <2>5
  <2>7. \A k \in DOMAIN f.at : \A kv \in f.at[k].keys : kv[1] = "name"
    <3>1. sent[j] \in Leaves
      BY ResponseUpdates
    <3>2. f \in Facts
      BY <2>6, <3>1 DEF Facts
    <3>3. ASSUME NEW k \in DOMAIN f.at, NEW kv \in f.at[k].keys
          PROVE  \E l \in Leaves : k \in DOMAIN l.path /\ kv \in l.path[k].keys
      BY <3>2, FactElement
    <3>4. QED BY <3>3 DEF NameKeyed
  <2>8. Tells(d, p, f.at)
    BY <1>2, <2>2, <2>3, <2>4, <2>6, <2>7, ToldDrilled
  <2>9. d.tree[p] = f.val /\ Reading(d, p) = Names(f.at)
    BY <2>4, <2>6 DEF Told, Same
  <2>10. QED BY <2>6, <2>8, <2>9 DEF Reading
<1>5. QED BY <1>3, <1>4

\* An entity of a response is still told apart where its leaves are delivered:
\* each value, at or above a subscribed path, is under the keys it was reported
\* with, on the path or in the tree, if lists are keyed by name: of
\* subscriber.go 388-436 on top of client.go 482-774.
THEOREM EntitiesKeepKeys ==
  ASSUME WellFormed, NameKeyed
  PROVE  Spec => []EntityKept
<1>1. TextInv => EntityKept
  BY KeptUnderKeys DEF EntityKept
<1>2. QED BY <1>1, TextInvariant, PTL
=============================================================================
