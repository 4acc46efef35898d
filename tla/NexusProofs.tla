----------------------------- MODULE NexusProofs -----------------------------
(***************************************************************************)
(* Theorems about the parsers of NexusParser, for texts of any length.     *)
(* A text is made of blocks, and a position in it is a block and a line of *)
(* that block; each invariant says what a parser holds at each position.   *)
(***************************************************************************)
EXTENDS NexusParser, SequencesExt, TLAPS

\* What Loops says of flattening is about no loop body: any will do.
Kept(a, e) == a

Always(base, s, k, a) == TRUE

AnyLoop == INSTANCE Loops WITH Op <- Kept, Inv <- Always

-----------------------------------------------------------------------------
(* Sequences, element by element.                                          *)

LEMMA SameElements ==
  ASSUME NEW X, NEW s \in Seq(X), NEW t \in Seq(X), Len(s) = Len(t),
         \A i \in 1..Len(s) : s[i] = t[i]
  PROVE  s = t
OBVIOUS

LEMMA JoinedElements ==
  ASSUME NEW X, NEW s \in Seq(X), NEW t \in Seq(X)
  PROVE  /\ s \o t \in Seq(X) /\ Len(s \o t) = Len(s) + Len(t)
         /\ \A i \in 1..Len(s) : (s \o t)[i] = s[i]
         /\ \A i \in 1..Len(t) : (s \o t)[Len(s) + i] = t[i]
OBVIOUS

LEMMA AppendElements ==
  ASSUME NEW X, NEW s \in Seq(X), NEW e \in X
  PROVE  /\ Append(s, e) \in Seq(X) /\ Append(s, e) # <<>> /\ Len(Append(s, e)) = Len(s) + 1
         /\ \A i \in 1..Len(s) : Append(s, e)[i] = s[i]
         /\ Append(s, e)[Len(s) + 1] = e
OBVIOUS

LEMMA PartElements ==
  ASSUME NEW X, NEW s \in Seq(X), NEW a \in 1..(Len(s) + 1)
  PROVE  /\ SubSeq(s, a, Len(s)) \in Seq(X) /\ Len(SubSeq(s, a, Len(s))) = Len(s) + 1 - a
         /\ \A i \in 1..(Len(s) + 1 - a) : SubSeq(s, a, Len(s))[i] = s[a + i - 1]
OBVIOUS

LEMMA PartTail ==
  ASSUME NEW X, NEW s \in Seq(X), NEW a \in 1..Len(s)
  PROVE  LET z == SubSeq(s, a, Len(s))
         IN  z \in Seq(X) /\ z # <<>> /\ z[1] = s[a] /\ Tail(z) = SubSeq(s, a + 1, Len(s))
<1> DEFINE n == Len(s)
           z == SubSeq(s, a, n)
           y == SubSeq(s, a + 1, n)
<1>1. n \in Nat /\ a \in 1..(n + 1) /\ a + 1 \in 1..(n + 1)
  OBVIOUS
<1>2. z \in Seq(X) /\ Len(z) = n + 1 - a /\ \A i \in 1..(n + 1 - a) : z[i] = s[a + i - 1]
  BY <1>1, PartElements
<1>3. y \in Seq(X) /\ Len(y) = n - a /\ \A i \in 1..(n - a) : y[i] = s[a + i]
  OBVIOUS
<1> HIDE DEF n, z, y
<1>4. n + 1 - a > 0 /\ 1 \in 1..(n + 1 - a) /\ a + 1 - 1 = a /\ n - a \in Nat /\ n + 1 - a = (n - a) + 1
  BY <1>1 DEF n
<1>5. z # <<>> /\ z[1] = s[a]
  BY <1>2, <1>4
<1>6. Tail(z) \in Seq(X) /\ Len(Tail(z)) = n - a /\ \A i \in 1..(n - a) : Tail(z)[i] = z[i + 1]
  BY <1>2, <1>4, <1>5
<1>7. ASSUME NEW i \in 1..(n - a) PROVE Tail(z)[i] = y[i]
  <2>1. i + 1 \in 1..(n + 1 - a) /\ a + (i + 1) - 1 = a + i
    BY <1>1
  <2>2. QED BY <1>2, <1>3, <1>6, <2>1
<1>8. Tail(z) = y
  BY <1>3, <1>6, <1>7, SameElements
<1>9. QED BY <1>2, <1>5, <1>8 DEF z, y, n

\* The flattened sequence of Loops is that of the library.
LEMMA SameFlatten == \A ss : AnyLoop!FlattenSeq(ss) = FlattenSeq(ss)
BY DEF AnyLoop!FlattenSeq, FlattenSeq

LEMMA FlatSeq ==
  ASSUME NEW S, NEW ss \in Seq(Seq(S))
  PROVE  FlattenSeq(ss) \in Seq(S)
<1>1. AnyLoop!FlattenSeq(ss) \in Seq(S)
  BY AnyLoop!FlattenElements
<1>2. QED BY <1>1, SameFlatten

-----------------------------------------------------------------------------
(* A text, block by block.                                                 *)

Blocks(ss, S) == ss \in Seq(Seq(S))

\* What is left of a text of blocks at a line of one of them.
Left(ss, i, j) == SubSeq(ss[i], j, Len(ss[i])) \o FlattenSeq(SubSeq(ss, i + 1, Len(ss)))

\* The sequence of blocks after one of them.
LEMMA BlocksAfter ==
  ASSUME NEW S, NEW ss, Blocks(ss, S), NEW i \in 1..Len(ss)
  PROVE  /\ ss[i] \in Seq(S) /\ Len(ss) \in Nat
         /\ SubSeq(ss, i + 1, Len(ss)) \in Seq(Seq(S))
         /\ FlattenSeq(SubSeq(ss, i + 1, Len(ss))) \in Seq(S)
<1> DEFINE X == Seq(S)
           r == SubSeq(ss, i + 1, Len(ss))
<1>1. ss \in Seq(X) /\ Len(ss) \in Nat /\ i + 1 \in 1..(Len(ss) + 1) /\ ss[i] \in X
  BY DEF Blocks
<1> HIDE DEF X
<1>2. r \in Seq(X)
  BY <1>1, PartElements
<1> HIDE DEF r
<1>3. FlattenSeq(r) \in Seq(S)
  BY <1>2, FlatSeq DEF X
<1>4. QED BY <1>1, <1>2, <1>3 DEF X, r

\* Reading a line.
LEMMA LeftLine ==
  ASSUME NEW S, NEW ss, Blocks(ss, S), NEW i \in 1..Len(ss), NEW j \in 1..Len(ss[i])
  PROVE  /\ Left(ss, i, j) # <<>> /\ Head(Left(ss, i, j)) = ss[i][j]
         /\ Tail(Left(ss, i, j)) = Left(ss, i, j + 1)
<1> DEFINE b == ss[i]
           r == FlattenSeq(SubSeq(ss, i + 1, Len(ss)))
           a == SubSeq(b, j, Len(b))
           c == SubSeq(b, j + 1, Len(b))
           x == a \o r
           y == c \o r
<1>1. b \in Seq(S) /\ r \in Seq(S)
  BY BlocksAfter
<1>2. j \in 1..Len(b) /\ Len(b) \in Nat
  BY <1>1
<1> HIDE DEF b, r
<1>3. /\ a \in Seq(S) /\ Len(a) = Len(b) + 1 - j
      /\ \A k \in 1..(Len(b) + 1 - j) : a[k] = b[j + k - 1]
  <2>1. j \in 1..(Len(b) + 1)
    BY <1>2
  <2>2. QED BY <1>1, <2>1, PartElements
<1>4. /\ c \in Seq(S) /\ Len(c) = Len(b) - j
      /\ \A k \in 1..(Len(b) - j) : c[k] = b[j + k]
  <2> DEFINE m == j + 1
  <2>1. m \in 1..(Len(b) + 1) /\ Len(b) + 1 - m = Len(b) - j
    BY <1>2
  <2>2. \A k \in Nat : m + k - 1 = j + k
    BY <1>2
  <2> HIDE DEF m
  <2>3. /\ SubSeq(b, m, Len(b)) \in Seq(S) /\ Len(SubSeq(b, m, Len(b))) = Len(b) + 1 - m
        /\ \A k \in 1..(Len(b) + 1 - m) : SubSeq(b, m, Len(b))[k] = b[m + k - 1]
    BY <1>1, <2>1, PartElements
  <2>4. \A k \in 1..(Len(b) - j) : k \in Nat
    OBVIOUS
  <2>5. c = SubSeq(b, m, Len(b))
    BY DEF m
  <2>6. QED BY <2>1, <2>2, <2>3, <2>4, <2>5
<1> HIDE DEF a, c
<1>5. /\ x \in Seq(S) /\ Len(x) = Len(a) + Len(r)
      /\ \A k \in 1..Len(a) : x[k] = a[k]
      /\ \A k \in 1..Len(r) : x[Len(a) + k] = r[k]
  <2>1. a \in Seq(S) /\ r \in Seq(S)
    BY <1>1, <1>3
  <2>2. QED BY <2>1, JoinedElements
<1>6. /\ y \in Seq(S) /\ Len(y) = Len(c) + Len(r)
      /\ \A k \in 1..Len(c) : y[k] = c[k]
      /\ \A k \in 1..Len(r) : y[Len(c) + k] = r[k]
  <2>1. c \in Seq(S) /\ r \in Seq(S)
    BY <1>1, <1>4
  <2>2. QED BY <2>1, JoinedElements
<1> HIDE DEF x, y
<1>7. Len(r) \in Nat /\ Len(a) = Len(c) + 1 /\ Len(c) \in Nat
  BY <1>1, <1>2, <1>3, <1>4
<1>8. x # <<>> /\ Head(x) = b[j]
  <2>1. 1 \in 1..Len(a) /\ 1 \in 1..(Len(b) + 1 - j) /\ j + 1 - 1 = j /\ Len(x) > 0
    BY <1>2, <1>3, <1>5, <1>7
  <2>2. x[1] = b[j]
    BY <1>3, <1>5, <2>1
  <2>3. QED BY <1>5, <2>1, <2>2
<1>9. Tail(x) \in Seq(S) /\ Len(Tail(x)) = Len(y) /\ \A k \in 1..Len(y) : Tail(x)[k] = x[k + 1]
  BY <1>5, <1>6, <1>7, <1>8
<1>10. ASSUME NEW k \in 1..Len(y) PROVE Tail(x)[k] = y[k]
  <2>1. CASE k \in 1..Len(c)
    <3>1. k + 1 \in 1..Len(a) /\ k + 1 \in 1..(Len(b) + 1 - j) /\ j + (k + 1) - 1 = j + k /\ k \in 1..(Len(b) - j)
      BY <1>2, <1>3, <1>4, <1>7, <2>1
    <3>2. x[k + 1] = b[j + k]
      BY <1>3, <1>5, <3>1
    <3>3. y[k] = b[j + k]
      BY <1>4, <1>6, <2>1, <3>1
    <3>4. QED BY <1>9, <3>2, <3>3
  <2>2. CASE k \notin 1..Len(c)
    <3>1. PICK h \in 1..Len(r) : k = Len(c) + h
      <4>1. k - Len(c) \in 1..Len(r) /\ k = Len(c) + (k - Len(c))
        BY <1>6, <1>7, <2>2
      <4>2. QED BY <4>1
    <3>2. k + 1 = Len(a) + h
      BY <1>7, <3>1
    <3>3. QED BY <1>5, <1>6, <1>9, <3>1, <3>2
  <2>3. QED BY <2>1, <2>2
<1>11. Tail(x) = y
  BY <1>6, <1>9, <1>10, SameElements
<1>12. Left(ss, i, j) = x /\ Left(ss, i, j + 1) = y
  BY DEF Left, x, y, a, c, b, r
<1>13. QED BY <1>8, <1>11, <1>12 DEF b

\* From the end of a block to the next one.
LEMMA LeftNext ==
  ASSUME NEW S, NEW ss, Blocks(ss, S), NEW i \in 1..Len(ss)
  PROVE  /\ i = Len(ss) => Left(ss, i, Len(ss[i]) + 1) = <<>>
         /\ i # Len(ss) => Left(ss, i, Len(ss[i]) + 1) = Left(ss, i + 1, 1)
<1> DEFINE X == Seq(S)
           n == Len(ss)
           q == SubSeq(ss, i + 1, n)
           p == SubSeq(ss, i + 2, n)
<1>1. ss \in Seq(X) /\ n \in Nat /\ ss[i] \in X /\ i \in 1..n
  BY DEF Blocks
<1>2. SubSeq(ss[i], Len(ss[i]) + 1, Len(ss[i])) = <<>>
  BY <1>1
<1>3. Left(ss, i, Len(ss[i]) + 1) = FlattenSeq(q)
  <2>1. FlattenSeq(q) \in Seq(S)
    BY BlocksAfter
  <2> HIDE DEF q
  <2>2. <<>> \o FlattenSeq(q) = FlattenSeq(q)
    BY <2>1
  <2>3. QED BY <1>2, <2>2 DEF Left, q, n
<1>4. CASE i = n
  <2>1. q = <<>>
    BY <1>1, <1>4
  <2>2. FlattenSeq(<<>>) = <<>>
    BY DEF FlattenSeq
  <2>3. QED BY <1>3, <1>4, <2>1, <2>2
<1>5. CASE i # n
  <2>1. i + 1 \in 1..n /\ i + 1 \in 1..(n + 1)
    BY <1>1, <1>5
  <2>2. q \in Seq(X) /\ q # <<>> /\ q[1] = ss[i + 1] /\ Tail(q) = p
    <3> DEFINE m == i + 1
    <3>1. m \in 1..n /\ i + 2 = m + 1
      BY <1>1, <2>1
    <3> HIDE DEF m, X, n
    <3>2. LET z == SubSeq(ss, m, n) IN z \in Seq(X) /\ z # <<>> /\ z[1] = ss[m] /\ Tail(z) = SubSeq(ss, m + 1, n)
      BY <1>1, <3>1, PartTail DEF n
    <3>3. QED BY <3>1, <3>2 DEF m
  <2> HIDE DEF X, q
  <2>3. AnyLoop!FlattenSeq(q) = q[1] \o AnyLoop!FlattenSeq(Tail(q))
    BY <2>2, AnyLoop!FlattenFirst DEF X
  <2>4. FlattenSeq(q) = ss[i + 1] \o FlattenSeq(p)
    BY <2>2, <2>3, SameFlatten
  <2>5. ss[i + 1] \in Seq(S)
    BY <1>1, <2>1 DEF X
  <2>6. SubSeq(ss[i + 1], 1, Len(ss[i + 1])) = ss[i + 1]
    BY <2>5
  <2>7. (i + 1) + 1 = i + 2
    BY <1>1
  <2>8. Left(ss, i + 1, 1) = FlattenSeq(q)
    BY <2>4, <2>6, <2>7 DEF Left, p, n
  <2>9. QED BY <1>3, <1>5, <2>8
<1>6. QED BY <1>4, <1>5

\* A text before its first line.
LEMMA LeftFirst ==
  ASSUME NEW S, NEW ss, Blocks(ss, S), ss # <<>>
  PROVE  FlattenSeq(ss) = Left(ss, 1, 1)
<1> DEFINE X == Seq(S)
<1>1. ss \in Seq(X) /\ Len(ss) \in Nat /\ ss[1] \in Seq(S) /\ Tail(ss) = SubSeq(ss, 2, Len(ss))
  BY DEF Blocks
<1> HIDE DEF X
<1>2. AnyLoop!FlattenSeq(ss) = ss[1] \o AnyLoop!FlattenSeq(Tail(ss))
  BY <1>1, AnyLoop!FlattenFirst DEF X
<1>3. FlattenSeq(ss) = ss[1] \o FlattenSeq(SubSeq(ss, 2, Len(ss)))
  BY <1>1, <1>2, SameFlatten
<1>4. SubSeq(ss[1], 1, Len(ss[1])) = ss[1] /\ 1 + 1 = 2
  BY <1>1
<1>5. QED BY <1>3, <1>4 DEF Left

\* What is left of a text of blocks from one of them on.
From(ss, i) == FlattenSeq(SubSeq(ss, i, Len(ss)))

\* From one block on.
LEMMA FromBlock ==
  ASSUME NEW S, NEW ss, Blocks(ss, S), NEW i \in 1..Len(ss)
  PROVE  ss[i] \in Seq(S) /\ From(ss, i) = ss[i] \o From(ss, i + 1)
<1> DEFINE X == Seq(S)
           n == Len(ss)
           z == SubSeq(ss, i, n)
<1>1. ss \in Seq(X) /\ n \in Nat /\ ss[i] \in X
  BY DEF Blocks
<1> HIDE DEF X
<1>2. z \in Seq(X) /\ z # <<>> /\ z[1] = ss[i] /\ Tail(z) = SubSeq(ss, i + 1, n)
  BY <1>1, PartTail
<1> HIDE DEF z
<1>3. FlattenSeq(z) = z[1] \o FlattenSeq(Tail(z))
  BY <1>2, AnyLoop!FlattenFirst, SameFlatten DEF X
<1>4. QED BY <1>1, <1>2, <1>3 DEF From, z, n, X

LEMMA FromTyped ==
  ASSUME NEW S, NEW ss, Blocks(ss, S), NEW i \in 1..(Len(ss) + 1)
  PROVE  From(ss, i) \in Seq(S) /\ From(ss, Len(ss) + 1) = <<>> /\ From(ss, 1) = FlattenSeq(ss)
<1> DEFINE X == Seq(S)
           n == Len(ss)
           z == SubSeq(ss, i, n)
<1>1. ss \in Seq(X) /\ n \in Nat /\ i \in 1..(n + 1)
  BY DEF Blocks
<1> HIDE DEF X
<1>2. z \in Seq(X) /\ SubSeq(ss, n + 1, n) = <<>> /\ SubSeq(ss, 1, n) = ss
  BY <1>1
<1> HIDE DEF z
<1>3. FlattenSeq(z) \in Seq(S)
  BY <1>2, FlatSeq DEF X
<1>4. FlattenSeq(<<>>) = <<>>
  BY DEF FlattenSeq
<1>5. QED BY <1>1, <1>2, <1>3, <1>4 DEF From, z, n

\* Reading the first line of a part.
LEMMA ReadPart ==
  ASSUME NEW S, NEW s \in Seq(S), NEW t \in Seq(S), s # <<>>
  PROVE  /\ s \o t # <<>> /\ Head(s \o t) = Head(s) /\ Tail(s \o t) = Tail(s) \o t
<1> DEFINE x == s \o t
           r == Tail(s)
           y == r \o t
<1>1. /\ x \in Seq(S) /\ Len(x) = Len(s) + Len(t)
      /\ \A k \in 1..Len(s) : x[k] = s[k]
      /\ \A k \in 1..Len(t) : x[Len(s) + k] = t[k]
  BY JoinedElements
<1>2. r \in Seq(S) /\ Len(s) \in Nat /\ Len(s) > 0 /\ Len(r) = Len(s) - 1 /\ \A k \in 1..Len(r) : r[k] = s[k + 1]
  OBVIOUS
<1> HIDE DEF r
<1>3. /\ y \in Seq(S) /\ Len(y) = Len(r) + Len(t)
      /\ \A k \in 1..Len(r) : y[k] = r[k]
      /\ \A k \in 1..Len(t) : y[Len(r) + k] = t[k]
  <2>1. r \in Seq(S) /\ t \in Seq(S)
    BY <1>2
  <2>2. QED BY <2>1, JoinedElements
<1> HIDE DEF x, y
<1>4. Len(t) \in Nat
  OBVIOUS
<1>5. x # <<>> /\ Head(x) = Head(s)
  <2>1. 1 \in 1..Len(s) /\ Len(x) > 0
    BY <1>1, <1>2, <1>4
  <2>2. QED BY <1>1, <2>1
<1>6. Tail(x) \in Seq(S) /\ Len(Tail(x)) = Len(y) /\ \A k \in 1..Len(y) : Tail(x)[k] = x[k + 1]
  BY <1>1, <1>2, <1>3, <1>4, <1>5
<1>7. ASSUME NEW k \in 1..Len(y) PROVE Tail(x)[k] = y[k]
  <2>1. CASE k \in 1..Len(r)
    <3>1. k + 1 \in 1..Len(s)
      BY <1>2, <2>1
    <3>2. QED BY <1>1, <1>2, <1>3, <1>6, <2>1, <3>1
  <2>2. CASE k \notin 1..Len(r)
    <3>1. PICK h \in 1..Len(t) : k = Len(r) + h
      <4>1. k - Len(r) \in 1..Len(t) /\ k = Len(r) + (k - Len(r))
        BY <1>2, <1>3, <1>4, <2>2
      <4>2. QED BY <4>1
    <3>2. k + 1 = Len(s) + h
      BY <1>2, <3>1
    <3>3. QED BY <1>1, <1>3, <1>6, <3>1, <3>2
  <2>3. QED BY <2>1, <2>2
<1>8. Tail(x) = y
  BY <1>3, <1>6, <1>7, SameElements
<1>9. QED BY <1>5, <1>8 DEF x, y, r

LEMMA LeftTyped ==
  ASSUME NEW S, NEW ss, Blocks(ss, S), NEW i \in 1..Len(ss), NEW j \in 1..(Len(ss[i]) + 1)
  PROVE  Left(ss, i, j) \in Seq(S)
<1> DEFINE b == ss[i]
           r == FlattenSeq(SubSeq(ss, i + 1, Len(ss)))
           a == SubSeq(b, j, Len(b))
<1>1. b \in Seq(S) /\ r \in Seq(S)
  BY BlocksAfter
<1>2. j \in 1..(Len(b) + 1)
  OBVIOUS
<1> HIDE DEF b, r
<1>3. a \in Seq(S)
  BY <1>1, <1>2, PartElements
<1> HIDE DEF a
<1>4. a \o r \in Seq(S)
  BY <1>1, <1>3
<1>5. QED BY <1>4 DEF Left, a, b, r

\* A block, others, and a last one.
Framed(h, f, w) == [k \in 1..(Len(f) + 2) |-> IF k = 1 THEN h ELSE IF k = Len(f) + 2 THEN w ELSE f[k - 1]]

LEMMA FramedBlocks ==
  ASSUME NEW S, NEW h \in Seq(S), NEW f \in Seq(Seq(S)), NEW w \in Seq(S)
  PROVE  /\ Blocks(Framed(h, f, w), S) /\ Len(Framed(h, f, w)) = Len(f) + 2 /\ Len(f) \in Nat
         /\ Framed(h, f, w)[1] = h /\ Framed(h, f, w)[Len(f) + 2] = w
         /\ \A j \in 1..Len(f) : Framed(h, f, w)[j + 1] = f[j]
<1> DEFINE b == Framed(h, f, w)
           m == Len(f)
           X == Seq(S)
<1>1. m \in Nat /\ \A j \in 1..m : f[j] \in X
  OBVIOUS
<1>2. b = [k \in 1..(m + 2) |-> IF k = 1 THEN h ELSE IF k = m + 2 THEN w ELSE f[k - 1]]
  BY DEF Framed
<1>3. h \in X /\ w \in X
  OBVIOUS
<1> HIDE DEF b, m, X
<1>4. \A k \in 1..(m + 2) : /\ k = 1 => b[k] = h
                            /\ k # 1 /\ k = m + 2 => b[k] = w
                            /\ k # 1 /\ k # m + 2 => b[k] = f[k - 1]
  BY <1>2
<1>5. 1 \in 1..(m + 2) /\ m + 2 \in 1..(m + 2) /\ m + 2 # 1
  BY <1>1
<1>6. b[1] = h /\ b[m + 2] = w
  BY <1>4, <1>5
<1>7. ASSUME NEW j \in 1..m PROVE b[j + 1] = f[j]
  <2>1. j + 1 \in 1..(m + 2) /\ j + 1 # 1 /\ j + 1 # m + 2 /\ (j + 1) - 1 = j
    BY <1>1
  <2>2. QED BY <1>4, <2>1
<1>8. ASSUME NEW k \in 1..(m + 2) PROVE b[k] \in X
  <2>1. k = 1 \/ k = m + 2 \/ k - 1 \in 1..m
    BY <1>1
  <2>2. QED BY <1>1, <1>3, <1>4, <2>1
<1>9. b \in [1..(m + 2) -> X]
  <2>1. DOMAIN b = 1..(m + 2) /\ b = [k \in 1..(m + 2) |-> b[k]]
    BY <1>2
  <2>2. QED BY <1>8, <2>1
<1>10. b \in Seq(X) /\ Len(b) = m + 2
  BY <1>1, <1>9
<1>11. QED BY <1>1, <1>6, <1>7, <1>10 DEF b, m, X, Blocks

LEMMA FramedFlat ==
  ASSUME NEW S, NEW h \in Seq(S), NEW f \in Seq(Seq(S)), NEW w \in Seq(S)
  PROVE  /\ FlattenSeq(Framed(h, f, w)) = (h \o FlattenSeq(f)) \o w
         /\ FlattenSeq(Framed(h, f, w)) \in Seq(S)
<1> DEFINE b == Framed(h, f, w)
           m == Len(f)
           X == Seq(S)
           g == SubSeq(b, 1, m + 1)
           t == Tail(g)
<1>1. b \in Seq(X) /\ Len(b) = m + 2 /\ m \in Nat /\ b[1] = h /\ b[m + 2] = w /\ \A j \in 1..m : b[j + 1] = f[j]
  BY FramedBlocks DEF Blocks
<1>2. f \in Seq(X) /\ h \in X /\ w \in X
  OBVIOUS
<1> HIDE DEF b, X
<1>3. g \in Seq(X) /\ Len(g) = m + 1 /\ \A k \in 1..(m + 1) : g[k] = b[k]
  BY <1>1
<1>4. b = Append(g, w)
  <2> DEFINE c == Append(g, w)
  <2>1. c \in Seq(X) /\ Len(c) = m + 2 /\ (\A k \in 1..(m + 1) : c[k] = g[k]) /\ c[m + 2] = w
    <3> HIDE DEF g
    <3> QED BY <1>1, <1>2, <1>3
  <2> HIDE DEF c, g, m
  <2>2. \A k \in 1..(m + 2) : k \in 1..(m + 1) \/ k = m + 2
    BY <1>1
  <2>3. \A k \in 1..(m + 2) : c[k] = b[k]
    BY <1>1, <1>3, <2>1, <2>2
  <2>4. c = b
    BY <1>1, <2>1, <2>3, SameElements
  <2>5. QED BY <2>4 DEF c
<1> HIDE DEF g
<1>5. FlattenSeq(b) = FlattenSeq(g) \o w
  <2>1. g \in Seq(Seq(S)) /\ w \in Seq(S)
    BY <1>3 DEF X
  <2>2. QED BY <1>4, <2>1, AnyLoop!FlattenAppend, SameFlatten
<1>6. g # <<>> /\ g[1] = h
  <2>1. 1 \in 1..(m + 1) /\ Len(g) > 0
    BY <1>1, <1>3
  <2>2. QED BY <1>1, <1>3, <2>1
<1>7. t = f
  <2>1. t \in Seq(X) /\ Len(t) = m /\ \A k \in 1..m : t[k] = g[k + 1]
    BY <1>1, <1>3, <1>6
  <2> HIDE DEF t
  <2>2. ASSUME NEW k \in 1..m PROVE t[k] = f[k]
    <3>1. k + 1 \in 1..(m + 1)
      BY <1>1
    <3>2. QED BY <1>1, <1>3, <2>1, <3>1
  <2>3. QED BY <1>2, <2>1, <2>2, SameElements
<1>8. FlattenSeq(g) = h \o FlattenSeq(f)
  <2>1. g \in Seq(Seq(S))
    BY <1>3 DEF X
  <2>2. FlattenSeq(g) = g[1] \o FlattenSeq(t)
    BY <1>6, <2>1, AnyLoop!FlattenFirst, SameFlatten
  <2>3. QED BY <1>6, <1>7, <2>2
<1>9. FlattenSeq(b) \in Seq(S)
  BY <1>1, FlatSeq DEF X
<1>10. QED BY <1>5, <1>8, <1>9 DEF b

\* What is left if something follows the blocks.
LeftBefore(ss, i, j, r) == Left(ss, i, j) \o r

LEMMA TextRead ==
  ASSUME NEW S, NEW b, Blocks(b, S), NEW k \in 1..Len(b), NEW h \in 1..Len(b[k]), NEW r \in Seq(S)
  PROVE  LET t == LeftBefore(b, k, h, r)
         IN  /\ t # <<>> /\ Head(t) = b[k][h]
             /\ h < Len(b[k]) => Tail(t) = LeftBefore(b, k, h + 1, r)
             /\ h = Len(b[k]) /\ k # Len(b) => Tail(t) = LeftBefore(b, k + 1, 1, r)
             /\ h = Len(b[k]) /\ k = Len(b) => Tail(t) = r
<1> DEFINE l == Left(b, k, h)
           t == l \o r
<1>1. l # <<>> /\ Head(l) = b[k][h] /\ Tail(l) = Left(b, k, h + 1)
  BY LeftLine
<1>2. b[k] \in Seq(S)
  BY BlocksAfter
<1>3. h \in 1..(Len(b[k]) + 1)
  BY <1>2
<1>4. l \in Seq(S)
  BY <1>3, LeftTyped
<1> HIDE DEF l
<1>5. t # <<>> /\ Head(t) = b[k][h] /\ Tail(t) = Left(b, k, h + 1) \o r
  <2>1. t # <<>> /\ Head(t) = Head(l) /\ Tail(t) = Tail(l) \o r
    BY <1>1, <1>4, ReadPart
  <2>2. QED BY <1>1, <2>1
<1> HIDE DEF t
<1>6. ASSUME h = Len(b[k]), k # Len(b) PROVE Tail(t) = Left(b, k + 1, 1) \o r
  <2>1. Left(b, k, Len(b[k]) + 1) = Left(b, k + 1, 1)
    BY <1>6, LeftNext
  <2>2. QED BY <1>5, <1>6, <2>1
<1>7. ASSUME h = Len(b[k]), k = Len(b) PROVE Tail(t) = r
  <2>1. Left(b, k, Len(b[k]) + 1) = <<>>
    BY <1>7, LeftNext
  <2>2. <<>> \o r = r
    OBVIOUS
  <2>3. QED BY <1>5, <1>7, <2>1, <2>2
<1>8. QED BY <1>5, <1>6, <1>7 DEF t, l, LeftBefore

-----------------------------------------------------------------------------
(* LldpText: the text.                                                     *)

Val == Seq(Nat)

LldpKind  == {"command", "blank", "chassis", "name", "desc", "text", "time", "late", "vlans",
              "number", "colon", "linkAgg", "agg", "aggId"}
LldpLine  == [kind : LldpKind, val : Val]
LldpEnds == {<<>>, <<Lldp!Row("blank", <<>>)>>}

LldpBlocks(ps, end) == Append([i \in DOMAIN ps |-> Lldp!Printout(i, ps[i])], end)

\* How many lines the description, the VLANs and all of a neighbor take.
DescSize(n) == IF n.desc = <<>> THEN 1 ELSE Len(n.desc)
VlanSize(n) == IF n.vlans = <<>> THEN 1 ELSE Len(n.vlans)
BlockSize(n) == 7 + DescSize(n) + VlanSize(n)

\* The kinds of lines of a description.
Written == {"text", "label", "blank", "command", "chassis", "name", "time", "late", "vlans",
            "number", "colon", "linkAgg", "agg", "aggId"}

\* The loop acts on no line of the description.
Plain(n) == ToSet(n.desc) \cap Lldp!Heard = {}

\* The values of a neighbor.
ValuesOf(k) == {v \in Val : v # <<>> /\ v[1] = k}

\* The chassis ids an entry of neighbor i may begin with.
Begun(i, n, v) == v = <<i>> \/ \E x \in DOMAIN n.desc : n.desc[x] = "chassis" /\ v = <<i, x>>

\* A line of the description after its first.
Inner(i, n, j, l) == n.desc # <<>> /\ j \in 5..(3 + DescSize(n)) /\ l.val = <<i, j - 3>>

\* What line j of neighbor i may be, and what it says then, if its description
\* is plain.
PlainLine(i, n, j, l) ==
  LET d == DescSize(n)
      v == VlanSize(n)
  IN  /\ l.kind # "command"
      /\ l.kind = "blank" => j = 1
      /\ l.kind = "chassis" => j = 2
      /\ l.kind = "name" => j = 3 /\ l.val = IF n.named THEN <<i>> ELSE <<>>
      /\ l.kind = "desc" => j \in 4..(3 + d) /\ l.val = IF n.desc = <<>> THEN <<>> ELSE <<i, j - 3>>
      /\ l.kind = "time" => j = 4 + d /\ l.val = <<i>>
      /\ l.kind = "late" => Inner(i, n, j, l) \/ (j = 5 + d /\ l.val = <<i>>)
      /\ l.kind = "vlans" => \/ Inner(i, n, j, l)
                             \/ j = 6 + d /\ l.val = IF n.vlans = <<>> THEN <<>> ELSE <<i, 1>>
      /\ l.kind \in {"number", "colon"} => \/ Inner(i, n, j, l)
                                           \/ /\ j \in (7 + d)..(5 + d + v) /\ n.vlans # <<>>
                                              /\ l.val = <<i, j - 5 - d>>
      /\ l.kind = "linkAgg" => Inner(i, n, j, l) \/ j = 6 + d + v
      /\ l.kind = "agg" => Inner(i, n, j, l) \/ (j = 7 + d + v /\ l.val = <<i>>)
      /\ l.kind \in {"text", "aggId"} => Inner(i, n, j, l)

\* What it may be if the description says what it wants.
LineOf(i, n, j, l) ==
  LET d == DescSize(n)
  IN  /\ l \in LldpLine
      /\ j = 1 => l.kind = "blank"
      /\ j = 2 => l.kind = "chassis" /\ l.val = <<i>>
      /\ j = 4 + d => l.kind = "time"
      /\ l.val \in ValuesOf(i) \cup {<<>>}
      /\ l.val = <<>> => \/ l.kind \in {"blank", "name", "desc"}
                         \/ l.kind \in {"vlans", "linkAgg"} /\ j > 4 + d
      /\ l.kind = "chassis" => Begun(i, n, l.val) /\ (j > 2 => l.val # <<i>>)
      /\ l.kind = "desc" => j \in 4..(3 + d)
      /\ Plain(n) => PlainLine(i, n, j, l)

LEMMA RowLine ==
  ASSUME NEW k \in LldpKind, NEW v \in Val
  PROVE  /\ Lldp!Row(k, v) \in LldpLine /\ Lldp!Row(k, v).kind = k /\ Lldp!Row(k, v).val = v
BY DEF Lldp!Row, LldpLine

LEMMA NeighborTypes ==
  ASSUME NEW n \in Lldp!Neighbor
  PROVE  /\ n.named \in BOOLEAN
         /\ n.desc \in Seq(Written) /\ n.vlans \in Seq({"number", "colon"})
         /\ DescSize(n) \in Nat \ {0} /\ VlanSize(n) \in Nat \ {0}
         /\ n.desc # <<>> => DescSize(n) = Len(n.desc)
         /\ n.vlans # <<>> => VlanSize(n) = Len(n.vlans)
<1>1. /\ n.named \in BOOLEAN /\ n.desc \in Seq(Written) /\ n.vlans \in Seq({"number", "colon"})
  BY LldpAssumption DEF Lldp!Neighbor, Written
<1> HIDE DEF Written
<1>2. QED BY <1>1 DEF DescSize, VlanSize

\* Line k of a description, as it is printed.
DescribedLine(i, n, k, l) ==
  /\ n.desc[k] \in Written
  /\ \/ l.val = <<i, k>>
     \/ l.val = <<>> /\ l.kind = "desc" /\ n.desc[k] = "blank"
  /\ l.kind = "desc" \/ (l.kind = n.desc[k] /\ n.desc[k] # "label")
  /\ k = 1 => l.kind = "desc" \/ n.desc[k] = "command"

LEMMA DescribedLines ==
  ASSUME NEW i \in Nat, NEW n \in Lldp!Neighbor
  PROVE  LET b == Lldp!Described(i, n.desc)
         IN  /\ b \in Seq(LldpLine) /\ Len(b) = DescSize(n)
             /\ n.desc = <<>> => b[1].kind = "desc" /\ b[1].val = <<>>
             /\ n.desc # <<>> => \A k \in 1..DescSize(n) : DescribedLine(i, n, k, b[k])
<1> DEFINE d == n.desc
           b == Lldp!Described(i, d)
<1>1. d \in Seq(Written) /\ Len(d) \in Nat /\ DOMAIN d = 1..Len(d)
  BY NeighborTypes
<1>2. CASE d = <<>>
  <2>1. b = <<Lldp!Row("desc", <<>>)>>
    BY <1>2 DEF Lldp!Described, Lldp!Empty
  <2> DEFINE l == Lldp!Row("desc", <<>>)
  <2>2. l \in LldpLine /\ l.kind = "desc" /\ l.val = <<>>
    <3>1. "desc" \in LldpKind /\ <<>> \in Val
      BY DEF Val, LldpKind
    <3>2. QED BY <3>1, RowLine
  <2> HIDE DEF l
  <2>3. b \in Seq(LldpLine) /\ Len(b) = 1 /\ b[1] = l
    BY <2>1, <2>2 DEF l
  <2>4. DescSize(n) = 1
    BY <1>2 DEF DescSize
  <2>5. QED BY <1>2, <2>2, <2>3, <2>4
<1>3. CASE d # <<>>
  <2> DEFINE first(k) == k = 1 /\ d[k] = "blank"
             K(k) == IF first(k) \/ d[k] = "label" \/ (k = 1 /\ d[k] # "command") THEN "desc" ELSE d[k]
             V(k) == IF first(k) THEN <<>> ELSE <<i, k>>
  <2>1. /\ DOMAIN b = DOMAIN d
        /\ \A k \in DOMAIN d : b[k] = Lldp!Row(K(k), V(k))
    <3>1. b = [k \in DOMAIN d |->
                IF first(k) THEN Lldp!Row("desc", <<>>)
                ELSE Lldp!Row(IF d[k] = "label" \/ (k = 1 /\ d[k] # "command") THEN "desc" ELSE d[k],
                              <<i, k>>)]
      BY <1>3 DEF Lldp!Described, Lldp!Empty
    <3>2. QED BY <3>1
  <2>2. DescSize(n) = Len(d)
    BY <1>3 DEF DescSize
  <2>3. ASSUME NEW k \in 1..Len(d)
        PROVE  /\ d[k] \in Written /\ K(k) \in LldpKind /\ V(k) \in Val
               /\ V(k) = <<i, k>> \/ (V(k) = <<>> /\ K(k) = "desc" /\ d[k] = "blank")
               /\ K(k) = "desc" \/ (K(k) = d[k] /\ d[k] # "label")
               /\ k = 1 => K(k) = "desc" \/ d[k] = "command"
    <3>1. d[k] \in Written
      BY <1>1
    <3>2. V(k) \in Val
      BY DEF Val
    <3>3. K(k) \in LldpKind
      BY <3>1 DEF Written, LldpKind
    <3>4. QED BY <3>1, <3>2, <3>3
  <2> HIDE DEF K, V
  <2>4. ASSUME NEW k \in 1..Len(d)
        PROVE  b[k] \in LldpLine /\ b[k].kind = K(k) /\ b[k].val = V(k)
    <3>1. b[k] = Lldp!Row(K(k), V(k))
      BY <1>1, <2>1
    <3>2. QED BY <2>3, <3>1, RowLine
  <2>5. b \in Seq(LldpLine) /\ Len(b) = Len(d)
    <3>1. b = [k \in 1..Len(d) |-> b[k]]
      <4>1. b = [k \in DOMAIN b |-> b[k]]
        BY <1>3 DEF Lldp!Described
      <4>2. QED BY <1>1, <2>1, <4>1
    <3> HIDE DEF b
    <3>2. [k \in 1..Len(d) |-> b[k]] \in Seq(LldpLine) /\ Len([k \in 1..Len(d) |-> b[k]]) = Len(d)
      BY <1>1, <2>4
    <3>3. QED BY <3>1, <3>2
  <2> HIDE DEF b, d
  <2>6. ASSUME NEW k \in 1..Len(d) PROVE DescribedLine(i, n, k, b[k])
    BY <2>3, <2>4 DEF DescribedLine, d
  <2>7. QED BY <1>3, <2>2, <2>5, <2>6 DEF b, d
<1>4. QED BY <1>2, <1>3

\* The lines with VLANs.
LEMMA VlanLines ==
  ASSUME NEW i \in Nat, NEW n \in Lldp!Neighbor
  PROVE  LET b == Lldp!VlanRows(i, n.vlans)
         IN  /\ b \in Seq(LldpLine) /\ Len(b) = VlanSize(n)
             /\ \A k \in 1..VlanSize(n) :
                  /\ b[k].kind \in {"vlans", "number", "colon"}
                  /\ b[k].kind = "vlans" <=> k = 1
                  /\ b[k].kind # "vlans" => n.vlans # <<>>
                  /\ b[k].val = IF n.vlans = <<>> THEN <<>> ELSE <<i, k>>
<1> DEFINE d == n.vlans
           b == Lldp!VlanRows(i, d)
<1>1. d \in Seq({"number", "colon"}) /\ Len(d) \in Nat /\ DOMAIN d = 1..Len(d)
  BY NeighborTypes
<1>2. CASE d = <<>>
  <2>1. b = <<Lldp!Row("vlans", <<>>)>>
    BY <1>2 DEF Lldp!VlanRows, Lldp!Empty
  <2> DEFINE l == Lldp!Row("vlans", <<>>)
  <2>2. l \in LldpLine /\ l.kind = "vlans" /\ l.val = <<>>
    <3>1. "vlans" \in LldpKind /\ <<>> \in Val
      BY DEF Val, LldpKind
    <3>2. QED BY <3>1, RowLine
  <2> HIDE DEF l
  <2>3. b \in Seq(LldpLine) /\ Len(b) = 1 /\ b[1] = l
    BY <2>1, <2>2 DEF l
  <2>4. VlanSize(n) = 1 /\ 1..1 = {1}
    BY <1>2 DEF VlanSize
  <2>5. QED BY <1>2, <2>2, <2>3, <2>4
<1>3. CASE d # <<>>
  <2> DEFINE K(k) == IF k = 1 THEN "vlans" ELSE d[k]
  <2>1. b = [k \in DOMAIN d |-> Lldp!Row(K(k), <<i, k>>)]
    BY <1>3 DEF Lldp!VlanRows
  <2>2. VlanSize(n) = Len(d)
    BY <1>3 DEF VlanSize
  <2>3. ASSUME NEW k \in 1..Len(d)
        PROVE  /\ K(k) \in {"vlans", "number", "colon"} /\ (K(k) = "vlans" <=> k = 1)
               /\ <<i, k>> \in Val
    <3>1. d[k] \in {"number", "colon"}
      BY <1>1
    <3>2. QED BY <3>1 DEF Val
  <2> HIDE DEF K
  <2>4. ASSUME NEW k \in 1..Len(d)
        PROVE  b[k] \in LldpLine /\ b[k].kind = K(k) /\ b[k].val = <<i, k>>
    <3>1. K(k) \in LldpKind /\ <<i, k>> \in Val
      BY <2>3 DEF LldpKind
    <3>2. b[k] = Lldp!Row(K(k), <<i, k>>)
      BY <1>1, <2>1
    <3>3. QED BY <3>1, <3>2, RowLine
  <2>5. b \in Seq(LldpLine) /\ Len(b) = Len(d)
    <3>1. b = [k \in 1..Len(d) |-> b[k]]
      BY <1>1, <2>1
    <3> HIDE DEF b
    <3>2. [k \in 1..Len(d) |-> b[k]] \in Seq(LldpLine) /\ Len([k \in 1..Len(d) |-> b[k]]) = Len(d)
      BY <1>1, <2>4
    <3>3. QED BY <3>1, <3>2
  <2> HIDE DEF b, d
  <2>6. QED BY <1>3, <2>2, <2>3, <2>4, <2>5 DEF b, d
<1>4. QED BY <1>2, <1>3

\* The lines of a neighbor.
LEMMA PrintoutLines ==
  ASSUME NEW i \in Nat, NEW n \in Lldp!Neighbor
  PROVE  LET b == Lldp!Printout(i, n)
         IN  /\ b \in Seq(LldpLine) /\ Len(b) = BlockSize(n)
             /\ \A j \in 1..BlockSize(n) : LineOf(i, n, j, b[j])
<1> DEFINE d == DescSize(n)
           v == VlanSize(n)
           name == IF n.named THEN <<i>> ELSE <<>>
           h == <<Lldp!Row("blank", <<>>), Lldp!Row("chassis", <<i>>), Lldp!Row("name", name)>>
           D == Lldp!Described(i, n.desc)
           m == <<Lldp!Row("time", <<i>>), Lldp!Row("late", <<i>>)>>
           V == Lldp!VlanRows(i, n.vlans)
           e == <<Lldp!Row("linkAgg", <<>>), Lldp!Row("agg", <<i>>)>>
           b == Lldp!Printout(i, n)
           X == LldpLine
<1>1. d \in Nat \ {0} /\ v \in Nat \ {0} /\ BlockSize(n) = 7 + d + v
  BY NeighborTypes DEF BlockSize
<1>2. /\ D \in Seq(X) /\ Len(D) = d
      /\ n.desc = <<>> => D[1].kind = "desc" /\ D[1].val = <<>>
      /\ n.desc # <<>> => \A k \in 1..d : DescribedLine(i, n, k, D[k])
  BY DescribedLines
<1>3. /\ V \in Seq(X) /\ Len(V) = v
      /\ \A k \in 1..v :
           /\ V[k].kind \in {"vlans", "number", "colon"}
           /\ V[k].kind = "vlans" <=> k = 1
           /\ V[k].kind # "vlans" => n.vlans # <<>>
           /\ V[k].val = IF n.vlans = <<>> THEN <<>> ELSE <<i, k>>
  BY VlanLines
<1>4. b = (((h \o D) \o m) \o V) \o e
  BY DEF Lldp!Printout, Lldp!Empty
<1>5. <<>> \in Val /\ <<i>> \in Val /\ name \in Val
  BY DEF Val
<1> HIDE DEF name
<1>6. /\ h \in Seq(X) /\ Len(h) = 3 /\ h[1].kind = "blank" /\ h[1].val = <<>>
      /\ h[2].kind = "chassis" /\ h[2].val = <<i>> /\ h[3].kind = "name" /\ h[3].val = name
  <2> DEFINE x == Lldp!Row("blank", <<>>)
             y == Lldp!Row("chassis", <<i>>)
             z == Lldp!Row("name", name)
  <2>1. x \in X /\ y \in X /\ z \in X /\ x.kind = "blank" /\ x.val = <<>> /\ y.kind = "chassis" /\ y.val = <<i>>
        /\ z.kind = "name" /\ z.val = name
    BY <1>5, RowLine DEF LldpKind
  <2> HIDE DEF x, y, z, X
  <2>2. h = <<x, y, z>>
    BY DEF x, y, z
  <2>3. QED BY <2>1, <2>2
<1>7. /\ m \in Seq(X) /\ Len(m) = 2 /\ m[1].kind = "time" /\ m[1].val = <<i>>
      /\ m[2].kind = "late" /\ m[2].val = <<i>>
  <2> DEFINE x == Lldp!Row("time", <<i>>)
             y == Lldp!Row("late", <<i>>)
  <2>1. x \in X /\ y \in X /\ x.kind = "time" /\ x.val = <<i>> /\ y.kind = "late" /\ y.val = <<i>>
    BY <1>5, RowLine DEF LldpKind
  <2> HIDE DEF x, y, X
  <2>2. m = <<x, y>>
    BY DEF x, y
  <2>3. QED BY <2>1, <2>2
<1>8. /\ e \in Seq(X) /\ Len(e) = 2 /\ e[1].kind = "linkAgg" /\ e[1].val = <<>> /\ e[2].kind = "agg" /\ e[2].val = <<i>>
  <2> DEFINE x == Lldp!Row("linkAgg", <<>>)
             y == Lldp!Row("agg", <<i>>)
  <2>1. x \in X /\ y \in X /\ x.kind = "linkAgg" /\ x.val = <<>> /\ y.kind = "agg" /\ y.val = <<i>>
    BY <1>5, RowLine DEF LldpKind
  <2> HIDE DEF x, y, X
  <2>2. e = <<x, y>>
    BY DEF x, y
  <2>3. QED BY <2>1, <2>2
<1> DEFINE s1 == h \o D
           s2 == s1 \o m
           s3 == s2 \o V
           s4 == s3 \o e
<1> HIDE DEF h, D, m, V, e, b, X, d, v
<1>9. /\ s1 \in Seq(X) /\ Len(s1) = Len(h) + Len(D) /\ (\A k \in 1..Len(h) : s1[k] = h[k])
      /\ \A k \in 1..Len(D) : s1[Len(h) + k] = D[k]
  <2>1. h \in Seq(X) /\ D \in Seq(X)
    BY <1>2, <1>6
  <2>2. QED BY <2>1, JoinedElements
<1> HIDE DEF s1
<1>10. /\ s2 \in Seq(X) /\ Len(s2) = Len(s1) + Len(m) /\ (\A k \in 1..Len(s1) : s2[k] = s1[k])
       /\ \A k \in 1..Len(m) : s2[Len(s1) + k] = m[k]
  <2>1. s1 \in Seq(X) /\ m \in Seq(X)
    BY <1>9, <1>7
  <2>2. QED BY <2>1, JoinedElements
<1> HIDE DEF s2
<1>11. /\ s3 \in Seq(X) /\ Len(s3) = Len(s2) + Len(V) /\ (\A k \in 1..Len(s2) : s3[k] = s2[k])
       /\ \A k \in 1..Len(V) : s3[Len(s2) + k] = V[k]
  <2>1. s2 \in Seq(X) /\ V \in Seq(X)
    BY <1>10, <1>3
  <2>2. QED BY <2>1, JoinedElements
<1> HIDE DEF s3
<1>12. /\ s4 \in Seq(X) /\ Len(s4) = Len(s3) + Len(e) /\ (\A k \in 1..Len(s3) : s4[k] = s3[k])
       /\ \A k \in 1..Len(e) : s4[Len(s3) + k] = e[k]
  <2>1. s3 \in Seq(X) /\ e \in Seq(X)
    BY <1>11, <1>8
  <2>2. QED BY <2>1, JoinedElements
<1>13. b = s4
  BY <1>4 DEF s4, s3, s2, s1
<1> HIDE DEF s4
<1>14. /\ Len(h) = 3 /\ Len(s1) = 3 + d /\ Len(s2) = 5 + d /\ Len(s3) = 5 + d + v /\ Len(s4) = 7 + d + v
       /\ Len(D) = d /\ Len(m) = 2 /\ Len(V) = v /\ Len(e) = 2
  BY <1>1, <1>2, <1>3, <1>6, <1>7, <1>8, <1>9, <1>10, <1>11, <1>12
<1>0. /\ <<i>> \in ValuesOf(i) /\ name \in ValuesOf(i) \cup {<<>>} /\ (\A x \in Nat : <<i, x>> \in ValuesOf(i))
      /\ <<i>> # <<>> /\ Begun(i, n, <<i>>)
  BY DEF ValuesOf, Val, name, Begun
<1>15. ASSUME NEW j \in 1..(7 + d + v) PROVE LineOf(i, n, j, b[j])
  <2> DEFINE l == b[j]
  <2>0. l \in LldpLine
    <3>1. b \in Seq(X) /\ Len(b) = 7 + d + v
      BY <1>12, <1>13, <1>14
    <3>2. QED BY <3>1 DEF X
  <2>1. CASE j \in 1..3
    <3>1. j \in 1..Len(h) /\ j \in 1..Len(s1) /\ j \in 1..Len(s2) /\ j \in 1..Len(s3)
      BY <1>1, <1>14, <2>1
    <3>2. l = h[j]
      BY <1>9, <1>10, <1>11, <1>12, <1>13, <3>1
    <3>3. \/ j = 1 /\ l.kind = "blank" /\ l.val = <<>>
          \/ j = 2 /\ l.kind = "chassis" /\ l.val = <<i>>
          \/ j = 3 /\ l.kind = "name" /\ l.val = name
      <4>1. j = 1 \/ j = 2 \/ j = 3
        BY <2>1
      <4>2. QED BY <1>6, <3>2, <4>1
    <3>4. j # 4 + d
      BY <1>1, <2>1
    <3> HIDE DEF l
    <3>5. Plain(n) => PlainLine(i, n, j, l)
      BY <3>3 DEF PlainLine, name
    <3>6. CASE j = 1 /\ l.kind = "blank" /\ l.val = <<>>
      BY <2>0, <3>4, <3>5, <3>6 DEF LineOf, d, l
    <3>7. CASE j = 2 /\ l.kind = "chassis" /\ l.val = <<i>>
      BY <1>0, <2>0, <3>4, <3>5, <3>7 DEF LineOf, d, l
    <3>8. CASE j = 3 /\ l.kind = "name" /\ l.val = name
      BY <1>0, <2>0, <3>4, <3>5, <3>8 DEF LineOf, d, l
    <3>9. QED BY <3>3, <3>6, <3>7, <3>8
  <2>2. CASE j \in 4..(3 + d)
    <3>1. PICK k \in 1..d : j = 3 + k
      <4>1. j - 3 \in 1..d /\ j = 3 + (j - 3)
        BY <1>1, <2>2
      <4>2. QED BY <4>1
    <3>2. j \in 1..Len(s1) /\ j \in 1..Len(s2) /\ j \in 1..Len(s3) /\ k \in 1..Len(D) /\ j = Len(h) + k
      BY <1>1, <1>14, <3>1
    <3>3. l = D[k]
      BY <1>9, <1>10, <1>11, <1>12, <1>13, <3>2
    <3>4. j - 3 = k /\ k \in Nat /\ (k # 1 => j \in 5..(3 + d)) /\ j # 1 /\ j # 2 /\ j # 4 + d /\ j > 2
      BY <1>1, <3>1
    <3>5. CASE n.desc = <<>>
      <4>1. d = 1 /\ k = 1
        <5>1. d = 1
          BY <3>5 DEF DescSize, d
        <5>2. QED BY <3>1, <5>1
      <4>2. l.kind = "desc" /\ l.val = <<>>
        BY <1>2, <3>3, <3>5, <4>1
      <4> HIDE DEF l
      <4>3. Plain(n) => PlainLine(i, n, j, l)
        BY <2>2, <3>5, <4>2 DEF PlainLine, d
      <4>4. QED BY <2>0, <2>2, <3>4, <4>2, <4>3 DEF LineOf, d, l
    <3>6. CASE n.desc # <<>>
      <4>1. /\ n.desc[k] \in Written
            /\ \/ l.val = <<i, k>>
               \/ l.val = <<>> /\ l.kind = "desc" /\ n.desc[k] = "blank"
            /\ l.kind = "desc" \/ (l.kind = n.desc[k] /\ n.desc[k] # "label")
            /\ k = 1 => l.kind = "desc" \/ n.desc[k] = "command"
        <5>1. DescribedLine(i, n, k, D[k])
          BY <1>2, <3>1, <3>6
        <5> HIDE DEF l
        <5>2. QED BY <3>3, <5>1 DEF DescribedLine
      <4>2. k \in DOMAIN n.desc
        <5>1. n.desc \in Seq(Written) /\ d = Len(n.desc)
          BY <3>6, NeighborTypes DEF d
        <5>2. QED BY <3>1, <5>1
      <4> HIDE DEF l
      <4>3. ASSUME Plain(n) PROVE PlainLine(i, n, j, l)
        <5>1. n.desc[k] \notin {"blank", "command", "chassis", "name", "time"}
          BY <4>2, <4>3 DEF Plain, ToSet, Lldp!Heard
        <5>2. l.val = <<i, j - 3>> /\ (k = 1 => l.kind = "desc")
          BY <3>4, <4>1, <5>1
        <5>3. l.kind = "desc" \/ Inner(i, n, j, l)
          BY <3>4, <3>6, <5>2 DEF Inner, d
        <5>4. l.kind \notin {"blank", "command", "chassis", "name", "time"}
          BY <4>1, <5>1
        <5>5. QED BY <2>2, <3>6, <5>2, <5>3, <5>4 DEF PlainLine, d
      <4>0. <<i, k>> # <<i>> /\ <<i, k>> # <<>> /\ <<i, k>> \in ValuesOf(i)
        BY <1>0, <3>4
      <4>4. l.val \in ValuesOf(i) \cup {<<>>} /\ (l.val = <<>> => l.kind = "desc") /\ <<i, k>> # <<i>>
        BY <4>0, <4>1
      <4>5. l.kind = "chassis" => Begun(i, n, l.val) /\ l.val # <<i>>
        BY <4>1, <4>2, <4>4 DEF Begun
      <4>6. l.kind # "desc" => l.kind = n.desc[k]
        BY <4>1
      <4>7. QED BY <2>0, <2>2, <3>4, <4>3, <4>4, <4>5 DEF LineOf, d, l
    <3>7. QED BY <3>5, <3>6
  <2>3. CASE j \in {4 + d, 5 + d}
    <3>1. PICK k \in 1..2 : j = 3 + d + k
      <4>1. j = 3 + d + 1 \/ j = 3 + d + 2
        BY <1>1, <2>3
      <4>2. QED BY <4>1
    <3>2. j \in 1..Len(s2) /\ j \in 1..Len(s3) /\ k \in 1..Len(m) /\ j = Len(s1) + k
      BY <1>1, <1>14, <3>1
    <3>3. l = m[k]
      BY <1>10, <1>11, <1>12, <1>13, <3>2
    <3>4. (k = 1 /\ j = 4 + d) \/ (k = 2 /\ j = 5 + d /\ j # 4 + d)
      BY <1>1, <3>1
    <3>5. \/ j = 4 + d /\ l.kind = "time" /\ l.val = <<i>>
          \/ j = 5 + d /\ j # 4 + d /\ l.kind = "late" /\ l.val = <<i>>
      BY <1>7, <3>3, <3>4
    <3>6. j # 1 /\ j # 2
      BY <1>1, <2>3
    <3> HIDE DEF l
    <3>7. Plain(n) => PlainLine(i, n, j, l)
      BY <3>5 DEF PlainLine, d
    <3>8. QED BY <1>0, <2>0, <3>5, <3>6, <3>7 DEF LineOf, d, l
  <2>4. CASE j \in (6 + d)..(5 + d + v)
    <3>1. PICK k \in 1..v : j = 5 + d + k
      <4>1. j - (5 + d) \in 1..v /\ j = 5 + d + (j - (5 + d))
        BY <1>1, <2>4
      <4>2. QED BY <4>1
    <3>2. j \in 1..Len(s3) /\ k \in 1..Len(V) /\ j = Len(s2) + k
      BY <1>1, <1>14, <3>1
    <3>3. l = V[k]
      BY <1>11, <1>12, <1>13, <3>2
    <3>4. j - 5 - d = k /\ k \in Nat /\ (k # 1 => j \in (7 + d)..(5 + d + v)) /\ (k = 1 => j = 6 + d)
          /\ j # 1 /\ j # 2 /\ j # 4 + d /\ j > 4 + d
      BY <1>1, <3>1
    <3>5. /\ l.kind \in {"vlans", "number", "colon"} /\ (l.kind = "vlans" <=> k = 1)
          /\ l.kind # "vlans" => n.vlans # <<>>
          /\ l.val = IF n.vlans = <<>> THEN <<>> ELSE <<i, k>>
      BY <1>3, <3>1, <3>3
    <3> HIDE DEF l
    <3>6. Plain(n) => PlainLine(i, n, j, l)
      BY <3>4, <3>5 DEF PlainLine, d, v
    <3>7. l.val \in ValuesOf(i) \cup {<<>>} /\ (l.val = <<>> => l.kind = "vlans")
      BY <1>0, <3>4, <3>5
    <3>8. QED BY <2>0, <3>4, <3>5, <3>6, <3>7 DEF LineOf, d, l
  <2>5. CASE j \in {6 + d + v, 7 + d + v}
    <3>1. PICK k \in 1..2 : j = 5 + d + v + k
      <4>1. j = 5 + d + v + 1 \/ j = 5 + d + v + 2
        BY <1>1, <2>5
      <4>2. QED BY <4>1
    <3>2. k \in 1..Len(e) /\ j = Len(s3) + k
      BY <1>1, <1>14, <3>1
    <3>3. l = e[k]
      BY <1>12, <1>13, <3>2
    <3>4. ((k = 1 /\ j = 6 + d + v) \/ (k = 2 /\ j = 7 + d + v)) /\ j > 4 + d /\ j # 4 + d /\ j # 1 /\ j # 2
      BY <1>1, <3>1
    <3>5. \/ j = 6 + d + v /\ l.kind = "linkAgg" /\ l.val = <<>>
          \/ j = 7 + d + v /\ l.kind = "agg" /\ l.val = <<i>>
      BY <1>8, <3>3, <3>4
    <3> HIDE DEF l
    <3>6. Plain(n) => PlainLine(i, n, j, l)
      BY <3>5 DEF PlainLine, d, v
    <3>7. QED BY <1>0, <2>0, <3>4, <3>5, <3>6 DEF LineOf, d, l
  <2>6. QED BY <1>1, <2>1, <2>2, <2>3, <2>4, <2>5
<1>16. QED BY <1>1, <1>12, <1>13, <1>14, <1>15 DEF X, b

-----------------------------------------------------------------------------
(* LldpText: what the loop holds at each line.                             *)

\* An entry and a memory of a neighbor that hold no value of another.
OwnEntry(k) == LET V == ValuesOf(k)
                   F == V \cup {<<>>}
               IN  [chassis : V, name : F, desc : Seq(V), time : F, late : F, vlans : Seq(Seq(V)), agg : F]

OwnState(k) == [inDesc : BOOLEAN, desc : Seq(ValuesOf(k)), inVlans : BOOLEAN, vlans : Seq(Seq(ValuesOf(k)))]

LldpEntry == UNION {OwnEntry(k) : k \in Nat}

\* The first m values of a list a neighbor sends.
Lines(i, m) == [x \in 1..m |-> <<i, x>>]

\* A finished entry of a neighbor.
Full(i, n, e) ==
  /\ e.name = IF n.named THEN <<i>> ELSE <<>>
  /\ e.time = <<i>> /\ e.late = <<i>> /\ e.agg = <<i>>
  /\ e.desc = Lines(i, Len(n.desc)) /\ FlattenSeq(e.vlans) = Lines(i, Len(n.vlans))

Right(i, n, e) == e \in OwnEntry(i) /\ Begun(i, n, e.chassis) /\ (Plain(n) => Full(i, n, e))

\* Two entries of one neighbor or of two.
Ordered(e, f) == \/ e.chassis[1] < f.chassis[1]
                 \/ e.chassis[1] = f.chassis[1] /\ Len(f.chassis) = 2

\* The entries of the first m neighbors.
Saved(ps, m, o) ==
  /\ \A x \in DOMAIN o : \E k \in 1..m : Right(k, ps[k], o[x])
  /\ \A x, y \in DOMAIN o : x < y => Ordered(o[x], o[y])
  /\ \A k \in 1..m : \E x \in DOMAIN o : o[x].chassis = <<k>>

\* The description, the VLANs and the rest of a neighbor before line j, if its
\* description is plain.
DescHeld(i, n, j, c, s) ==
  LET in == n.desc # <<>> /\ j \in 5..(4 + DescSize(n))
  IN  /\ s.inDesc <=> in
      /\ s.desc = Lines(i, IF in THEN j - 4 ELSE 0)
      /\ c.desc = Lines(i, IF j > 4 + DescSize(n) THEN Len(n.desc) ELSE 0)

VlansHeld(i, n, j, c, s) ==
  LET b  == 6 + DescSize(n)
      in == n.vlans # <<>> /\ j \in (b + 1)..(b + VlanSize(n))
  IN  /\ s.inVlans <=> in
      /\ FlattenSeq(s.vlans) = Lines(i, IF in THEN j - b ELSE 0)
      /\ s.vlans # <<>> => in
      /\ FlattenSeq(c.vlans) = Lines(i, IF j > b + VlanSize(n) THEN Len(n.vlans) ELSE 0)

RestHeld(i, n, j, c) ==
  /\ j > 3 => c.name = IF n.named THEN <<i>> ELSE <<>>
  /\ j > 4 + DescSize(n) => c.time = <<i>>
  /\ j > 5 + DescSize(n) => c.late = <<i>>
  /\ j > 7 + DescSize(n) + VlanSize(n) => c.agg = <<i>>

\* A neighbor whose lines before line j are read.
Building(i, n, j, c, s) ==
  /\ j \in 3..(BlockSize(n) + 1)
  /\ c \in OwnEntry(i) /\ Begun(i, n, c.chassis) /\ s \in OwnState(i)
  /\ s.inDesc => j \in 5..(4 + DescSize(n))
  /\ s.inVlans => s.vlans # <<>>
  /\ Plain(n) => DescHeld(i, n, j, c, s) /\ VlansHeld(i, n, j, c, s) /\ RestHeld(i, n, j, c)

\* Before line j of block i.  Its first two lines, the empty one and the one
\* with the chassis id, still belong to the neighbor before.
HeldNone(ps, i, j, s, o) ==
  /\ ~s.inDesc /\ Saved(ps, IF j > 2 THEN i ELSE i - 1, o)
  /\ j > 2 => ~Plain(ps[i])

HeldSome(ps, i, j, c, s, o) ==
  LET k == IF j = 1 THEN i - 1 ELSE i
  IN  /\ j # 2 /\ k > 0 /\ Saved(ps, IF c.chassis = <<k>> THEN k - 1 ELSE k, o)
      /\ Building(k, ps[k], IF j = 1 THEN BlockSize(ps[k]) + 1 ELSE j, c, s)

Held(ps, i, j, c, s, o) == IF c = Lldp!Nil THEN HeldNone(ps, i, j, s, o) ELSE HeldSome(ps, i, j, c, s, o)

LldpAt(ps, end, i, j, t, c, s, o) ==
  /\ i \in 1..(Len(ps) + 1) /\ j \in Nat \ {0}
  /\ j <= IF i <= Len(ps) THEN BlockSize(ps[i]) ELSE Len(end) + 1
  /\ t = Left(LldpBlocks(ps, end), i, j)
  /\ Held(ps, i, j, c, s, o)

LldpStart(ps, end, t, c, s, o) ==
  /\ t = <<Lldp!Row("command", <<>>)>> \o FlattenSeq(LldpBlocks(ps, end))
  /\ c = Lldp!Nil /\ s = Lldp!Fresh /\ o = <<>>

LldpState(ps, t, c, s, o) ==
  /\ ps \in Seq(Lldp!Neighbor) /\ o \in Seq(LldpEntry)
  /\ \E end \in LldpEnds :
       \/ LldpStart(ps, end, t, c, s, o)
       \/ \E i, j \in Nat : LldpAt(ps, end, i, j, t, c, s, o)

LldpInv == parser = "lldp-neighbor" => LldpState(printed, text, current, scratch, out)

-----------------------------------------------------------------------------
(* LldpText: lists of values.                                              *)

LEMMA LinesFacts ==
  ASSUME NEW i \in Nat, NEW m \in Nat
  PROVE  /\ Lines(i, m) \in Seq(ValuesOf(i)) /\ Len(Lines(i, m)) = m
         /\ Lines(i, 0) = <<>>
         /\ <<i, m + 1>> \in ValuesOf(i) /\ Lines(i, m + 1) = Append(Lines(i, m), <<i, m + 1>>)
<1> DEFINE X == ValuesOf(i)
           s == Lines(i, m)
           t == Lines(i, m + 1)
           e == <<i, m + 1>>
<1>1. \A x \in Nat : <<i, x>> \in X
  BY DEF ValuesOf, Val
<1> HIDE DEF X
<1>2. s \in Seq(X) /\ Len(s) = m /\ \A x \in 1..m : s[x] = <<i, x>>
  BY <1>1 DEF Lines
<1>3. t \in Seq(X) /\ Len(t) = m + 1 /\ \A x \in 1..(m + 1) : t[x] = <<i, x>>
  BY <1>1 DEF Lines
<1>4. Lines(i, 0) = <<>>
  <2>1. Lines(i, 0) \in Seq(X) /\ Len(Lines(i, 0)) = 0
    BY <1>1 DEF Lines
  <2> HIDE DEF Lines
  <2>2. QED BY <2>1
<1>5. e \in X
  BY <1>1
<1> HIDE DEF s, t
<1>6. /\ Append(s, e) \in Seq(X) /\ Len(Append(s, e)) = m + 1
      /\ \A x \in 1..m : Append(s, e)[x] = s[x]
      /\ Append(s, e)[m + 1] = e
  BY <1>2, <1>5, AppendElements
<1>7. ASSUME NEW x \in 1..(m + 1) PROVE t[x] = Append(s, e)[x]
  <2>1. CASE x \in 1..m
    BY <1>2, <1>3, <1>6, <2>1
  <2>2. CASE x = m + 1
    BY <1>3, <1>6, <2>2
  <2>3. x \in 1..m \/ x = m + 1
    OBVIOUS
  <2>4. QED BY <2>1, <2>2, <2>3
<1>8. t = Append(s, e)
  <2>1. /\ t \in Seq(X) /\ Append(s, e) \in Seq(X) /\ Len(t) = Len(Append(s, e))
        /\ \A x \in 1..Len(t) : t[x] = Append(s, e)[x]
    BY <1>3, <1>6, <1>7
  <2>2. QED BY <2>1, SameElements
<1>9. QED BY <1>2, <1>4, <1>5, <1>8 DEF s, t, X

LEMMA NoParts == FlattenSeq(<<>>) = <<>>
BY DEF FlattenSeq

\* One more list of one element.
LEMMA FlatAppend ==
  ASSUME NEW S, NEW ss \in Seq(Seq(S)), NEW x \in S
  PROVE  /\ Append(ss, <<x>>) \in Seq(Seq(S)) /\ Append(ss, <<x>>) # <<>>
         /\ FlattenSeq(Append(ss, <<x>>)) = Append(FlattenSeq(ss), x)
<1> DEFINE X == Seq(S)
           e == <<x>>
           f == FlattenSeq(ss)
<1>1. e \in X
  OBVIOUS
<1>2. f \in Seq(S)
  BY FlatSeq
<1>3. f \o e = Append(f, x)
  <2> HIDE DEF f
  <2>1. QED BY <1>2
<1> HIDE DEF X, e
<1>4. Append(ss, e) \in Seq(X) /\ Append(ss, e) # <<>>
  BY <1>1, AppendElements DEF X
<1>5. AnyLoop!FlattenSeq(Append(ss, e)) = AnyLoop!FlattenSeq(ss) \o e
  BY <1>1, AnyLoop!FlattenAppend DEF X
<1>6. FlattenSeq(Append(ss, e)) = f \o e
  BY <1>5, SameFlatten
<1>7. QED BY <1>3, <1>4, <1>6 DEF X, e, f

\* One more element of the last list.
LEMMA FlatExtend ==
  ASSUME NEW S, NEW ss \in Seq(Seq(S)), ss # <<>>, NEW x \in S
  PROVE  LET z == [ss EXCEPT ![Len(ss)] = Append(@, x)]
         IN  z \in Seq(Seq(S)) /\ z # <<>> /\ FlattenSeq(z) = Append(FlattenSeq(ss), x)
<1> DEFINE X == Seq(S)
           n == Len(ss)
           a == ss[n]
           b == Append(a, x)
           z == [ss EXCEPT ![n] = Append(@, x)]
           f == SubSeq(ss, 1, n - 1)
<1>0. n \in Nat
  OBVIOUS
<1>1. ss \in Seq(X) /\ n \in Nat /\ n > 0 /\ n \in 1..n /\ n - 1 \in Nat /\ DOMAIN ss = 1..n
  OBVIOUS
<1>2. a \in Seq(S) /\ b \in Seq(S) /\ a \in X /\ b \in X
  <2>1. a \in Seq(S)
    BY <1>1
  <2> HIDE DEF a
  <2>2. QED BY <2>1
<1>3. f \in Seq(X) /\ Len(f) = n - 1 /\ \A i \in 1..(n - 1) : f[i] = ss[i]
  <2> HIDE DEF X
  <2>1. QED BY <1>1
<1>4. z \in Seq(X) /\ Len(z) = n /\ z[n] = b /\ \A i \in 1..(n - 1) : z[i] = ss[i]
  <2>1. z = [ss EXCEPT ![n] = b]
    BY <1>1
  <2> HIDE DEF X, b, z, n
  <2>2. DOMAIN z = 1..n /\ z[n] = b /\ \A i \in 1..(n - 1) : z[i] = ss[i]
    BY <1>1, <2>1
  <2>3. \A i \in 1..n : z[i] \in X
    BY <1>1, <1>2, <2>1
  <2>4. z = [i \in 1..n |-> z[i]]
    BY <1>1, <2>1
  <2>5. [i \in 1..n |-> z[i]] \in Seq(X) /\ Len([i \in 1..n |-> z[i]]) = n
    BY <1>0, <2>3
  <2>6. z \in Seq(X) /\ Len(z) = n
    BY <2>4, <2>5
  <2>7. QED BY <2>2, <2>6
<1> HIDE DEF X, a, b, f, z
<1>5. z = Append(f, b)
  <2>1. /\ Append(f, b) \in Seq(X) /\ Len(Append(f, b)) = Len(f) + 1
        /\ \A i \in 1..Len(f) : Append(f, b)[i] = f[i]
        /\ Append(f, b)[Len(f) + 1] = b
    BY <1>2, <1>3, AppendElements
  <2>2. \A i \in 1..n : i \in 1..(n - 1) \/ i = n
    BY <1>0
  <2>3. (n - 1) + 1 = n
    BY <1>1
  <2>4. \A i \in 1..n : z[i] = Append(f, b)[i]
    BY <1>3, <1>4, <2>1, <2>2, <2>3
  <2>5. QED BY <1>3, <1>4, <2>1, <2>3, <2>4, SameElements
<1>6. ss = Append(f, a)
  <2>1. /\ Append(f, a) \in Seq(X) /\ Len(Append(f, a)) = Len(f) + 1
        /\ \A i \in 1..Len(f) : Append(f, a)[i] = f[i]
        /\ Append(f, a)[Len(f) + 1] = a
    BY <1>2, <1>3, AppendElements
  <2>2. \A i \in 1..n : i \in 1..(n - 1) \/ i = n
    BY <1>0
  <2>3. (n - 1) + 1 = n
    BY <1>1
  <2>4. \A i \in 1..n : ss[i] = Append(f, a)[i]
    BY <1>3, <2>1, <2>2, <2>3 DEF a
  <2>5. QED BY <1>1, <1>3, <2>1, <2>3, <2>4, SameElements DEF n
<1> DEFINE g == FlattenSeq(f)
<1>7. g \in Seq(S)
  BY <1>3, FlatSeq DEF X
<1>8. FlattenSeq(z) = g \o b
  BY <1>2, <1>3, <1>5, AnyLoop!FlattenAppend, SameFlatten DEF X
<1>9. FlattenSeq(ss) = g \o a
  BY <1>2, <1>3, <1>6, AnyLoop!FlattenAppend, SameFlatten DEF X
<1>10. g \o b = Append(g \o a, x)
  <2> HIDE DEF g
  <2> DEFINE ga == g \o a
             gb == g \o b
  <2>1. /\ ga \in Seq(S) /\ Len(ga) = Len(g) + Len(a)
        /\ \A i \in 1..Len(g) : ga[i] = g[i]
        /\ \A i \in 1..Len(a) : ga[Len(g) + i] = a[i]
    BY <1>2, <1>7, JoinedElements
  <2>2. /\ gb \in Seq(S) /\ Len(gb) = Len(g) + Len(b)
        /\ \A i \in 1..Len(g) : gb[i] = g[i]
        /\ \A i \in 1..Len(b) : gb[Len(g) + i] = b[i]
    BY <1>2, <1>7, JoinedElements
  <2>3. Len(b) = Len(a) + 1 /\ b[Len(a) + 1] = x /\ \A i \in 1..Len(a) : b[i] = a[i]
    BY <1>2, AppendElements DEF b
  <2> HIDE DEF ga, gb
  <2>4. /\ Append(ga, x) \in Seq(S) /\ Len(Append(ga, x)) = Len(ga) + 1
        /\ \A i \in 1..Len(ga) : Append(ga, x)[i] = ga[i]
        /\ Append(ga, x)[Len(ga) + 1] = x
    <3>1. ga \in Seq(S) /\ x \in S
      BY <2>1
    <3>2. QED BY <3>1, AppendElements
  <2>5. Len(g) \in Nat /\ Len(a) \in Nat
    BY <1>2, <1>7
  <2>6. ASSUME NEW k \in 1..Len(gb) PROVE gb[k] = Append(ga, x)[k]
    <3>1. CASE k \in 1..Len(g)
      <4>1. k \in 1..Len(ga)
        BY <2>1, <2>5, <3>1
      <4>2. QED BY <2>1, <2>2, <2>4, <3>1, <4>1
    <3>2. CASE k \notin 1..Len(g)
      <4>1. PICK h \in 1..Len(b) : k = Len(g) + h
        <5>1. k - Len(g) \in 1..Len(b) /\ k = Len(g) + (k - Len(g))
          BY <2>2, <2>3, <2>5, <3>2
        <5>2. QED BY <5>1
      <4>2. CASE h \in 1..Len(a)
        <5>1. k \in 1..Len(ga)
          BY <2>1, <2>5, <4>1, <4>2
        <5>2. QED BY <2>1, <2>2, <2>3, <2>4, <4>1, <4>2, <5>1
      <4>3. CASE h = Len(a) + 1
        <5>1. k = Len(ga) + 1
          BY <2>1, <2>5, <4>1, <4>3
        <5>2. QED BY <2>2, <2>3, <2>4, <4>1, <4>3, <5>1
      <4>4. h \in 1..Len(a) \/ h = Len(a) + 1
        <5>1. Len(b) = Len(a) + 1 /\ Len(a) \in Nat
          BY <2>3, <2>5
        <5>2. QED BY <5>1
      <4>5. QED BY <4>2, <4>3, <4>4
    <3>3. QED BY <3>1, <3>2
  <2>7. Len(gb) = Len(Append(ga, x))
    BY <2>1, <2>2, <2>3, <2>4, <2>5
  <2>8. gb = Append(ga, x)
    BY <2>2, <2>4, <2>6, <2>7, SameElements
  <2>9. QED BY <2>8 DEF ga, gb
<1>11. z # <<>>
  BY <1>1, <1>4
<1>12. QED BY <1>4, <1>8, <1>9, <1>10, <1>11 DEF X, z, n

-----------------------------------------------------------------------------
(* LldpText: reading a line of a neighbor whose description is plain.      *)

Meets(i, n, j, c, s, l) ==
  /\ i \in Nat /\ n \in Lldp!Neighbor /\ j \in 3..BlockSize(n)
  /\ Building(i, n, j, c, s) /\ LineOf(i, n, j, l) /\ Plain(n)

LEMMA MeetsFacts ==
  ASSUME NEW i, NEW n, NEW j, NEW c, NEW s, NEW l, Meets(i, n, j, c, s, l)
  PROVE  /\ i \in Nat /\ n \in Lldp!Neighbor /\ j \in Nat /\ j >= 3
         /\ DescSize(n) \in Nat \ {0} /\ VlanSize(n) \in Nat \ {0}
         /\ BlockSize(n) = 7 + DescSize(n) + VlanSize(n)
         /\ c \in OwnEntry(i) /\ Begun(i, n, c.chassis) /\ s \in OwnState(i)
         /\ l.val \in ValuesOf(i) \cup {<<>>} /\ PlainLine(i, n, j, l)
         /\ s.inDesc => j \in 5..(4 + DescSize(n))
         /\ s.inVlans => s.vlans # <<>>
         /\ DescHeld(i, n, j, c, s) /\ VlansHeld(i, n, j, c, s) /\ RestHeld(i, n, j, c)
         /\ j + 1 \in 3..(BlockSize(n) + 1)
<1>1. n \in Lldp!Neighbor /\ i \in Nat /\ j \in 3..BlockSize(n) /\ Building(i, n, j, c, s)
      /\ LineOf(i, n, j, l) /\ Plain(n)
  BY DEF Meets
<1>2. DescSize(n) \in Nat \ {0} /\ VlanSize(n) \in Nat \ {0}
  BY <1>1, NeighborTypes
<1>3. /\ c \in OwnEntry(i) /\ Begun(i, n, c.chassis) /\ s \in OwnState(i)
      /\ s.inDesc => j \in 5..(4 + DescSize(n))
      /\ s.inVlans => s.vlans # <<>>
      /\ DescHeld(i, n, j, c, s) /\ VlansHeld(i, n, j, c, s) /\ RestHeld(i, n, j, c)
  BY <1>1 DEF Building
<1>4. BlockSize(n) = 7 + DescSize(n) + VlanSize(n)
  BY DEF BlockSize
<1>5. j \in Nat /\ j >= 3 /\ j + 1 \in 3..(BlockSize(n) + 1)
  BY <1>1, <1>2, <1>4
<1>6. l.val \in ValuesOf(i) \cup {<<>>} /\ PlainLine(i, n, j, l)
  BY <1>1 DEF LineOf
<1>7. QED BY <1>1, <1>2, <1>3, <1>4, <1>5, <1>6

\* What is read outside of the description is not printed as part of it.
LEMMA NotInner ==
  ASSUME NEW i, NEW n, NEW j, NEW c, NEW s, NEW l, Meets(i, n, j, c, s, l), ~s.inDesc
  PROVE  ~Inner(i, n, j, l)
<1> SUFFICES ASSUME n.desc # <<>>, j \in 5..(3 + DescSize(n)) PROVE FALSE
  BY DEF Inner
<1>1. DescSize(n) \in Nat /\ DescHeld(i, n, j, c, s)
  BY MeetsFacts
<1>2. j \in 5..(4 + DescSize(n))
  BY <1>1
<1>3. QED BY <1>1, <1>2 DEF DescHeld

\* What a line leaves alone.
LEMMA DescStays ==
  ASSUME NEW i, NEW n \in Lldp!Neighbor, NEW j \in Nat, NEW c, NEW s, NEW c2, NEW s2,
         DescHeld(i, n, j, c, s), n.desc = <<>> \/ j < 4 \/ j > 4 + DescSize(n),
         c2.desc = c.desc, s2.inDesc = s.inDesc, s2.desc = s.desc
  PROVE  DescHeld(i, n, j + 1, c2, s2)
<1>1. DescSize(n) \in Nat \ {0}
  BY NeighborTypes
<1>2. CASE n.desc = <<>>
  <2>1. Len(n.desc) = 0
    BY <1>2
  <2>2. QED BY <1>2, <2>1 DEF DescHeld
<1>3. CASE j < 4 \/ j > 4 + DescSize(n)
  <2> DEFINE d == DescSize(n)
  <2>1. d \in Nat
    BY <1>1
  <2> HIDE DEF d
  <2>2. j < 4 \/ j > 4 + d
    BY <1>3 DEF d
  <2>3. j \notin 5..(4 + d) /\ j + 1 \notin 5..(4 + d) /\ (j > 4 + d <=> j + 1 > 4 + d)
    BY <2>1, <2>2
  <2>4. QED BY <2>3 DEF DescHeld, d
<1>4. QED BY <1>2, <1>3

LEMMA VlansStay ==
  ASSUME NEW i, NEW n \in Lldp!Neighbor, NEW j \in Nat, NEW c, NEW s, NEW c2, NEW s2,
         VlansHeld(i, n, j, c, s),
         n.vlans = <<>> \/ j < 6 + DescSize(n) \/ j > 6 + DescSize(n) + VlanSize(n),
         c2.vlans = c.vlans, s2.inVlans = s.inVlans, s2.vlans = s.vlans
  PROVE  VlansHeld(i, n, j + 1, c2, s2)
<1>1. DescSize(n) \in Nat \ {0} /\ VlanSize(n) \in Nat \ {0}
  BY NeighborTypes
<1>2. CASE n.vlans = <<>>
  <2>1. Len(n.vlans) = 0
    BY <1>2
  <2>2. QED BY <1>2, <2>1 DEF VlansHeld
<1>3. CASE j < 6 + DescSize(n) \/ j > 6 + DescSize(n) + VlanSize(n)
  <2> DEFINE b == 6 + DescSize(n)
             v == VlanSize(n)
  <2>1. b \in Nat /\ v \in Nat \ {0}
    BY <1>1
  <2>2. j < b \/ j > b + v
    BY <1>3
  <2> HIDE DEF b, v
  <2>3. j \notin (b + 1)..(b + v) /\ j + 1 \notin (b + 1)..(b + v) /\ (j > b + v <=> j + 1 > b + v)
    BY <2>1, <2>2
  <2>4. QED BY <2>3 DEF VlansHeld, b, v
<1>4. QED BY <1>2, <1>3

LEMMA RestAdvances ==
  ASSUME NEW i, NEW n \in Lldp!Neighbor, NEW j \in Nat, NEW c, NEW c2,
         RestHeld(i, n, j, c),
         c2.name = (IF j = 3 THEN IF n.named THEN <<i>> ELSE <<>> ELSE c.name),
         c2.time = (IF j = 4 + DescSize(n) THEN <<i>> ELSE c.time),
         c2.late = (IF j = 5 + DescSize(n) THEN <<i>> ELSE c.late),
         c2.agg = (IF j = 7 + DescSize(n) + VlanSize(n) THEN <<i>> ELSE c.agg)
  PROVE  RestHeld(i, n, j + 1, c2)
<1>1. DescSize(n) \in Nat \ {0} /\ VlanSize(n) \in Nat \ {0}
  BY NeighborTypes
<1> DEFINE d == DescSize(n)
           v == VlanSize(n)
<1>2. /\ j + 1 > 3 => j > 3 \/ j = 3
      /\ j + 1 > 4 + d => j > 4 + d \/ j = 4 + d
      /\ j + 1 > 5 + d => j > 5 + d \/ j = 5 + d
      /\ j + 1 > 7 + d + v => j > 7 + d + v \/ j = 7 + d + v
  BY <1>1
<1>3. QED BY <1>2 DEF RestHeld

\* A line after which the entry and the memory differ as they should.
LEMMA BuildingNext ==
  ASSUME NEW i, NEW n, NEW j, NEW c, NEW s, NEW l, Meets(i, n, j, c, s, l),
         NEW c2 \in OwnEntry(i), c2.chassis = c.chassis, NEW s2 \in OwnState(i),
         s2.inDesc => j + 1 \in 5..(4 + DescSize(n)), s2.inVlans => s2.vlans # <<>>,
         DescHeld(i, n, j + 1, c2, s2), VlansHeld(i, n, j + 1, c2, s2), RestHeld(i, n, j + 1, c2)
  PROVE  Building(i, n, j + 1, c2, s2)
<1>1. j + 1 \in 3..(BlockSize(n) + 1) /\ Begun(i, n, c.chassis)
  BY MeetsFacts
<1>2. QED BY <1>1 DEF Building

LEMMA EntryFields ==
  ASSUME NEW i, NEW c \in OwnEntry(i), NEW x \in ValuesOf(i) \cup {<<>>}
  PROVE  /\ [c EXCEPT !.name = x] \in OwnEntry(i) /\ [c EXCEPT !.late = x] \in OwnEntry(i)
         /\ [c EXCEPT !.agg = x] \in OwnEntry(i)
         /\ \A y \in Seq(ValuesOf(i)) : [c EXCEPT !.time = x, !.desc = y] \in OwnEntry(i)
         /\ \A y \in Seq(Seq(ValuesOf(i))) : [c EXCEPT !.vlans = y] \in OwnEntry(i)
<1> DEFINE V == ValuesOf(i)
           F == V \cup {<<>>}
           X == Seq(V)
           Y == Seq(X)
<1> HIDE DEF V, F, X, Y
<1>1. c \in [chassis : V, name : F, desc : X, time : F, late : F, vlans : Y, agg : F] /\ x \in F
  BY DEF OwnEntry, V, F, X, Y
<1>2. /\ [c EXCEPT !.name = x] \in [chassis : V, name : F, desc : X, time : F, late : F, vlans : Y, agg : F]
      /\ [c EXCEPT !.late = x] \in [chassis : V, name : F, desc : X, time : F, late : F, vlans : Y, agg : F]
      /\ [c EXCEPT !.agg = x] \in [chassis : V, name : F, desc : X, time : F, late : F, vlans : Y, agg : F]
  BY <1>1
<1>3. ASSUME NEW y \in X
      PROVE  [c EXCEPT !.time = x, !.desc = y]
               \in [chassis : V, name : F, desc : X, time : F, late : F, vlans : Y, agg : F]
  BY <1>1
<1>4. ASSUME NEW y \in Y
      PROVE  [c EXCEPT !.vlans = y]
               \in [chassis : V, name : F, desc : X, time : F, late : F, vlans : Y, agg : F]
  BY <1>1
<1>5. QED BY <1>2, <1>3, <1>4 DEF OwnEntry, V, F, X, Y

\* Every other line before the description is the system name.
LEMMA NameRead ==
  ASSUME NEW i, NEW n, NEW j, NEW c, NEW s, NEW l, Meets(i, n, j, c, s, l), l.kind = "name"
  PROVE  Building(i, n, j + 1, [c EXCEPT !.name = l.val], s)
<1> DEFINE d == DescSize(n)
           v == VlanSize(n)
           c2 == [c EXCEPT !.name = l.val]
<1>1. /\ i \in Nat /\ n \in Lldp!Neighbor /\ j \in Nat /\ d \in Nat \ {0} /\ v \in Nat \ {0}
      /\ c \in OwnEntry(i) /\ s \in OwnState(i)
  BY MeetsFacts
<1>2. j = 3 /\ l.val = IF n.named THEN <<i>> ELSE <<>>
  <2>1. PlainLine(i, n, j, l)
    BY MeetsFacts
  <2>2. QED BY <2>1 DEF PlainLine
<1>3. /\ c2 \in OwnEntry(i) /\ c2.name = l.val /\ c2.desc = c.desc /\ c2.vlans = c.vlans
      /\ c2.chassis = c.chassis
      /\ c2.time = c.time /\ c2.late = c.late /\ c2.agg = c.agg
  <2>1. c2 \in OwnEntry(i)
    BY <1>1, MeetsFacts, EntryFields
  <2>2. QED BY <1>1, <2>1 DEF OwnEntry
<1>4. (s.inDesc => j \in 5..(4 + d)) /\ (s.inVlans => s.vlans # <<>>)
  BY MeetsFacts
<1>5. ~s.inDesc
  BY <1>2, <1>4
<1> HIDE DEF c2
<1>6. /\ DescHeld(i, n, j + 1, c2, s) /\ VlansHeld(i, n, j + 1, c2, s)
      /\ RestHeld(i, n, j + 1, c2)
  <2>1. DescHeld(i, n, j, c, s) /\ VlansHeld(i, n, j, c, s) /\ RestHeld(i, n, j, c)
    BY MeetsFacts
  <2>2. j < 4 /\ j < 6 + d /\ j # 4 + d /\ j # 5 + d /\ j # 7 + d + v
    BY <1>1, <1>2
  <2>3. DescHeld(i, n, j + 1, c2, s)
    BY <1>1, <1>3, <2>1, <2>2, DescStays
  <2>4. VlansHeld(i, n, j + 1, c2, s)
    BY <1>1, <1>3, <2>1, <2>2, VlansStay
  <2>5. RestHeld(i, n, j + 1, c2)
    BY <1>1, <1>2, <1>3, <2>1, <2>2, RestAdvances
  <2>6. QED BY <2>3, <2>4, <2>5
<1>7. Building(i, n, j + 1, c2, s)
  BY <1>1, <1>3, <1>4, <1>5, <1>6, BuildingNext
<1>8. QED BY <1>7 DEF c2

\* A line of a description, read inside of it or as its first one.
LEMMA DescriptionRead ==
  ASSUME NEW i, NEW n, NEW j, NEW c, NEW s, NEW l, Meets(i, n, j, c, s, l),
         \/ l.kind = "desc" /\ l.val # <<>>
         \/ /\ l.kind \in {"text", "late", "vlans", "number", "colon", "linkAgg", "agg", "aggId"}
            /\ s.inDesc
  PROVE  Building(i, n, j + 1, c, [s EXCEPT !.inDesc = TRUE, !.desc = Append(@, l.val)])
<1> DEFINE d == DescSize(n)
           v == VlanSize(n)
           s2 == [s EXCEPT !.inDesc = TRUE, !.desc = Append(@, l.val)]
<1>1. /\ i \in Nat /\ n \in Lldp!Neighbor /\ j \in Nat /\ d \in Nat \ {0} /\ v \in Nat \ {0}
      /\ c \in OwnEntry(i) /\ s \in OwnState(i)
  BY MeetsFacts
<1>2. j \in 4..(3 + d) /\ n.desc # <<>> /\ l.val = <<i, j - 3>>
  <2>1. PlainLine(i, n, j, l) /\ (s.inDesc => j \in 5..(4 + d))
    BY MeetsFacts
  <2>2. CASE l.kind = "desc" /\ l.val # <<>>
    BY <2>1, <2>2 DEF PlainLine
  <2>3. CASE /\ l.kind \in {"text", "late", "vlans", "number", "colon", "linkAgg", "agg", "aggId"}
             /\ s.inDesc
    <3>1. j \in 5..(4 + d)
      BY <2>1, <2>3
    <3>2. /\ l.kind = "late" => Inner(i, n, j, l) \/ j = 5 + d
          /\ l.kind = "vlans" => Inner(i, n, j, l) \/ j = 6 + d
          /\ l.kind \in {"number", "colon"} => Inner(i, n, j, l) \/ j \in (7 + d)..(5 + d + v)
          /\ l.kind = "linkAgg" => Inner(i, n, j, l) \/ j = 6 + d + v
          /\ l.kind = "agg" => Inner(i, n, j, l) \/ j = 7 + d + v
          /\ l.kind \in {"text", "aggId"} => Inner(i, n, j, l)
      <4> HIDE DEF Inner
      <4>1. QED BY <2>1 DEF PlainLine
    <3>3. j # 5 + d /\ j # 6 + d /\ j \notin (7 + d)..(5 + d + v) /\ j # 6 + d + v /\ j # 7 + d + v
      <4> HIDE DEF d, v
      <4>1. QED BY <1>1, <3>1
    <3>4. Inner(i, n, j, l)
      <4> HIDE DEF d, v
      <4>1. QED BY <2>3, <3>2, <3>3
    <3>5. j \in 5..(3 + d) /\ n.desc # <<>> /\ l.val = <<i, j - 3>>
      BY <3>4 DEF Inner
    <3>6. QED BY <1>1, <3>5
  <2>4. QED BY <2>2, <2>3
<1>3. PICK x \in Nat : j = x + 4
  <2>1. j - 4 \in Nat /\ j = (j - 4) + 4
    BY <1>1, <1>2
  <2>2. QED BY <2>1
<1>4. j - 3 = x + 1 /\ x + 1 \in 1..d /\ j + 1 = x + 5
  BY <1>1, <1>2, <1>3
<1>5. l.val = <<i, x + 1>> /\ l.val \in ValuesOf(i)
  <2>1. i \in Nat /\ x \in Nat
    BY <1>1
  <2>2. <<i, x + 1>> \in ValuesOf(i)
    BY <2>1, LinesFacts
  <2>3. QED BY <1>2, <1>4, <2>2
<1>6. /\ s2 \in OwnState(i) /\ s2.inDesc = TRUE /\ s2.desc = Append(s.desc, l.val)
      /\ s2.inVlans = s.inVlans /\ s2.vlans = s.vlans
  <2> DEFINE X == ValuesOf(i)
             Y == Seq(Seq(X))
  <2> HIDE DEF X, Y
  <2>1. s \in [inDesc : BOOLEAN, desc : Seq(X), inVlans : BOOLEAN, vlans : Y]
    BY <1>1 DEF OwnState, X, Y
  <2>2. l.val \in X
    BY <1>5 DEF X
  <2> DEFINE w == Append(s.desc, l.val)
  <2>3. w \in Seq(X)
    BY <2>1, <2>2
  <2>4. s2 = [s EXCEPT !.inDesc = TRUE, !.desc = w]
    BY <2>1
  <2> HIDE DEF w, s2
  <2>5. s2 \in [inDesc : BOOLEAN, desc : Seq(X), inVlans : BOOLEAN, vlans : Y] /\ s2.inDesc = TRUE
        /\ s2.desc = w /\ s2.inVlans = s.inVlans /\ s2.vlans = s.vlans
    BY <2>1, <2>3, <2>4
  <2>6. QED BY <2>5 DEF OwnState, X, Y, w
<1>7. (s.inVlans => s.vlans # <<>>) /\ j + 1 \in 5..(4 + d)
  <2>1. s.inVlans => s.vlans # <<>>
    BY DEF Meets, Building
  <2>2. QED BY <1>1, <1>2, <2>1
<1> HIDE DEF s2
<1>8. /\ DescHeld(i, n, j + 1, c, s2) /\ VlansHeld(i, n, j + 1, c, s2)
      /\ RestHeld(i, n, j + 1, c)
  <2>1. DescHeld(i, n, j, c, s) /\ VlansHeld(i, n, j, c, s) /\ RestHeld(i, n, j, c)
    BY MeetsFacts
  <2>2. j < 6 + d /\ j # 3 /\ j # 4 + d /\ j # 5 + d /\ j # 7 + d + v
        /\ ~(j > 4 + d) /\ ~(j + 1 > 4 + d)
    <3>1. d \in Nat /\ v \in Nat /\ j \in 4..(3 + d)
      BY <1>1, <1>2
    <3> HIDE DEF d, v
    <3>2. QED BY <3>1
  <2>3. s.desc = Lines(i, x) /\ c.desc = Lines(i, 0)
    <3>1. CASE x = 0
      <4>1. j \notin 5..(4 + d)
        BY <1>3, <3>1
      <4>2. QED BY <2>1, <2>2, <3>1, <4>1 DEF DescHeld
    <3>2. CASE x # 0
      <4>1. j \in 5..(4 + d) /\ j - 4 = x
        BY <1>1, <1>2, <1>3, <3>2
      <4>2. QED BY <1>2, <2>1, <2>2, <4>1 DEF DescHeld
    <3>3. QED BY <3>1, <3>2
  <2>4. s2.desc = Lines(i, x + 1)
    BY <1>1, <1>3, <1>5, <1>6, <2>3, LinesFacts
  <2>5. (j + 1) - 4 = x + 1
    BY <1>3
  <2>6. DescHeld(i, n, j + 1, c, s2)
    BY <1>2, <1>6, <1>7, <2>2, <2>3, <2>4, <2>5 DEF DescHeld
  <2>7. VlansHeld(i, n, j + 1, c, s2)
    BY <1>1, <1>6, <2>1, <2>2, VlansStay
  <2>8. RestHeld(i, n, j + 1, c)
    BY <1>1, <2>1, <2>2, RestAdvances
  <2>9. QED BY <2>6, <2>7, <2>8
<1>9. Building(i, n, j + 1, c, s2)
  BY <1>1, <1>6, <1>7, <1>8, BuildingNext
<1>10. QED BY <1>9 DEF s2

\* The time ends the description and stores it.
LEMMA TimeRead ==
  ASSUME NEW i, NEW n, NEW j, NEW c, NEW s, NEW l, Meets(i, n, j, c, s, l), l.kind = "time"
  PROVE  Building(i, n, j + 1,
                  [c EXCEPT !.time = l.val, !.desc = IF s.inDesc THEN s.desc ELSE @],
                  IF s.inDesc THEN [s EXCEPT !.inDesc = FALSE, !.desc = <<>>] ELSE s)
<1> DEFINE d == DescSize(n)
           v == VlanSize(n)
           w == IF s.inDesc THEN s.desc ELSE c.desc
           c2 == [c EXCEPT !.time = l.val, !.desc = IF s.inDesc THEN s.desc ELSE @]
           s2 == IF s.inDesc THEN [s EXCEPT !.inDesc = FALSE, !.desc = <<>>] ELSE s
           V == ValuesOf(i)
           F == V \cup {<<>>}
           X == Seq(V)
           Y == Seq(X)
<1>1. /\ i \in Nat /\ n \in Lldp!Neighbor /\ j \in Nat /\ d \in Nat \ {0} /\ v \in Nat \ {0}
      /\ c \in OwnEntry(i) /\ s \in OwnState(i)
  BY MeetsFacts
<1>2. j = 4 + d /\ l.val = <<i>> /\ l.val \in F
  <2>1. PlainLine(i, n, j, l) /\ l.val \in F
    BY MeetsFacts
  <2> HIDE DEF F
  <2>2. QED BY <2>1 DEF PlainLine
<1>3. /\ s \in [inDesc : BOOLEAN, desc : X, inVlans : BOOLEAN, vlans : Y] /\ <<>> \in X
      /\ c \in [chassis : V, name : F, desc : X, time : F, late : F, vlans : Y, agg : F]
  BY <1>1 DEF OwnEntry, OwnState
<1> HIDE DEF V, F, X, Y
<1>4. w \in X
  BY <1>3
<1>5. c2 = [c EXCEPT !.time = l.val, !.desc = w]
  BY <1>3
<1> HIDE DEF w, c2
<1>6. /\ c2 \in OwnEntry(i) /\ c2.time = <<i>> /\ c2.desc = w /\ c2.name = c.name
      /\ c2.late = c.late /\ c2.vlans = c.vlans /\ c2.agg = c.agg /\ c2.chassis = c.chassis
  <2>1. /\ c2 \in [chassis : V, name : F, desc : X, time : F, late : F, vlans : Y, agg : F]
        /\ c2.time = <<i>> /\ c2.desc = w /\ c2.name = c.name
        /\ c2.late = c.late /\ c2.vlans = c.vlans /\ c2.agg = c.agg /\ c2.chassis = c.chassis
    BY <1>2, <1>3, <1>4, <1>5
  <2>2. QED BY <2>1 DEF OwnEntry, V, F, X, Y
<1>7. /\ s2 \in OwnState(i) /\ s2.inDesc = FALSE /\ (s.inDesc => s2.desc = <<>>)
      /\ (~s.inDesc => s2.desc = s.desc) /\ s2.inVlans = s.inVlans /\ s2.vlans = s.vlans
  <2>1. CASE s.inDesc
    <3>1. s2 = [s EXCEPT !.inDesc = FALSE, !.desc = <<>>]
      BY <2>1
    <3> HIDE DEF s2
    <3>2. /\ s2 \in [inDesc : BOOLEAN, desc : X, inVlans : BOOLEAN, vlans : Y]
          /\ s2.inDesc = FALSE /\ s2.desc = <<>> /\ s2.inVlans = s.inVlans /\ s2.vlans = s.vlans
      BY <1>3, <3>1
    <3>3. QED BY <2>1, <3>2 DEF OwnState, V, X, Y
  <2>2. CASE ~s.inDesc
    <3>1. s2 = s /\ s.inDesc = FALSE
      BY <1>3, <2>2
    <3>2. QED BY <1>1, <2>2, <3>1
  <2>3. QED BY <2>1, <2>2
<1> HIDE DEF s2
<1>8. s.inVlans => s.vlans # <<>>
  BY MeetsFacts
<1>9. /\ DescHeld(i, n, j + 1, c2, s2) /\ VlansHeld(i, n, j + 1, c2, s2)
      /\ RestHeld(i, n, j + 1, c2)
  <2>1. DescHeld(i, n, j, c, s) /\ VlansHeld(i, n, j, c, s) /\ RestHeld(i, n, j, c)
    BY MeetsFacts
  <2>2. j < 6 + d /\ j # 3 /\ j # 5 + d /\ j # 7 + d + v /\ j \in 5..(4 + d) /\ j - 4 = d
        /\ ~(j > 4 + d) /\ j + 1 > 4 + d /\ j + 1 \notin 5..(4 + d)
    BY <1>1, <1>2
  <2>3. s.inDesc <=> n.desc # <<>>
    BY <2>1, <2>2 DEF DescHeld
  <2>4. w = Lines(i, Len(n.desc)) /\ s2.desc = Lines(i, 0)
    <3>1. CASE n.desc # <<>>
      <4>1. d = Len(n.desc)
        BY <1>1, <3>1, NeighborTypes
      <4>2. s.desc = Lines(i, d)
        BY <2>1, <2>2, <3>1 DEF DescHeld
      <4>3. Lines(i, 0) = <<>>
        BY <1>1, LinesFacts
      <4>4. QED BY <1>7, <2>3, <3>1, <4>1, <4>2, <4>3 DEF w
    <3>2. CASE n.desc = <<>>
      <4>1. Len(n.desc) = 0
        BY <3>2
      <4>2. c.desc = Lines(i, 0) /\ s.desc = Lines(i, 0)
        BY <2>1, <2>2, <3>2 DEF DescHeld
      <4>3. QED BY <1>7, <2>3, <3>2, <4>1, <4>2 DEF w
    <3>3. QED BY <3>1, <3>2
  <2>5. DescHeld(i, n, j + 1, c2, s2)
    BY <1>6, <1>7, <2>2, <2>4 DEF DescHeld
  <2>6. VlansHeld(i, n, j + 1, c2, s2)
    BY <1>1, <1>6, <1>7, <2>1, <2>2, VlansStay
  <2>7. RestHeld(i, n, j + 1, c2)
    BY <1>1, <1>2, <1>6, <2>1, <2>2, RestAdvances
  <2>8. QED BY <2>5, <2>6, <2>7
<1>10. Building(i, n, j + 1, c2, s2)
  BY <1>1, <1>6, <1>7, <1>8, <1>9, BuildingNext
<1>11. QED BY <1>10 DEF c2, s2

\* Lines after the description that are stored as they are.
LEMMA LateRead ==
  ASSUME NEW i, NEW n, NEW j, NEW c, NEW s, NEW l, Meets(i, n, j, c, s, l), l.kind = "late",
         ~s.inDesc
  PROVE  Building(i, n, j + 1, [c EXCEPT !.late = l.val], s)
<1> DEFINE d == DescSize(n)
           v == VlanSize(n)
           c2 == [c EXCEPT !.late = l.val]
<1>1. /\ i \in Nat /\ n \in Lldp!Neighbor /\ j \in Nat /\ d \in Nat \ {0} /\ v \in Nat \ {0}
      /\ c \in OwnEntry(i) /\ s \in OwnState(i)
  BY MeetsFacts
<1>2. j = 5 + d /\ l.val = <<i>>
  <2>1. PlainLine(i, n, j, l) /\ ~Inner(i, n, j, l)
    BY MeetsFacts, NotInner
  <2> HIDE DEF Inner
  <2>2. QED BY <2>1 DEF PlainLine
<1>3. /\ c2 \in OwnEntry(i) /\ c2.late = l.val /\ c2.desc = c.desc /\ c2.vlans = c.vlans
      /\ c2.time = c.time /\ c2.name = c.name /\ c2.agg = c.agg /\ c2.chassis = c.chassis
  <2>1. c2 \in OwnEntry(i)
    BY <1>1, MeetsFacts, EntryFields
  <2>2. QED BY <1>1, <2>1 DEF OwnEntry
<1>4. (s.inDesc => j \in 5..(4 + d)) /\ (s.inVlans => s.vlans # <<>>)
  BY MeetsFacts
<1>5. ~s.inDesc
  BY <1>1, <1>2, <1>4
<1> HIDE DEF c2
<1>6. /\ DescHeld(i, n, j + 1, c2, s) /\ VlansHeld(i, n, j + 1, c2, s)
      /\ RestHeld(i, n, j + 1, c2)
  <2>1. DescHeld(i, n, j, c, s) /\ VlansHeld(i, n, j, c, s) /\ RestHeld(i, n, j, c)
    BY MeetsFacts
  <2>2. j > 4 + d /\ j < 6 + d /\ j # 3 /\ j # 4 + d /\ j # 7 + d + v
    BY <1>1, <1>2
  <2>3. DescHeld(i, n, j + 1, c2, s)
    BY <1>1, <1>3, <2>1, <2>2, DescStays
  <2>4. VlansHeld(i, n, j + 1, c2, s)
    BY <1>1, <1>3, <2>1, <2>2, VlansStay
  <2>5. RestHeld(i, n, j + 1, c2)
    BY <1>1, <1>2, <1>3, <2>1, <2>2, RestAdvances
  <2>6. QED BY <2>3, <2>4, <2>5
<1>7. Building(i, n, j + 1, c2, s)
  BY <1>1, <1>3, <1>4, <1>5, <1>6, BuildingNext
<1>8. QED BY <1>7 DEF c2

LEMMA AggregationRead ==
  ASSUME NEW i, NEW n, NEW j, NEW c, NEW s, NEW l, Meets(i, n, j, c, s, l), l.kind = "agg",
         ~s.inDesc
  PROVE  Building(i, n, j + 1, [c EXCEPT !.agg = l.val], s)
<1> DEFINE d == DescSize(n)
           v == VlanSize(n)
           c2 == [c EXCEPT !.agg = l.val]
<1>1. /\ i \in Nat /\ n \in Lldp!Neighbor /\ j \in Nat /\ d \in Nat \ {0} /\ v \in Nat \ {0}
      /\ c \in OwnEntry(i) /\ s \in OwnState(i)
  BY MeetsFacts
<1>2. j = 7 + d + v /\ l.val = <<i>>
  <2>1. PlainLine(i, n, j, l) /\ ~Inner(i, n, j, l)
    BY MeetsFacts, NotInner
  <2> HIDE DEF Inner
  <2>2. QED BY <2>1 DEF PlainLine
<1>3. /\ c2 \in OwnEntry(i) /\ c2.agg = l.val /\ c2.desc = c.desc /\ c2.vlans = c.vlans
      /\ c2.time = c.time /\ c2.name = c.name /\ c2.late = c.late /\ c2.chassis = c.chassis
  <2>1. c2 \in OwnEntry(i)
    BY <1>1, MeetsFacts, EntryFields
  <2>2. QED BY <1>1, <2>1 DEF OwnEntry
<1>4. (s.inDesc => j \in 5..(4 + d)) /\ (s.inVlans => s.vlans # <<>>)
  BY MeetsFacts
<1>5. ~s.inDesc
  BY <1>1, <1>2, <1>4
<1> HIDE DEF c2
<1>6. /\ DescHeld(i, n, j + 1, c2, s) /\ VlansHeld(i, n, j + 1, c2, s)
      /\ RestHeld(i, n, j + 1, c2)
  <2>1. DescHeld(i, n, j, c, s) /\ VlansHeld(i, n, j, c, s) /\ RestHeld(i, n, j, c)
    BY MeetsFacts
  <2>2. j > 4 + d /\ j > 6 + d + v /\ j # 3 /\ j # 4 + d /\ j # 5 + d
    BY <1>1, <1>2
  <2>3. DescHeld(i, n, j + 1, c2, s)
    BY <1>1, <1>3, <2>1, <2>2, DescStays
  <2>4. VlansHeld(i, n, j + 1, c2, s)
    BY <1>1, <1>3, <2>1, <2>2, VlansStay
  <2>5. RestHeld(i, n, j + 1, c2)
    BY <1>1, <1>2, <1>3, <2>1, <2>2, RestAdvances
  <2>6. QED BY <2>3, <2>4, <2>5
<1>7. Building(i, n, j + 1, c2, s)
  BY <1>1, <1>3, <1>4, <1>5, <1>6, BuildingNext
<1>8. QED BY <1>7 DEF c2

\* A line with VLAN names.
LEMMA VlanRead ==
  ASSUME NEW i, NEW n, NEW j, NEW c, NEW s, NEW l, Meets(i, n, j, c, s, l), l.val # <<>>,
         l.kind \in {"vlans", "number", "colon"}, ~s.inDesc, NEW s2 \in OwnState(i), s2.inVlans = TRUE,
         s2.vlans # <<>>, FlattenSeq(s2.vlans) = Append(FlattenSeq(s.vlans), l.val),
         s2.inDesc = s.inDesc, s2.desc = s.desc
  PROVE  Building(i, n, j + 1, c, s2)
<1> DEFINE d == DescSize(n)
           v == VlanSize(n)
           b == 6 + d
<1>1. /\ i \in Nat /\ n \in Lldp!Neighbor /\ j \in Nat /\ d \in Nat \ {0} /\ v \in Nat \ {0}
      /\ c \in OwnEntry(i) /\ s \in OwnState(i)
  BY MeetsFacts
<1>2. j \in (6 + d)..(5 + d + v) /\ n.vlans # <<>> /\ l.val = <<i, j - 5 - d>>
  <2>1. PlainLine(i, n, j, l) /\ ~Inner(i, n, j, l)
    BY MeetsFacts, NotInner
  <2> HIDE DEF Inner
  <2>2. CASE l.kind = "vlans"
    <3>1. j = 6 + d /\ n.vlans # <<>> /\ l.val = <<i, 1>>
      BY <2>1, <2>2 DEF PlainLine
    <3>2. d \in Nat \ {0} /\ v \in Nat \ {0}
      BY <1>1
    <3> HIDE DEF d, v
    <3>3. j - 5 - d = 1 /\ j \in (6 + d)..(5 + d + v)
      BY <3>1, <3>2
    <3>4. QED BY <3>1, <3>3
  <2>3. CASE l.kind \in {"number", "colon"}
    <3>1. j \in (7 + d)..(5 + d + v) /\ n.vlans # <<>> /\ l.val = <<i, j - 5 - d>>
      BY <2>1, <2>3 DEF PlainLine
    <3>2. d \in Nat \ {0} /\ v \in Nat \ {0}
      BY <1>1
    <3> HIDE DEF d, v
    <3>3. j \in (6 + d)..(5 + d + v)
      BY <3>1, <3>2
    <3>4. QED BY <3>1, <3>3
  <2>4. l.kind = "vlans" \/ l.kind \in {"number", "colon"}
    OBVIOUS
  <2>5. QED BY <2>2, <2>3, <2>4
<1>3. PICK x \in Nat : j = b + x
  <2>1. j - b \in Nat /\ j = b + (j - b)
    BY <1>1, <1>2
  <2>2. QED BY <2>1
<1>4. j - 5 - d = x + 1 /\ j \in b..(b + v) /\ j + 1 \in (b + 1)..(b + v) /\ j - b = x /\ (j + 1) - b = x + 1
      /\ ~(j > b + v) /\ ~(j + 1 > b + v) /\ j > 4 + d /\ j # 3 /\ j # 4 + d /\ j # 5 + d
      /\ j # 7 + d + v
  <2>1. b = 6 + d /\ b \in Nat /\ d \in Nat \ {0} /\ v \in Nat \ {0}
    BY <1>1
  <2> HIDE DEF b, d, v
  <2>2. j = b + x /\ j \in (6 + d)..(5 + d + v) /\ x \in Nat
    BY <1>2, <1>3
  <2>3. j = 6 + d + x /\ x < v
    BY <2>1, <2>2
  <2>4. j - 5 - d = x + 1 /\ j \in b..(b + v) /\ j + 1 \in (b + 1)..(b + v) /\ j - b = x /\ (j + 1) - b = x + 1
    BY <2>1, <2>2, <2>3
  <2>5. /\ ~(j > b + v) /\ ~(j + 1 > b + v) /\ j > 4 + d /\ j # 3 /\ j # 4 + d /\ j # 5 + d
        /\ j # 7 + d + v
    BY <2>1, <2>2, <2>3
  <2>6. QED BY <2>4, <2>5
<1>5. (s.inDesc => j \in 5..(4 + d)) /\ (s.inVlans => s.vlans # <<>>)
  BY MeetsFacts
<1>6. ~s2.inDesc
  OBVIOUS
<1>7. /\ DescHeld(i, n, j + 1, c, s2) /\ VlansHeld(i, n, j + 1, c, s2)
      /\ RestHeld(i, n, j + 1, c)
  <2>1. DescHeld(i, n, j, c, s) /\ VlansHeld(i, n, j, c, s) /\ RestHeld(i, n, j, c)
    BY MeetsFacts
  <2>2. FlattenSeq(s.vlans) = Lines(i, x) /\ FlattenSeq(c.vlans) = Lines(i, 0)
    <3>1. CASE x = 0
      <4>1. j \notin (b + 1)..(b + v)
        <5>1. b \in Nat /\ v \in Nat /\ j = b
          BY <1>1, <1>3, <3>1
        <5> HIDE DEF b, v
        <5>2. QED BY <5>1
      <4>2. QED BY <1>4, <2>1, <3>1, <4>1 DEF VlansHeld
    <3>2. CASE x # 0
      <4>1. j \in (b + 1)..(b + v)
        <5>1. b \in Nat /\ v \in Nat
          BY <1>1
        <5>2. j = b + x /\ j \in b..(b + v) /\ x > 0
          BY <1>3, <1>4, <3>2
        <5> HIDE DEF b, v
        <5>3. QED BY <5>1, <5>2
      <4>2. QED BY <1>2, <1>4, <2>1, <4>1 DEF VlansHeld
    <3>3. QED BY <3>1, <3>2
  <2>3. FlattenSeq(s2.vlans) = Lines(i, x + 1)
    <3>1. Lines(i, x + 1) = Append(Lines(i, x), <<i, x + 1>>)
      BY <1>1, LinesFacts
    <3>2. QED BY <1>2, <1>4, <2>2, <3>1
  <2>4. VlansHeld(i, n, j + 1, c, s2)
    BY <1>2, <1>4, <2>2, <2>3 DEF VlansHeld
  <2>5. DescHeld(i, n, j + 1, c, s2)
    BY <1>1, <1>4, <2>1, DescStays
  <2>6. RestHeld(i, n, j + 1, c)
    BY <1>1, <1>4, <2>1, RestAdvances
  <2>7. QED BY <2>4, <2>5, <2>6
<1>8. QED BY <1>1, <1>6, <1>7, BuildingNext

LEMMA VlanNamesRead ==
  ASSUME NEW i, NEW n, NEW j, NEW c, NEW s, NEW l, Meets(i, n, j, c, s, l), l.val # <<>>,
         l.kind = "vlans", ~s.inDesc
  PROVE  Building(i, n, j + 1, c, [s EXCEPT !.inVlans = TRUE, !.vlans = Append(@, <<l.val>>)])
<1> DEFINE X == ValuesOf(i)
           Y == Seq(X)
           w == Append(s.vlans, <<l.val>>)
           s2 == [s EXCEPT !.inVlans = TRUE, !.vlans = Append(@, <<l.val>>)]
<1>1. i \in Nat /\ s \in OwnState(i)
  BY MeetsFacts
<1>2. l.val \in X
  BY MeetsFacts
<1>3. s.vlans \in Seq(Seq(X))
  BY <1>1 DEF OwnState
<1> HIDE DEF X
<1>4. w \in Seq(Seq(X)) /\ w # <<>> /\ FlattenSeq(w) = Append(FlattenSeq(s.vlans), l.val)
  BY <1>2, <1>3, FlatAppend
<1>5. s \in [inDesc : BOOLEAN, desc : Y, inVlans : BOOLEAN, vlans : Seq(Y)]
  BY <1>1 DEF OwnState, X
<1> HIDE DEF w, Y
<1>6. /\ s2 \in [inDesc : BOOLEAN, desc : Y, inVlans : BOOLEAN, vlans : Seq(Y)] /\ s2.inVlans = TRUE
      /\ s2.vlans = w /\ s2.inDesc = s.inDesc /\ s2.desc = s.desc
  <2>1. s2 = [s EXCEPT !.inVlans = TRUE, !.vlans = w]
    BY <1>5 DEF w
  <2>2. w \in Seq(Y)
    BY <1>4 DEF Y
  <2> HIDE DEF s2
  <2>3. QED BY <1>5, <2>1, <2>2
<1>7. s2 \in OwnState(i)
  BY <1>6 DEF OwnState, X, Y
<1> HIDE DEF s2
<1>8. Building(i, n, j + 1, c, s2)
  BY <1>4, <1>6, <1>7, VlanRead
<1>9. QED BY <1>8 DEF s2

LEMMA MoreVlanNamesRead ==
  ASSUME NEW i, NEW n, NEW j, NEW c, NEW s, NEW l, Meets(i, n, j, c, s, l),
         l.kind \in {"number", "colon"}, s.inVlans, ~s.inDesc
  PROVE  Building(i, n, j + 1, c, [s EXCEPT !.vlans =
                                     IF l.kind = "number" THEN Append(@, <<l.val>>)
                                     ELSE [s.vlans EXCEPT ![Len(s.vlans)] = Append(@, l.val)]])
<1> DEFINE X == ValuesOf(i)
           Y == Seq(X)
           w == IF l.kind = "number" THEN Append(s.vlans, <<l.val>>)
                ELSE [s.vlans EXCEPT ![Len(s.vlans)] = Append(@, l.val)]
           s2 == [s EXCEPT !.vlans = IF l.kind = "number" THEN Append(@, <<l.val>>)
                                     ELSE [s.vlans EXCEPT ![Len(s.vlans)] = Append(@, l.val)]]
<1>1. i \in Nat /\ s \in OwnState(i) /\ DescSize(n) \in Nat
  BY MeetsFacts
<1>2. l.val \in X /\ l.val # <<>>
  <2>1. PlainLine(i, n, j, l) /\ ~Inner(i, n, j, l) /\ l.val \in X \cup {<<>>}
    BY MeetsFacts, NotInner
  <2> HIDE DEF Inner, X
  <2>2. l.val = <<i, j - 5 - DescSize(n)>>
    BY <2>1 DEF PlainLine
  <2>3. <<i, j - 5 - DescSize(n)>> # <<>>
    OBVIOUS
  <2>4. QED BY <2>1, <2>2, <2>3
<1>3. s.vlans \in Seq(Seq(X)) /\ s.vlans # <<>>
  BY <1>1 DEF OwnState, Meets, Building
<1>5. s \in [inDesc : BOOLEAN, desc : Y, inVlans : BOOLEAN, vlans : Seq(Y)]
  BY <1>1 DEF OwnState
<1> HIDE DEF X
<1>4. w \in Seq(Seq(X)) /\ w # <<>> /\ FlattenSeq(w) = Append(FlattenSeq(s.vlans), l.val)
  <2>1. CASE l.kind = "number"
    <3>1. w = Append(s.vlans, <<l.val>>)
      BY <2>1
    <3> HIDE DEF w
    <3> DEFINE z == s.vlans
    <3>2. z \in Seq(Seq(X)) /\ l.val \in X
      BY <1>2, <1>3
    <3> HIDE DEF z
    <3>3. /\ Append(z, <<l.val>>) \in Seq(Seq(X)) /\ Append(z, <<l.val>>) # <<>>
          /\ FlattenSeq(Append(z, <<l.val>>)) = Append(FlattenSeq(z), l.val)
      BY <3>2, FlatAppend
    <3>4. QED BY <3>1, <3>3 DEF z
  <2>2. CASE l.kind # "number"
    <3>1. w = [s.vlans EXCEPT ![Len(s.vlans)] = Append(@, l.val)]
      BY <2>2
    <3> HIDE DEF w
    <3> DEFINE z == s.vlans
    <3>2. z \in Seq(Seq(X)) /\ z # <<>>
      BY <1>3
    <3>3. w = [z EXCEPT ![Len(z)] = Append(@, l.val)]
      BY <3>1
    <3> HIDE DEF z
    <3>6. z \in Seq(Seq(X)) /\ z # <<>> /\ l.val \in X
      BY <1>2, <3>2
    <3> DEFINE y == [z EXCEPT ![Len(z)] = Append(@, l.val)]
    <3>7. y \in Seq(Seq(X)) /\ y # <<>> /\ FlattenSeq(y) = Append(FlattenSeq(z), l.val)
      BY <3>6, FlatExtend
    <3>4. w \in Seq(Seq(X)) /\ w # <<>> /\ FlattenSeq(w) = Append(FlattenSeq(z), l.val)
      BY <3>3, <3>7
    <3>5. QED BY <3>4 DEF z
  <2>3. QED BY <2>1, <2>2
<1>6. s2 = [s EXCEPT !.vlans = w]
  BY <1>5
<1> HIDE DEF w, Y, s2
<1>7. /\ s2 \in [inDesc : BOOLEAN, desc : Y, inVlans : BOOLEAN, vlans : Seq(Y)] /\ s2.inVlans = TRUE
      /\ s2.vlans = w /\ s2.inDesc = s.inDesc /\ s2.desc = s.desc
  <2>1. w \in Seq(Y)
    BY <1>4 DEF Y
  <2>2. QED BY <1>5, <1>6, <2>1
<1>8. s2 \in OwnState(i)
  BY <1>7 DEF OwnState, X, Y
<1>9. Building(i, n, j + 1, c, s2)
  BY <1>2, <1>4, <1>7, <1>8, VlanRead
<1>10. QED BY <1>9 DEF s2

\* The link aggregation ends the VLAN names and stores them.
LEMMA LinkAggregationRead ==
  ASSUME NEW i, NEW n, NEW j, NEW c, NEW s, NEW l, Meets(i, n, j, c, s, l), l.kind = "linkAgg",
         s.inVlans, ~s.inDesc
  PROVE  Building(i, n, j + 1, [c EXCEPT !.vlans = s.vlans],
                  [s EXCEPT !.inVlans = FALSE, !.vlans = <<>>])
<1> DEFINE d == DescSize(n)
           v == VlanSize(n)
           b == 6 + d
           c2 == [c EXCEPT !.vlans = s.vlans]
           s2 == [s EXCEPT !.inVlans = FALSE, !.vlans = <<>>]
           X == Seq(ValuesOf(i))
           Y == Seq(X)
<1>1. /\ i \in Nat /\ n \in Lldp!Neighbor /\ j \in Nat /\ d \in Nat \ {0} /\ v \in Nat \ {0}
      /\ c \in OwnEntry(i) /\ s \in OwnState(i)
  BY MeetsFacts
<1>2. j = 6 + d + v
  <2>1. PlainLine(i, n, j, l) /\ ~Inner(i, n, j, l)
    BY MeetsFacts, NotInner
  <2> HIDE DEF Inner
  <2>2. QED BY <2>1 DEF PlainLine
<1>3. s \in [inDesc : BOOLEAN, desc : X, inVlans : BOOLEAN, vlans : Y] /\ <<>> \in Y
  BY <1>1 DEF OwnState
<1>4. /\ c2 \in OwnEntry(i) /\ c2.vlans = s.vlans /\ c2.desc = c.desc /\ c2.name = c.name
      /\ c2.time = c.time /\ c2.late = c.late /\ c2.agg = c.agg /\ c2.chassis = c.chassis
  <2>1. s.vlans \in Seq(Seq(ValuesOf(i))) /\ <<>> \in ValuesOf(i) \cup {<<>>}
    BY <1>3
  <2>2. c2 \in OwnEntry(i)
    BY <1>1, <2>1, EntryFields
  <2>3. QED BY <1>1, <2>1, <2>2 DEF OwnEntry
<1> HIDE DEF X, Y
<1>5. /\ s2 \in OwnState(i) /\ s2.inVlans = FALSE /\ s2.vlans = <<>> /\ s2.inDesc = s.inDesc
      /\ s2.desc = s.desc
  <2>1. /\ s2 \in [inDesc : BOOLEAN, desc : X, inVlans : BOOLEAN, vlans : Y] /\ s2.inVlans = FALSE
        /\ s2.vlans = <<>> /\ s2.inDesc = s.inDesc /\ s2.desc = s.desc
    BY <1>3
  <2>2. QED BY <2>1 DEF OwnState, X, Y
<1> HIDE DEF c2, s2
<1>6. s.inDesc => j \in 5..(4 + d)
  BY MeetsFacts
<1>7. ~s2.inDesc
  <2>1. j \notin 5..(4 + d)
    BY <1>1, <1>2
  <2>2. QED BY <1>5, <1>6, <2>1
<1>8. /\ DescHeld(i, n, j + 1, c2, s2) /\ VlansHeld(i, n, j + 1, c2, s2)
      /\ RestHeld(i, n, j + 1, c2)
  <2>1. DescHeld(i, n, j, c, s) /\ VlansHeld(i, n, j, c, s) /\ RestHeld(i, n, j, c)
    BY MeetsFacts
  <2>2. /\ j > 4 + d /\ j # 3 /\ j # 4 + d /\ j # 5 + d /\ j # 7 + d + v
        /\ j = b + v /\ j - b = v /\ j + 1 > b + v /\ j + 1 \notin (b + 1)..(b + v)
    BY <1>1, <1>2
  <2>3. n.vlans # <<>> /\ j \in (b + 1)..(b + v)
    BY <1>1, <2>1, <2>2 DEF VlansHeld
  <2>4. v = Len(n.vlans)
    BY <1>1, <2>3, NeighborTypes
  <2>5. FlattenSeq(c2.vlans) = Lines(i, Len(n.vlans))
    BY <1>4, <2>1, <2>2, <2>3, <2>4 DEF VlansHeld
  <2>6. FlattenSeq(s2.vlans) = Lines(i, 0)
    BY <1>1, <1>5, NoParts, LinesFacts
  <2>7. VlansHeld(i, n, j + 1, c2, s2)
    BY <1>5, <2>2, <2>5, <2>6 DEF VlansHeld
  <2>8. DescHeld(i, n, j + 1, c2, s2)
    BY <1>1, <1>4, <1>5, <2>1, <2>2, DescStays
  <2>9. RestHeld(i, n, j + 1, c2)
    BY <1>1, <1>4, <2>1, <2>2, RestAdvances
  <2>10. QED BY <2>7, <2>8, <2>9
<1>9. Building(i, n, j + 1, c2, s2)
  BY <1>1, <1>4, <1>5, <1>7, <1>8, BuildingNext
<1>10. QED BY <1>9 DEF c2, s2

\* A line that says nothing, or is not understood.
LEMMA NothingRead ==
  ASSUME NEW i, NEW n, NEW j, NEW c, NEW s, NEW l, Meets(i, n, j, c, s, l),
         \/ l.kind = "desc" /\ l.val = <<>>
         \/ l.kind = "vlans" /\ l.val = <<>> /\ ~s.inDesc
         \/ l.kind = "linkAgg" /\ ~s.inVlans /\ ~s.inDesc
  PROVE  Building(i, n, j + 1, c, s)
<1> DEFINE d == DescSize(n)
           v == VlanSize(n)
           b == 6 + d
<1>1. /\ i \in Nat /\ n \in Lldp!Neighbor /\ j \in Nat /\ d \in Nat \ {0} /\ v \in Nat \ {0}
      /\ c \in OwnEntry(i) /\ s \in OwnState(i)
  BY MeetsFacts
<1>2. (s.inDesc => j \in 5..(4 + d)) /\ (s.inVlans => s.vlans # <<>>) /\ PlainLine(i, n, j, l)
  BY MeetsFacts
<1>3. DescHeld(i, n, j, c, s) /\ VlansHeld(i, n, j, c, s) /\ RestHeld(i, n, j, c)
  BY MeetsFacts
<1>4. CASE l.kind = "desc" /\ l.val = <<>>
  <2>1. n.desc = <<>> /\ j \in 4..(3 + d)
    BY <1>2, <1>4 DEF PlainLine
  <2>2. j = 4 /\ d = 1
    BY <1>1, <2>1 DEF DescSize
  <2>3. ~s.inDesc
    BY <1>2, <2>2
  <2>4. j < b /\ j # 3 /\ j # 4 + d /\ j # 5 + d /\ j # 7 + d + v
    BY <1>1, <2>2
  <2>5. DescHeld(i, n, j + 1, c, s) /\ VlansHeld(i, n, j + 1, c, s) /\ RestHeld(i, n, j + 1, c)
    BY <1>1, <1>3, <2>1, <2>4, DescStays, VlansStay, RestAdvances
  <2>6. QED BY <1>1, <1>2, <2>3, <2>5, BuildingNext
<1>5. CASE l.kind = "vlans" /\ l.val = <<>> /\ ~s.inDesc
  <2>1. n.vlans = <<>> /\ j = 6 + d
    <3>1. ~Inner(i, n, j, l) /\ <<i, 1>> # <<>>
      BY <1>5, NotInner
    <3> HIDE DEF Inner
    <3>2. QED BY <1>2, <1>5, <3>1 DEF PlainLine
  <2>2. j > 4 + d /\ j # 3 /\ j # 4 + d /\ j # 5 + d /\ j # 7 + d + v /\ j \notin 5..(4 + d)
    BY <1>1, <2>1
  <2>3. DescHeld(i, n, j + 1, c, s) /\ VlansHeld(i, n, j + 1, c, s) /\ RestHeld(i, n, j + 1, c)
    BY <1>1, <1>3, <2>1, <2>2, DescStays, VlansStay, RestAdvances
  <2>4. QED BY <1>1, <1>2, <1>5, <2>3, BuildingNext
<1>6. CASE l.kind = "linkAgg" /\ ~s.inVlans /\ ~s.inDesc
  <2>1. j = 6 + d + v
    <3>1. ~Inner(i, n, j, l)
      BY <1>6, NotInner
    <3> HIDE DEF Inner
    <3>2. QED BY <1>2, <1>6, <3>1 DEF PlainLine
  <2>2. j > 4 + d /\ j # 3 /\ j # 4 + d /\ j # 5 + d /\ j # 7 + d + v /\ j \notin 5..(4 + d)
        /\ j \in (b + 1)..(b + v)
    BY <1>1, <2>1
  <2>3. n.vlans = <<>>
    BY <1>3, <1>6, <2>2 DEF VlansHeld
  <2>4. DescHeld(i, n, j + 1, c, s) /\ VlansHeld(i, n, j + 1, c, s) /\ RestHeld(i, n, j + 1, c)
    BY <1>1, <1>3, <2>2, <2>3, DescStays, VlansStay, RestAdvances
  <2>5. QED BY <1>1, <1>2, <1>6, <2>4, BuildingNext
<1>7. QED BY <1>4, <1>5, <1>6

\* Outside of the description there are no other lines.
LEMMA NothingLost ==
  ASSUME NEW i, NEW n, NEW j, NEW c, NEW s, NEW l, Meets(i, n, j, c, s, l), ~s.inDesc
  PROVE  /\ l.kind \notin {"text", "aggId", "command"}
         /\ ~s.inVlans => l.kind \notin {"number", "colon"}
<1> DEFINE d == DescSize(n)
           v == VlanSize(n)
           b == 6 + d
<1>1. /\ PlainLine(i, n, j, l) /\ ~Inner(i, n, j, l) /\ VlansHeld(i, n, j, c, s)
      /\ d \in Nat /\ v \in Nat
  BY MeetsFacts, NotInner
<1> HIDE DEF Inner
<1>2. /\ l.kind \notin {"text", "aggId", "command"}
      /\ l.kind \in {"number", "colon"} => n.vlans # <<>> /\ j \in (7 + d)..(5 + d + v)
  BY <1>1 DEF PlainLine
<1>3. j \in (7 + d)..(5 + d + v) => j \in (b + 1)..(b + v)
  BY <1>1
<1>4. j \in (b + 1)..(b + v) /\ n.vlans # <<>> => s.inVlans
  BY <1>1 DEF VlansHeld
<1>5. QED BY <1>2, <1>3, <1>4

-----------------------------------------------------------------------------
(* LldpText: reading a line of a neighbor whose description is not plain.  *)

MeetsOther(i, n, j, c, s, l) ==
  /\ i \in Nat /\ n \in Lldp!Neighbor /\ j \in 3..BlockSize(n)
  /\ Building(i, n, j, c, s) /\ LineOf(i, n, j, l) /\ ~Plain(n)

LEMMA OtherFacts ==
  ASSUME NEW i, NEW n, NEW j, NEW c, NEW s, NEW l, MeetsOther(i, n, j, c, s, l)
  PROVE  /\ i \in Nat /\ n \in Lldp!Neighbor /\ ~Plain(n)
         /\ c \in OwnEntry(i) /\ Begun(i, n, c.chassis) /\ s \in OwnState(i)
         /\ l.val \in ValuesOf(i) \cup {<<>>}
         /\ l.kind = "chassis" => Begun(i, n, l.val) /\ l.val # <<i>>
         /\ s.inDesc /\ l.kind \notin {"blank", "name", "desc"} => l.val # <<>>
         /\ l.kind \in {"number", "colon", "aggId"} => l.val # <<>>
         /\ s.inDesc /\ l.kind # "time" => j + 1 \in 5..(4 + DescSize(n))
         /\ l.kind = "desc" => j + 1 \in 5..(4 + DescSize(n))
         /\ s.inVlans => s.vlans # <<>>
         /\ j \in Nat /\ j + 1 \in 3..(BlockSize(n) + 1)
<1> DEFINE d == DescSize(n)
<1>1. /\ n \in Lldp!Neighbor /\ i \in Nat /\ j \in 3..BlockSize(n) /\ Building(i, n, j, c, s)
      /\ LineOf(i, n, j, l) /\ ~Plain(n)
  BY DEF MeetsOther
<1>2. d \in Nat \ {0} /\ VlanSize(n) \in Nat \ {0}
  BY <1>1, NeighborTypes
<1>3. /\ c \in OwnEntry(i) /\ Begun(i, n, c.chassis) /\ s \in OwnState(i)
      /\ s.inDesc => j \in 5..(4 + d)
      /\ s.inVlans => s.vlans # <<>>
  BY <1>1 DEF Building
<1>4. BlockSize(n) = 7 + d + VlanSize(n)
  BY DEF BlockSize
<1>5. /\ j = 4 + d => l.kind = "time"
      /\ l.val \in ValuesOf(i) \cup {<<>>}
      /\ l.val = <<>> => \/ l.kind \in {"blank", "name", "desc"}
                         \/ l.kind \in {"vlans", "linkAgg"} /\ j > 4 + d
      /\ l.kind = "chassis" => Begun(i, n, l.val) /\ (j > 2 => l.val # <<i>>)
      /\ l.kind = "desc" => j \in 4..(3 + d)
  BY <1>1 DEF LineOf
<1> HIDE DEF d
<1>6. j \in Nat /\ j > 2 /\ j + 1 \in 3..(BlockSize(n) + 1)
  BY <1>1, <1>2, <1>4
<1>7. j \in 5..(4 + d) => ~(j > 4 + d)
  BY <1>2
<1>8. j \in 5..(4 + d) /\ j # 4 + d => j + 1 \in 5..(4 + d)
  BY <1>2
<1>9. j \in 4..(3 + d) => j + 1 \in 5..(4 + d)
  BY <1>2
<1>10. QED BY <1>1, <1>3, <1>5, <1>6, <1>7, <1>8, <1>9 DEF d

LEMMA OtherNext ==
  ASSUME NEW i, NEW n, NEW j, NEW c, NEW s, NEW l, MeetsOther(i, n, j, c, s, l),
         NEW c2 \in OwnEntry(i), c2.chassis = c.chassis \/ (l.kind = "chassis" /\ c2.chassis = l.val),
         NEW s2 \in OwnState(i),
         s2.inDesc => ((s.inDesc /\ l.kind # "time") \/ l.kind = "desc"),
         s2.inVlans => s2.vlans # <<>>
  PROVE  Building(i, n, j + 1, c2, s2)
<1>1. /\ ~Plain(n) /\ Begun(i, n, c.chassis) /\ (l.kind = "chassis" => Begun(i, n, l.val))
      /\ s.inDesc /\ l.kind # "time" => j + 1 \in 5..(4 + DescSize(n))
      /\ l.kind = "desc" => j + 1 \in 5..(4 + DescSize(n))
      /\ j + 1 \in 3..(BlockSize(n) + 1)
  BY OtherFacts
<1>2. Begun(i, n, c2.chassis)
  BY <1>1
<1>3. s2.inDesc => j + 1 \in 5..(4 + DescSize(n))
  BY <1>1
<1>4. QED BY <1>1, <1>2, <1>3 DEF Building

\* What the loop may remember after a line.
DescBegun(s, x) == [s EXCEPT !.inDesc = TRUE, !.desc = Append(@, x)]
DescMore(s, x) == [s EXCEPT !.desc = Append(@, x)]
VlansBegun(s, x) == [s EXCEPT !.inVlans = TRUE, !.vlans = Append(@, <<x>>)]
VlansMore(s, x) == [s EXCEPT !.vlans = Append(@, <<x>>)]
VlansLonger(s, x) == [s EXCEPT !.vlans = [s.vlans EXCEPT ![Len(s.vlans)] = Append(@, x)]]

LEMMA MemoryFields ==
  ASSUME NEW i, NEW s \in OwnState(i), NEW x \in ValuesOf(i)
  PROVE  /\ LET z == DescBegun(s, x)
            IN  z \in OwnState(i) /\ z.inVlans = s.inVlans /\ z.vlans = s.vlans
         /\ LET z == DescMore(s, x)
            IN  z \in OwnState(i) /\ z.inDesc = s.inDesc /\ z.inVlans = s.inVlans /\ z.vlans = s.vlans
         /\ LET z == VlansBegun(s, x)
            IN  z \in OwnState(i) /\ z.inDesc = s.inDesc /\ z.vlans # <<>>
         /\ LET z == VlansMore(s, x)
            IN  z \in OwnState(i) /\ z.inDesc = s.inDesc /\ z.vlans # <<>>
         /\ s.vlans # <<>> =>
              LET z == VlansLonger(s, x)
              IN  z \in OwnState(i) /\ z.inDesc = s.inDesc /\ z.vlans # <<>>
<1> DEFINE V == ValuesOf(i)
           X == Seq(V)
           Y == Seq(X)
           w == Append(s.desc, x)
           a == Append(s.vlans, <<x>>)
           b == [s.vlans EXCEPT ![Len(s.vlans)] = Append(@, x)]
<1>1. s \in [inDesc : BOOLEAN, desc : X, inVlans : BOOLEAN, vlans : Y] /\ x \in V
  BY DEF OwnState
<1>2. s.desc \in Seq(V) /\ s.vlans \in Seq(Seq(V))
  BY <1>1
<1> HIDE DEF V
<1>3. w \in X
  BY <1>1, <1>2, AppendElements
<1>4. a \in Y /\ a # <<>>
  BY <1>1, <1>2, FlatAppend
<1>5. ASSUME s.vlans # <<>> PROVE b \in Y /\ b # <<>>
  <2> DEFINE z == s.vlans
  <2>1. z \in Seq(Seq(V)) /\ z # <<>> /\ b = [z EXCEPT ![Len(z)] = Append(@, x)]
    BY <1>2, <1>5
  <2> HIDE DEF z, b
  <2>2. LET y == [z EXCEPT ![Len(z)] = Append(@, x)] IN y \in Seq(Seq(V)) /\ y # <<>>
    BY <1>1, <2>1, FlatExtend
  <2>3. QED BY <2>1, <2>2
<1> HIDE DEF X, Y
<1>6. LET z == [s EXCEPT !.inDesc = TRUE, !.desc = Append(@, x)]
      IN  z \in [inDesc : BOOLEAN, desc : X, inVlans : BOOLEAN, vlans : Y]
          /\ z.inVlans = s.inVlans /\ z.vlans = s.vlans
  <2>1. [s EXCEPT !.inDesc = TRUE, !.desc = Append(@, x)] = [s EXCEPT !.inDesc = TRUE, !.desc = w]
    BY <1>1
  <2> HIDE DEF w
  <2>2. QED BY <1>1, <1>3, <2>1
<1>7. LET z == [s EXCEPT !.desc = Append(@, x)]
      IN  z \in [inDesc : BOOLEAN, desc : X, inVlans : BOOLEAN, vlans : Y]
          /\ z.inDesc = s.inDesc /\ z.inVlans = s.inVlans /\ z.vlans = s.vlans
  <2>1. [s EXCEPT !.desc = Append(@, x)] = [s EXCEPT !.desc = w]
    BY <1>1
  <2> HIDE DEF w
  <2>2. QED BY <1>1, <1>3, <2>1
<1>8. LET z == [s EXCEPT !.inVlans = TRUE, !.vlans = Append(@, <<x>>)]
      IN  z \in [inDesc : BOOLEAN, desc : X, inVlans : BOOLEAN, vlans : Y]
          /\ z.inDesc = s.inDesc /\ z.vlans # <<>>
  <2>1. [s EXCEPT !.inVlans = TRUE, !.vlans = Append(@, <<x>>)] = [s EXCEPT !.inVlans = TRUE, !.vlans = a]
    BY <1>1
  <2> HIDE DEF a
  <2>2. QED BY <1>1, <1>4, <2>1
<1>9. LET z == [s EXCEPT !.vlans = Append(@, <<x>>)]
      IN  z \in [inDesc : BOOLEAN, desc : X, inVlans : BOOLEAN, vlans : Y]
          /\ z.inDesc = s.inDesc /\ z.vlans # <<>>
  <2>1. [s EXCEPT !.vlans = Append(@, <<x>>)] = [s EXCEPT !.vlans = a]
    BY <1>1
  <2> HIDE DEF a
  <2>2. QED BY <1>1, <1>4, <2>1
<1>10. ASSUME s.vlans # <<>>
       PROVE  LET z == [s EXCEPT !.vlans = b]
              IN  z \in [inDesc : BOOLEAN, desc : X, inVlans : BOOLEAN, vlans : Y]
                  /\ z.inDesc = s.inDesc /\ z.vlans # <<>>
  <2>1. b \in Y /\ b # <<>>
    BY <1>5, <1>10
  <2> HIDE DEF b
  <2>2. QED BY <1>1, <2>1
<1>11. QED BY <1>6, <1>7, <1>8, <1>9, <1>10
           DEF OwnState, V, X, Y, DescBegun, DescMore, VlansBegun, VlansMore, VlansLonger

LEMMA MemoryResets ==
  ASSUME NEW i, NEW s \in OwnState(i)
  PROVE  /\ LET z == [s EXCEPT !.inDesc = FALSE, !.desc = <<>>]
            IN  z \in OwnState(i) /\ ~z.inDesc /\ z.inVlans = s.inVlans /\ z.vlans = s.vlans
         /\ LET z == [s EXCEPT !.inVlans = FALSE, !.vlans = <<>>]
            IN  z \in OwnState(i) /\ ~z.inVlans /\ z.inDesc = s.inDesc
         /\ Lldp!Fresh \in OwnState(i) /\ ~Lldp!Fresh.inDesc /\ ~Lldp!Fresh.inVlans
<1> DEFINE X == Seq(ValuesOf(i))
           Y == Seq(X)
<1>1. s \in [inDesc : BOOLEAN, desc : X, inVlans : BOOLEAN, vlans : Y] /\ <<>> \in X /\ <<>> \in Y
  BY DEF OwnState
<1>2. Lldp!Fresh \in OwnState(i) /\ ~Lldp!Fresh.inDesc /\ ~Lldp!Fresh.inVlans
  BY DEF Lldp!Fresh, OwnState
<1> HIDE DEF X, Y
<1>3. LET z == [s EXCEPT !.inDesc = FALSE, !.desc = <<>>]
      IN  z \in [inDesc : BOOLEAN, desc : X, inVlans : BOOLEAN, vlans : Y]
          /\ z.inDesc = FALSE /\ z.inVlans = s.inVlans /\ z.vlans = s.vlans
  BY <1>1
<1>4. LET z == [s EXCEPT !.inVlans = FALSE, !.vlans = <<>>]
      IN  z \in [inDesc : BOOLEAN, desc : X, inVlans : BOOLEAN, vlans : Y]
          /\ z.inVlans = FALSE /\ z.inDesc = s.inDesc
  BY <1>1
<1>5. QED BY <1>2, <1>3, <1>4 DEF OwnState, X, Y

-----------------------------------------------------------------------------
(* LldpText: the first and the last line of a neighbor, its entry.         *)

\* The chassis id begins a neighbor.
LEMMA NewEntries ==
  ASSUME NEW i, NEW v \in ValuesOf(i)
  PROVE  LET c == Lldp!NewNeighbor(v)
         IN  c \in OwnEntry(i) /\ c.desc = <<>> /\ c.vlans = <<>> /\ c.chassis = v
<1> DEFINE V == ValuesOf(i)
           F == V \cup {<<>>}
           X == Seq(V)
           Y == Seq(X)
<1>1. <<>> \in X /\ <<>> \in Y /\ <<>> \in F /\ v \in V
  OBVIOUS
<1> HIDE DEF V, F, X, Y
<1>2. LET c == Lldp!NewNeighbor(v)
      IN  /\ c \in [chassis : V, name : F, desc : X, time : F, late : F, vlans : Y, agg : F]
          /\ c.desc = <<>> /\ c.vlans = <<>> /\ c.chassis = v
  BY <1>1 DEF Lldp!NewNeighbor, Lldp!Empty
<1>3. QED BY <1>2 DEF OwnEntry, V, F, X, Y

LEMMA ChassisRead ==
  ASSUME NEW i \in Nat, NEW n \in Lldp!Neighbor
  PROVE  Building(i, n, 3, Lldp!NewNeighbor(<<i>>), Lldp!Fresh)
<1> DEFINE d == DescSize(n)
           v == VlanSize(n)
           c == Lldp!NewNeighbor(<<i>>)
           s == Lldp!Fresh
<1>1. d \in Nat \ {0} /\ v \in Nat \ {0} /\ BlockSize(n) = 7 + d + v
  BY NeighborTypes DEF BlockSize
<1>2. s \in OwnState(i) /\ ~s.inDesc /\ ~s.inVlans /\ s.desc = <<>> /\ s.vlans = <<>>
  BY DEF Lldp!Fresh, OwnState
<1>3. c \in OwnEntry(i) /\ c.desc = <<>> /\ c.vlans = <<>> /\ Begun(i, n, c.chassis)
  <2>1. <<i>> \in ValuesOf(i)
    BY DEF ValuesOf, Val
  <2>2. c \in OwnEntry(i) /\ c.desc = <<>> /\ c.vlans = <<>> /\ c.chassis = <<i>>
    BY <2>1, NewEntries
  <2>3. QED BY <2>2 DEF Begun
<1>4. Lines(i, 0) = <<>> /\ FlattenSeq(<<>>) = <<>>
  BY NoParts, LinesFacts
<1> HIDE DEF c, s
<1>5. /\ 3 \in 3..(BlockSize(n) + 1) /\ 3 \notin 5..(4 + d) /\ 3 \notin (6 + d + 1)..(6 + d + v)
      /\ ~(3 > 4 + d) /\ ~(3 > 6 + d + v) /\ ~(3 > 5 + d) /\ ~(3 > 7 + d + v)
  BY <1>1
<1>6. DescHeld(i, n, 3, c, s)
  BY <1>2, <1>3, <1>4, <1>5 DEF DescHeld
<1>7. VlansHeld(i, n, 3, c, s)
  BY <1>2, <1>3, <1>4, <1>5 DEF VlansHeld
<1>8. RestHeld(i, n, 3, c)
  BY <1>5 DEF RestHeld
<1>9. Building(i, n, 3, c, s)
  BY <1>2, <1>3, <1>5, <1>6, <1>7, <1>8 DEF Building
<1>10. QED BY <1>9 DEF c, s

\* After its last line a neighbor is complete.
LEMMA AllRead ==
  ASSUME NEW i \in Nat, NEW n \in Lldp!Neighbor, NEW c, NEW s,
         Building(i, n, BlockSize(n) + 1, c, s)
  PROVE  Right(i, n, c) /\ ~s.inDesc
<1> DEFINE d == DescSize(n)
           v == VlanSize(n)
           j == BlockSize(n) + 1
<1>1. d \in Nat \ {0} /\ v \in Nat \ {0} /\ j = 8 + d + v
  BY NeighborTypes DEF BlockSize
<1> HIDE DEF j
<1>2. Building(i, n, j, c, s)
  BY DEF j
<1>3. /\ j \notin 5..(4 + d) /\ j > 4 + d /\ j > 6 + d + v /\ j > 5 + d /\ j > 7 + d + v /\ j > 3
  BY <1>1
<1>4. c \in OwnEntry(i) /\ Begun(i, n, c.chassis) /\ ~s.inDesc
  BY <1>2, <1>3 DEF Building
<1>5. ASSUME Plain(n) PROVE Full(i, n, c)
  <2>1. DescHeld(i, n, j, c, s) /\ VlansHeld(i, n, j, c, s) /\ RestHeld(i, n, j, c)
    BY <1>2, <1>5 DEF Building
  <2>2. c.desc = Lines(i, Len(n.desc))
    BY <1>3, <2>1 DEF DescHeld
  <2>3. FlattenSeq(c.vlans) = Lines(i, Len(n.vlans))
    BY <1>3, <2>1 DEF VlansHeld
  <2>4. QED BY <1>3, <2>1, <2>2, <2>3 DEF RestHeld, Full
<1>6. QED BY <1>4, <1>5 DEF Right

LEMMA NotNil ==
  ASSUME NEW i, NEW e \in OwnEntry(i)
  PROVE  e # Lldp!Nil
<1>1. "chassis" \in DOMAIN e
  BY DEF OwnEntry
<1>2. DOMAIN Lldp!Nil = {"kind"}
  BY DEF Lldp!Nil
<1>3. QED BY <1>1, <1>2

LEMMA RightOwner ==
  ASSUME NEW k, NEW n, NEW e, Right(k, n, e)
  PROVE  e.chassis[1] = k /\ (e.chassis = <<k>> \/ Len(e.chassis) = 2)
<1>1. e \in OwnEntry(k) /\ Begun(k, n, e.chassis)
  BY DEF Right
<1>2. e.chassis \in ValuesOf(k)
  BY <1>1 DEF OwnEntry
<1>3. e.chassis[1] = k
  BY <1>2 DEF ValuesOf
<1>4. e.chassis = <<k>> \/ Len(e.chassis) = 2
  <2>1. \A x : Len(<<k, x>>) = 2
    OBVIOUS
  <2>2. QED BY <1>1, <2>1 DEF Begun
<1>5. QED BY <1>3, <1>4

\* One more entry.
LEMMA SavedMore ==
  ASSUME NEW ps, NEW k \in Nat \ {0}, NEW o \in Seq(LldpEntry), NEW e, Right(k, ps[k], e),
         Saved(ps, IF e.chassis = <<k>> THEN k - 1 ELSE k, o)
  PROVE  Append(o, e) \in Seq(LldpEntry) /\ Saved(ps, k, Append(o, e))
<1> DEFINE E == LldpEntry
           n == Len(o)
           z == Append(o, e)
           m == IF e.chassis = <<k>> THEN k - 1 ELSE k
<1>1. e \in E
  BY DEF Right, LldpEntry
<1>2. /\ o \in Seq(E) /\ DOMAIN o = 1..n /\ n \in Nat
      /\ \A x \in 1..n : \E h \in 1..m : Right(h, ps[h], o[x])
      /\ \A x, y \in 1..n : x < y => Ordered(o[x], o[y])
      /\ \A h \in 1..m : \E x \in 1..n : o[x].chassis = <<h>>
  <2>1. DOMAIN o = 1..n /\ n \in Nat /\ Saved(ps, m, o)
    OBVIOUS
  <2> HIDE DEF m
  <2>2. QED BY <2>1 DEF Saved
<1>3. e.chassis[1] = k /\ (e.chassis = <<k>> \/ Len(e.chassis) = 2)
  BY RightOwner
<1>4. /\ m \in Nat /\ m <= k
      /\ e.chassis = <<k>> => m = k - 1
      /\ e.chassis # <<k>> => m = k
  OBVIOUS
<1> HIDE DEF E, n, m
<1>5. /\ z \in Seq(E) /\ DOMAIN z = 1..(n + 1) /\ z[n + 1] = e
      /\ \A x \in 1..n : z[x] = o[x]
  <2>1. /\ Append(o, e) \in Seq(E) /\ Len(Append(o, e)) = Len(o) + 1
        /\ \A x \in 1..Len(o) : Append(o, e)[x] = o[x]
        /\ Append(o, e)[Len(o) + 1] = e
    BY <1>1, <1>2, AppendElements
  <2> HIDE DEF z
  <2>2. z \in Seq(E) /\ Len(z) = n + 1 => DOMAIN z = 1..(n + 1)
    OBVIOUS
  <2>3. QED BY <2>1, <2>2 DEF n, z
<1> HIDE DEF z
<1>6. ASSUME NEW x \in 1..(n + 1) PROVE x \in 1..n \/ x = n + 1
  BY <1>2
<1>7. ASSUME NEW x \in 1..(n + 1) PROVE \E h \in 1..k : Right(h, ps[h], z[x])
  <2>1. CASE x \in 1..n
    <3>1. PICK h \in 1..m : Right(h, ps[h], o[x])
      BY <1>2, <2>1
    <3>2. h \in 1..k
      BY <1>4
    <3>3. QED BY <1>5, <2>1, <3>1, <3>2
  <2>2. CASE x = n + 1
    <3>1. k \in 1..k
      OBVIOUS
    <3>2. QED BY <1>5, <2>2, <3>1
  <2>3. QED BY <1>6, <2>1, <2>2
<1>8. ASSUME NEW x \in 1..(n + 1), NEW y \in 1..(n + 1), x < y PROVE Ordered(z[x], z[y])
  <2>1. x \in 1..n
    BY <1>2, <1>8
  <2>2. CASE y \in 1..n
    BY <1>2, <1>5, <1>8, <2>1, <2>2
  <2>3. CASE y = n + 1
    <3>1. PICK h \in 1..m : Right(h, ps[h], o[x])
      BY <1>2, <2>1
    <3>2. z[x].chassis[1] = h /\ z[y] = e
      BY <1>5, <2>1, <2>3, <3>1, RightOwner
    <3>3. CASE e.chassis = <<k>>
      <4>1. h < k
        BY <1>4, <3>3
      <4>2. QED BY <1>3, <3>2, <4>1 DEF Ordered
    <3>4. CASE e.chassis # <<k>>
      <4>1. h < k \/ h = k
        BY <1>4
      <4>2. QED BY <1>3, <3>2, <3>4, <4>1 DEF Ordered
    <3>5. QED BY <3>3, <3>4
  <2>4. QED BY <1>6, <2>2, <2>3
<1>9. ASSUME NEW h \in 1..k PROVE \E x \in 1..(n + 1) : z[x].chassis = <<h>>
  <2>1. CASE h \in 1..m
    <3>1. PICK x \in 1..n : o[x].chassis = <<h>>
      BY <1>2, <2>1
    <3>2. x \in 1..(n + 1)
      BY <1>2
    <3>3. QED BY <1>5, <3>1, <3>2
  <2>2. CASE h \notin 1..m
    <3>1. e.chassis = <<k>> /\ h = k
      BY <1>4, <2>2
    <3>2. n + 1 \in 1..(n + 1)
      BY <1>2
    <3>3. QED BY <1>5, <3>1, <3>2
  <2>3. QED BY <2>1, <2>2
<1>10. Saved(ps, k, z)
  BY <1>5, <1>7, <1>8, <1>9 DEF Saved
<1>11. QED BY <1>5, <1>10 DEF E, z

-----------------------------------------------------------------------------
(* LldpText: the text as blocks.                                           *)

LEMMA LldpLines ==
  ASSUME NEW ps \in Seq(Lldp!Neighbor), NEW end \in LldpEnds
  PROVE  LET bs == LldpBlocks(ps, end)
         IN  /\ Blocks(bs, LldpLine) /\ Len(bs) = Len(ps) + 1 /\ bs # <<>>
             /\ \A i \in 1..Len(ps) :
                  /\ bs[i] = Lldp!Printout(i, ps[i]) /\ Len(bs[i]) = BlockSize(ps[i])
                  /\ \A j \in 1..BlockSize(ps[i]) : LineOf(i, ps[i], j, bs[i][j])
             /\ bs[Len(ps) + 1] = end
<1> DEFINE n == Len(ps)
           X == Seq(LldpLine)
           f == [i \in DOMAIN ps |-> Lldp!Printout(i, ps[i])]
           bs == LldpBlocks(ps, end)
<1>1. n \in Nat /\ DOMAIN ps = 1..n /\ \A i \in 1..n : ps[i] \in Lldp!Neighbor /\ i \in Nat
  OBVIOUS
<1> HIDE DEF n
<1>2. ASSUME NEW i \in 1..n
      PROVE  /\ Lldp!Printout(i, ps[i]) \in X /\ Len(Lldp!Printout(i, ps[i])) = BlockSize(ps[i])
             /\ \A j \in 1..BlockSize(ps[i]) : LineOf(i, ps[i], j, Lldp!Printout(i, ps[i])[j])
  BY <1>1, PrintoutLines
<1>3. end \in X
  <2>1. "blank" \in LldpKind /\ <<>> \in Val
    BY DEF LldpKind, Val
  <2>2. Lldp!Row("blank", <<>>) \in LldpLine
    BY <2>1, RowLine
  <2> DEFINE r == Lldp!Row("blank", <<>>)
  <2>3. r \in LldpLine /\ (end = <<>> \/ end = <<r>>)
    BY <2>2 DEF LldpEnds
  <2> HIDE DEF r
  <2>4. <<>> \in X /\ <<r>> \in X
    BY <2>3
  <2> HIDE DEF X
  <2>5. QED BY <2>3, <2>4
<1> HIDE DEF X
<1>4. f = [i \in 1..n |-> Lldp!Printout(i, ps[i])] /\ \A i \in 1..n : f[i] = Lldp!Printout(i, ps[i])
  BY <1>1
<1> HIDE DEF f
<1>5. f \in Seq(X) /\ Len(f) = n
  <2>1. \A i \in 1..n : Lldp!Printout(i, ps[i]) \in X
    BY <1>2
  <2>2. [i \in 1..n |-> Lldp!Printout(i, ps[i])] \in Seq(X)
        /\ Len([i \in 1..n |-> Lldp!Printout(i, ps[i])]) = n
    BY <1>1, <2>1
  <2>3. QED BY <1>4, <2>2
<1>6. bs = Append(f, end)
  BY DEF LldpBlocks, f
<1> HIDE DEF bs
<1>7. /\ bs \in Seq(X) /\ bs # <<>> /\ Len(bs) = n + 1 /\ bs[n + 1] = end
      /\ \A i \in 1..n : bs[i] = Lldp!Printout(i, ps[i])
  <2>1. /\ Append(f, end) \in Seq(X) /\ Append(f, end) # <<>> /\ Len(Append(f, end)) = Len(f) + 1
        /\ \A i \in 1..Len(f) : Append(f, end)[i] = f[i]
        /\ Append(f, end)[Len(f) + 1] = end
    BY <1>3, <1>5, AppendElements
  <2>2. QED BY <1>4, <1>5, <1>6, <2>1
<1>8. QED BY <1>2, <1>7 DEF X, Blocks, bs, n

-----------------------------------------------------------------------------
(* LldpText: the steps.                                                    *)

OnLine(i, j) ==
  /\ printed \in Seq(Lldp!Neighbor) /\ out \in Seq(LldpEntry)
  /\ i \in 1..Len(printed) /\ j \in 1..BlockSize(printed[i])
  /\ LineOf(i, printed[i], j, Head(text)) /\ Held(printed, i, j, current, scratch, out)

LineDone(i, j) ==
  out' \in Seq(LldpEntry) /\ Held(printed, i, j + 1, current', scratch', out')

LEMMA OnLineFacts ==
  ASSUME NEW i, NEW j, OnLine(i, j)
  PROVE  /\ i \in Nat \ {0} /\ j \in Nat \ {0} /\ printed[i] \in Lldp!Neighbor
         /\ i - 1 \in Nat /\ (i - 1) + 1 = i
         /\ DescSize(printed[i]) \in Nat \ {0} /\ VlanSize(printed[i]) \in Nat \ {0}
         /\ j = 1 => Head(text).kind = "blank"
         /\ j = 2 => Head(text).kind = "chassis" /\ Head(text).val = <<i>>
         /\ j = 1 \/ j = 2 \/ j > 2
<1> DEFINE n == printed[i]
           d == DescSize(n)
           v == VlanSize(n)
           l == Head(text)
<1>1. n \in Lldp!Neighbor /\ i \in Nat \ {0}
  BY DEF OnLine
<1>2. d \in Nat \ {0} /\ v \in Nat \ {0}
  BY <1>1, NeighborTypes
<1>3. j \in Nat \ {0}
  BY <1>2 DEF OnLine, BlockSize
<1>4. (j = 1 => l.kind = "blank") /\ (j = 2 => l.kind = "chassis" /\ l.val = <<i>>)
  BY DEF OnLine, LineOf
<1>5. (j = 1 \/ j = 2 \/ j > 2) /\ i - 1 \in Nat /\ (i - 1) + 1 = i
  BY <1>1, <1>3
<1>6. QED BY <1>1, <1>2, <1>3, <1>4, <1>5

\* Which neighbors are saved while an entry of neighbor i is being read.
Before(i, c) == IF c.chassis = <<i>> THEN i - 1 ELSE i

LEMMA OnLineMeets ==
  ASSUME NEW i, NEW j, OnLine(i, j), j > 2, current # Lldp!Nil
  PROVE  /\ Plain(printed[i]) => Meets(i, printed[i], j, current, scratch, Head(text))
         /\ ~Plain(printed[i]) => MeetsOther(i, printed[i], j, current, scratch, Head(text))
         /\ Saved(printed, Before(i, current), out)
         /\ current \in OwnEntry(i) /\ Begun(i, printed[i], current.chassis)
<1>1. i \in Nat /\ j \in Nat /\ printed[i] \in Lldp!Neighbor
  BY OnLineFacts
<1>2. HeldSome(printed, i, j, current, scratch, out)
  BY DEF OnLine, Held
<1>3. j # 1 /\ j # 2
  BY <1>1
<1>4. Saved(printed, Before(i, current), out) /\ Building(i, printed[i], j, current, scratch)
  BY <1>2, <1>3 DEF HeldSome, Before
<1>5. j \in 3..BlockSize(printed[i])
  BY <1>1 DEF OnLine
<1>6. current \in OwnEntry(i) /\ Begun(i, printed[i], current.chassis)
  BY <1>4 DEF Building
<1>7. QED BY <1>1, <1>4, <1>5, <1>6 DEF Meets, MeetsOther, OnLine

LEMMA OnLineSaves ==
  ASSUME NEW i, NEW j, OnLine(i, j), j > 2,
         Saved(printed, Before(i, current'), out'), out' \in Seq(LldpEntry),
         Building(i, printed[i], j + 1, current', scratch')
  PROVE  LineDone(i, j)
<1>1. i \in Nat \ {0} /\ j \in Nat
  BY OnLineFacts
<1>2. current' # Lldp!Nil
  BY NotNil DEF Building
<1>3. j + 1 # 1 /\ j + 1 # 2 /\ i > 0
  BY <1>1
<1>4. HeldSome(printed, i, j + 1, current', scratch', out')
  BY <1>3 DEF HeldSome, Before
<1>5. QED BY <1>2, <1>4 DEF LineDone, Held

LEMMA OnLineKeeps ==
  ASSUME NEW i, NEW j, OnLine(i, j), j > 2, current # Lldp!Nil, out' = out,
         current'.chassis = current.chassis, Building(i, printed[i], j + 1, current', scratch')
  PROVE  LineDone(i, j)
<1>1. Saved(printed, Before(i, current), out) /\ out \in Seq(LldpEntry)
  BY OnLineMeets DEF OnLine
<1>2. Saved(printed, Before(i, current'), out')
  BY <1>1 DEF Before
<1>3. QED BY <1>1, <1>2, OnLineSaves

LEMMA OnLineNothing ==
  ASSUME NEW i, NEW j, OnLine(i, j), j > 2, current = Lldp!Nil,
         UNCHANGED <<current, scratch, out>>
  PROVE  LineDone(i, j)
<1>1. HeldNone(printed, i, j, scratch, out) /\ out \in Seq(LldpEntry)
  BY DEF OnLine, Held
<1>2. j + 1 > 2
  BY OnLineFacts
<1>3. HeldNone(printed, i, j + 1, scratch, out)
  BY <1>1, <1>2 DEF HeldNone
<1>4. QED BY <1>1, <1>3 DEF LineDone, Held

\* The entry being read is saved inside of its neighbor.
LEMMA OnLineSaved ==
  ASSUME NEW i, NEW j, OnLine(i, j), j > 2, ~Plain(printed[i])
  PROVE  LET o == IF current = Lldp!Nil THEN out ELSE Append(out, current)
         IN  o \in Seq(LldpEntry) /\ Saved(printed, i, o)
<1>1. i \in Nat \ {0} /\ out \in Seq(LldpEntry)
  BY OnLineFacts DEF OnLine
<1>2. CASE current = Lldp!Nil
  <2>1. HeldNone(printed, i, j, scratch, out)
    BY <1>2 DEF OnLine, Held
  <2>2. QED BY <1>1, <1>2, <2>1 DEF HeldNone
<1>3. CASE current # Lldp!Nil
  <2>1. /\ Saved(printed, Before(i, current), out)
        /\ current \in OwnEntry(i) /\ Begun(i, printed[i], current.chassis)
    BY <1>3, OnLineMeets
  <2>2. Right(i, printed[i], current)
    BY <2>1 DEF Right
  <2>3. Append(out, current) \in Seq(LldpEntry) /\ Saved(printed, i, Append(out, current))
    BY <1>1, <2>1, <2>2, SavedMore DEF Before
  <2>4. QED BY <1>3, <2>3
<1>4. QED BY <1>2, <1>3

\* The neighbor before is saved at the first line after it.
LEMMA LastSaved ==
  ASSUME NEW ps \in Seq(Lldp!Neighbor), NEW i \in 1..(Len(ps) + 1), NEW c, NEW s,
         NEW o \in Seq(LldpEntry), HeldSome(ps, i, 1, c, s, o)
  PROVE  /\ ~s.inDesc /\ Append(o, c) \in Seq(LldpEntry)
         /\ Saved(ps, i - 1, Append(o, c))
<1> DEFINE k == i - 1
<1>1. /\ k > 0 /\ Saved(ps, IF c.chassis = <<k>> THEN k - 1 ELSE k, o)
      /\ Building(k, ps[k], BlockSize(ps[k]) + 1, c, s)
  BY DEF HeldSome
<1>2. k \in 1..Len(ps) /\ k \in Nat \ {0}
  BY <1>1
<1> HIDE DEF k
<1>3. ps[k] \in Lldp!Neighbor
  BY <1>2
<1>4. Right(k, ps[k], c) /\ ~s.inDesc
  BY <1>1, <1>2, <1>3, AllRead
<1>5. Append(o, c) \in Seq(LldpEntry) /\ Saved(ps, k, Append(o, c))
  BY <1>1, <1>2, <1>4, SavedMore
<1>6. QED BY <1>4, <1>5 DEF k

LEMMA OnFirstBlank ==
  ASSUME printed \in Seq(Lldp!Neighbor), out \in Seq(LldpEntry), NEW i \in 1..(Len(printed) + 1),
         Held(printed, i, 1, current, scratch, out), Lldp!Blank
  PROVE  out' \in Seq(LldpEntry) /\ Held(printed, i, 2, current', scratch', out')
<1>1. /\ scratch' = Lldp!Fresh
      /\ ~scratch.inDesc => /\ current' = Lldp!Nil
                            /\ out' = IF current = Lldp!Nil THEN out ELSE Append(out, current)
  BY DEF Lldp!Blank, Lldp!Save
<1>2. ~Lldp!Fresh.inDesc
  BY DEF Lldp!Fresh
<1>3. ~(1 > 2) /\ ~(2 > 2) /\ (IF 1 > 2 THEN i ELSE i - 1) = i - 1 /\ (IF 2 > 2 THEN i ELSE i - 1) = i - 1
  OBVIOUS
<1>4. /\ ~scratch.inDesc /\ out' \in Seq(LldpEntry) /\ current' = Lldp!Nil
      /\ Saved(printed, i - 1, out')
  <2>1. CASE current = Lldp!Nil
    <3>1. HeldNone(printed, i, 1, scratch, out)
      BY <2>1 DEF Held
    <3>2. ~scratch.inDesc /\ Saved(printed, i - 1, out)
      BY <1>3, <3>1 DEF HeldNone
    <3>3. QED BY <1>1, <2>1, <3>2
  <2>2. CASE current # Lldp!Nil
    <3>1. HeldSome(printed, i, 1, current, scratch, out)
      BY <2>2 DEF Held
    <3>2. /\ ~scratch.inDesc /\ Append(out, current) \in Seq(LldpEntry)
          /\ Saved(printed, i - 1, Append(out, current))
      BY <3>1, LastSaved
    <3>3. QED BY <1>1, <2>2, <3>2
  <2>3. QED BY <2>1, <2>2
<1>5. HeldNone(printed, i, 2, scratch', out')
  BY <1>1, <1>2, <1>3, <1>4 DEF HeldNone
<1>6. QED BY <1>4, <1>5 DEF Held

LEMMA OnBlank ==
  ASSUME NEW i, NEW j, OnLine(i, j), Lldp!Blank
  PROVE  LineDone(i, j)
<1> DEFINE n == printed[i]
           l == Head(text)
<1>1. /\ l.kind = "blank" /\ scratch' = Lldp!Fresh
      /\ scratch.inDesc => UNCHANGED <<current, out>>
      /\ ~scratch.inDesc => /\ current' = Lldp!Nil
                            /\ out' = IF current = Lldp!Nil THEN out ELSE Append(out, current)
  BY DEF Lldp!Blank, Lldp!Reads, Lldp!Line, Lldp!Save
<1>2. i \in Nat \ {0} /\ j \in Nat \ {0}
  BY OnLineFacts
<1>3. j = 1 \/ j > 2
  BY <1>1, OnLineFacts
<1>4. /\ Held(printed, i, j, current, scratch, out) /\ out \in Seq(LldpEntry)
      /\ printed \in Seq(Lldp!Neighbor) /\ i \in 1..Len(printed) /\ LineOf(i, n, j, l)
  BY DEF OnLine
<1>5. ~Lldp!Fresh.inDesc /\ ~Lldp!Fresh.inVlans
  BY DEF Lldp!Fresh
<1>6. CASE j = 1
  <2>1. Held(printed, i, 1, current, scratch, out) /\ i \in 1..(Len(printed) + 1) /\ j + 1 = 2
    BY <1>4, <1>6
  <2>2. out' \in Seq(LldpEntry) /\ Held(printed, i, 2, current', scratch', out')
    BY <1>4, <2>1, OnFirstBlank
  <2>3. QED BY <2>1, <2>2 DEF LineDone
<1>7. CASE j > 2
  <2>1. ~Plain(n)
    <3>1. ~(j = 1)
      BY <1>2, <1>7
    <3>2. QED BY <1>1, <1>4, <3>1 DEF LineOf, PlainLine
  <2>2. j + 1 > 2
    BY <1>2, <1>7
  <2>3. CASE scratch.inDesc
    <3>1. current # Lldp!Nil
      BY <1>4, <2>3 DEF Held, HeldNone
    <3>2. UNCHANGED <<current, out>> /\ MeetsOther(i, n, j, current, scratch, l)
      BY <1>1, <1>7, <2>1, <2>3, <3>1, OnLineMeets
    <3>3. current \in OwnEntry(i) /\ scratch \in OwnState(i)
      BY <3>2, OtherFacts
    <3>4. Lldp!Fresh \in OwnState(i)
      BY <3>3, MemoryResets
    <3>5. Building(i, n, j + 1, current, Lldp!Fresh)
      BY <1>5, <3>2, <3>3, <3>4, OtherNext
    <3>6. Building(i, n, j + 1, current', scratch')
      BY <1>1, <3>2, <3>5
    <3>7. QED BY <1>7, <3>1, <3>2, <3>6, OnLineKeeps
  <2>4. CASE ~scratch.inDesc
    <3>1. out' \in Seq(LldpEntry) /\ Saved(printed, i, out') /\ current' = Lldp!Nil
      BY <1>1, <1>7, <2>1, <2>4, OnLineSaved
    <3>2. HeldNone(printed, i, j + 1, scratch', out')
      BY <1>1, <1>5, <2>1, <2>2, <3>1 DEF HeldNone
    <3>3. QED BY <3>1, <3>2 DEF LineDone, Held
  <2>5. QED BY <2>3, <2>4
<1>8. QED BY <1>3, <1>6, <1>7

LEMMA OnChassis ==
  ASSUME NEW i, NEW j, OnLine(i, j), Lldp!Chassis
  PROVE  LineDone(i, j)
<1> DEFINE n == printed[i]
           l == Head(text)
<1>1. /\ l.kind = "chassis" /\ scratch' = Lldp!Fresh
      /\ current' = Lldp!NewNeighbor(l.val)
      /\ out' = IF current = Lldp!Nil THEN out ELSE Append(out, current)
  BY DEF Lldp!Chassis, Lldp!Reads, Lldp!Line, Lldp!Save
<1>2. i \in Nat \ {0} /\ j \in Nat \ {0} /\ n \in Lldp!Neighbor
  BY OnLineFacts
<1>3. j = 2 \/ j > 2
  BY <1>1, OnLineFacts
<1>4. CASE j = 2
  <2>1. l.val = <<i>>
    BY <1>4, OnLineFacts
  <2>2. Held(printed, i, 2, current, scratch, out) /\ out \in Seq(LldpEntry)
    BY <1>4 DEF OnLine
  <2>3. current = Lldp!Nil
    BY <2>2 DEF Held, HeldSome
  <2>4. Saved(printed, i - 1, out)
    <3>1. (IF 2 > 2 THEN i ELSE i - 1) = i - 1
      OBVIOUS
    <3>2. QED BY <2>2, <2>3, <3>1 DEF Held, HeldNone
  <2>5. Building(i, n, 3, current', scratch')
    BY <1>1, <1>2, <2>1, ChassisRead
  <2>6. current' # Lldp!Nil /\ current'.chassis = <<i>>
    <3>1. <<i>> \in ValuesOf(i)
      BY <1>2 DEF ValuesOf, Val
    <3>2. QED BY <1>1, <2>1, <2>5, <3>1, NotNil, NewEntries DEF Building
  <2>7. out' = out /\ j + 1 = 3 /\ i > 0
    BY <1>1, <1>2, <1>4, <2>3
  <2>8. HeldSome(printed, i, 3, current', scratch', out')
    BY <2>4, <2>5, <2>6, <2>7 DEF HeldSome
  <2>9. QED BY <2>2, <2>6, <2>7, <2>8 DEF LineDone, Held
<1>5. CASE j > 2
  <2>1. LineOf(i, n, j, l)
    BY DEF OnLine
  <2>2. ~Plain(n)
    <3>1. ~(j = 2)
      BY <1>2, <1>5
    <3>2. QED BY <1>1, <2>1, <3>1 DEF LineOf, PlainLine
  <2>3. l.val # <<i>> /\ l.val \in ValuesOf(i) /\ Begun(i, n, l.val)
    <3>1. /\ Begun(i, n, l.val) /\ l.val # <<i>> /\ l.val \in ValuesOf(i) \cup {<<>>}
          /\ l.val # <<>>
      BY <1>1, <1>5, <2>1 DEF LineOf
    <3>2. QED BY <3>1
  <2>4. out' \in Seq(LldpEntry) /\ Saved(printed, i, out')
    BY <1>1, <1>5, <2>2, OnLineSaved
  <2>5. current' \in OwnEntry(i) /\ current'.chassis = l.val
    BY <1>1, <2>3, NewEntries
  <2>6. Saved(printed, Before(i, current'), out')
    BY <2>3, <2>4, <2>5 DEF Before
  <2>7. Lldp!Fresh \in OwnState(i) /\ ~Lldp!Fresh.inDesc /\ ~Lldp!Fresh.inVlans
    BY DEF Lldp!Fresh, OwnState
  <2>8. j + 1 \in 3..(BlockSize(n) + 1)
    <3>1. j \in 1..BlockSize(n) /\ BlockSize(n) \in Nat
      BY OnLineFacts DEF OnLine, BlockSize
    <3>2. QED BY <1>5, <3>1
  <2>9. Building(i, n, j + 1, current', scratch')
    BY <1>1, <2>2, <2>3, <2>5, <2>7, <2>8 DEF Building
  <2>10. QED BY <1>5, <2>4, <2>6, <2>9, OnLineSaves
<1>6. QED BY <1>3, <1>4, <1>5

\* A description may name the command.
LEMMA OnCommand ==
  ASSUME NEW i, NEW j, OnLine(i, j), Lldp!Command
  PROVE  LineDone(i, j)
<1> DEFINE n == printed[i]
           l == Head(text)
<1>1. l.kind = "command" /\ UNCHANGED <<current, scratch, out>>
  BY DEF Lldp!Command, Lldp!Ignores, Lldp!Reads, Lldp!Line
<1>2. j > 2 /\ LineOf(i, n, j, l)
  BY <1>1, OnLineFacts DEF OnLine
<1>3. CASE current = Lldp!Nil
  BY <1>1, <1>2, <1>3, OnLineNothing
<1>4. CASE current # Lldp!Nil
  <2>1. ~Plain(n)
    BY <1>1, <1>2 DEF LineOf, PlainLine
  <2>2. MeetsOther(i, n, j, current, scratch, l)
    BY <1>2, <1>4, <2>1, OnLineMeets
  <2>3. current \in OwnEntry(i) /\ scratch \in OwnState(i) /\ (scratch.inVlans => scratch.vlans # <<>>)
    BY <2>2, OtherFacts
  <2>4. Building(i, n, j + 1, current, scratch)
    BY <1>1, <2>2, <2>3, OtherNext
  <2>5. Building(i, n, j + 1, current', scratch')
    BY <1>1, <2>4
  <2>6. QED BY <1>1, <1>2, <1>4, <2>5, OnLineKeeps
<1>5. QED BY <1>3, <1>4

LEMMA OnNoNeighbor ==
  ASSUME NEW i, NEW j, OnLine(i, j), Lldp!NoNeighbor
  PROVE  LineDone(i, j)
<1>1. /\ Head(text).kind \notin {"blank", "chassis"} /\ current = Lldp!Nil
      /\ UNCHANGED <<current, scratch, out>>
  BY DEF Lldp!NoNeighbor, Lldp!Ignores, Lldp!Reads, Lldp!Line
<1>2. j > 2
  BY <1>1, OnLineFacts
<1>3. QED BY <1>1, <1>2, OnLineNothing

\* The lines inside of a neighbor: what each action does.
Inside == \/ Lldp!Early \/ Lldp!Description \/ Lldp!DescriptionLine \/ Lldp!TimeRemaining
          \/ Lldp!Late \/ Lldp!VlanNames \/ Lldp!MoreVlanNames \/ Lldp!LinkAggregation
          \/ Lldp!Aggregation \/ Lldp!Lost

\* The description is plain.
LEMMA OnPlain ==
  ASSUME NEW i, NEW j, Meets(i, printed[i], j, current, scratch, Head(text)), Inside
  PROVE  Building(i, printed[i], j + 1, current', scratch') /\ current'.chassis = current.chassis
<1> DEFINE n == printed[i]
           l == Head(text)
           c == current
           s == scratch
<1>1. Meets(i, n, j, c, s, l)
  OBVIOUS
<1>2. c \in OwnEntry(i) /\ s \in OwnState(i)
  BY <1>1, MeetsFacts
<1>3. /\ ~s.inDesc => l.kind \notin {"text", "aggId", "command"}
      /\ ~s.inDesc /\ ~s.inVlans => l.kind \notin {"number", "colon"}
  BY <1>1, NothingLost
<1>4. CASE Lldp!Early
  <2>1. l.kind = "name" /\ current' = [c EXCEPT !.name = l.val] /\ scratch' = s
    BY <1>4 DEF Lldp!Early, Lldp!Reads, Lldp!Line, Lldp!SetField
  <2>2. Building(i, n, j + 1, current', scratch')
    BY <1>1, <2>1, NameRead
  <2>3. current'.chassis = c.chassis
    BY <1>2, <2>1 DEF OwnEntry
  <2>4. QED BY <2>2, <2>3
<1>5. CASE Lldp!Description
  <2>1. /\ l.kind = "desc" /\ current' = c
        /\ scratch' = IF l.val = <<>> THEN s
                      ELSE [s EXCEPT !.inDesc = TRUE, !.desc = Append(@, l.val)]
    BY <1>5 DEF Lldp!Description, Lldp!Reads, Lldp!Line, Lldp!Empty
  <2>2. CASE l.val = <<>>
    BY <1>1, <2>1, <2>2, NothingRead
  <2>3. CASE l.val # <<>>
    BY <1>1, <2>1, <2>3, DescriptionRead
  <2>4. QED BY <2>2, <2>3
<1>6. CASE Lldp!DescriptionLine
  <2>1. /\ s.inDesc /\ current' = c /\ scratch' = [s EXCEPT !.desc = Append(@, l.val)]
        /\ l.kind \in {"text", "late", "vlans", "number", "colon", "linkAgg", "agg", "aggId"}
    BY <1>6 DEF Lldp!DescriptionLine, Lldp!Reads, Lldp!Line
  <2>2. QED BY <1>1, <2>1, DescriptionRead
<1>7. CASE Lldp!TimeRemaining
  <2>1. /\ l.kind = "time"
        /\ current' = [c EXCEPT !.time = l.val, !.desc = IF s.inDesc THEN s.desc ELSE @]
        /\ scratch' = IF s.inDesc THEN [s EXCEPT !.inDesc = FALSE, !.desc = <<>>] ELSE s
    BY <1>7 DEF Lldp!TimeRemaining, Lldp!Reads, Lldp!Line
  <2>2. Building(i, n, j + 1, current', scratch')
    BY <1>1, <2>1, TimeRead
  <2>3. current'.chassis = c.chassis
    BY <1>2, <2>1 DEF OwnEntry
  <2>4. QED BY <2>2, <2>3
<1>8. CASE Lldp!Late
  <2>1. l.kind = "late" /\ ~s.inDesc /\ current' = [c EXCEPT !.late = l.val] /\ scratch' = s
    BY <1>8 DEF Lldp!Late, Lldp!Reads, Lldp!Line, Lldp!SetField
  <2>2. Building(i, n, j + 1, current', scratch')
    BY <1>1, <2>1, LateRead
  <2>3. current'.chassis = c.chassis
    BY <1>2, <2>1 DEF OwnEntry
  <2>4. QED BY <2>2, <2>3
<1>9. CASE Lldp!VlanNames
  <2>1. /\ l.kind = "vlans" /\ ~s.inDesc /\ current' = c
        /\ scratch' = IF l.val = <<>> THEN s
                      ELSE [s EXCEPT !.inVlans = TRUE, !.vlans = Append(@, <<l.val>>)]
    BY <1>9 DEF Lldp!VlanNames, Lldp!Reads, Lldp!Line, Lldp!Empty
  <2>2. CASE l.val = <<>>
    BY <1>1, <2>1, <2>2, NothingRead
  <2>3. CASE l.val # <<>>
    BY <1>1, <2>1, <2>3, VlanNamesRead
  <2>4. QED BY <2>2, <2>3
<1>10. CASE Lldp!MoreVlanNames
  <2>1. /\ s.inVlans /\ ~s.inDesc /\ l.kind \in {"number", "colon", "aggId"} /\ current' = c
        /\ scratch' = [s EXCEPT !.vlans =
                         IF l.kind = "number" THEN Append(@, <<l.val>>)
                         ELSE [s.vlans EXCEPT ![Len(s.vlans)] = Append(@, l.val)]]
    BY <1>10 DEF Lldp!MoreVlanNames, Lldp!Reads, Lldp!Line
  <2>2. l.kind \in {"number", "colon"}
    BY <1>3, <2>1
  <2>3. QED BY <1>1, <2>1, <2>2, MoreVlanNamesRead
<1>11. CASE Lldp!LinkAggregation
  <2>1. /\ l.kind = "linkAgg" /\ ~s.inDesc
        /\ s.inVlans => /\ current' = [c EXCEPT !.vlans = s.vlans]
                        /\ scratch' = [s EXCEPT !.inVlans = FALSE, !.vlans = <<>>]
        /\ ~s.inVlans => current' = c /\ scratch' = s
    BY <1>11 DEF Lldp!LinkAggregation, Lldp!Reads, Lldp!Line, Lldp!SetField
  <2>2. CASE s.inVlans
    <3>1. Building(i, n, j + 1, [c EXCEPT !.vlans = s.vlans],
                   [s EXCEPT !.inVlans = FALSE, !.vlans = <<>>])
      BY <1>1, <2>1, <2>2, LinkAggregationRead
    <3>2. /\ current' = [c EXCEPT !.vlans = s.vlans]
          /\ scratch' = [s EXCEPT !.inVlans = FALSE, !.vlans = <<>>]
      BY <2>1, <2>2
    <3>3. current'.chassis = c.chassis
      BY <1>2, <3>2 DEF OwnEntry
    <3>4. QED BY <3>1, <3>2, <3>3
  <2>3. CASE ~s.inVlans
    BY <1>1, <2>1, <2>3, NothingRead
  <2>4. QED BY <2>2, <2>3
<1>12. CASE Lldp!Aggregation
  <2>1. /\ l.kind \in {"agg", "aggId"} /\ ~s.inDesc /\ current' = [c EXCEPT !.agg = l.val]
        /\ scratch' = s
    BY <1>12 DEF Lldp!Aggregation, Lldp!Reads, Lldp!Line, Lldp!SetField
  <2>2. l.kind = "agg"
    BY <1>3, <2>1
  <2>3. Building(i, n, j + 1, current', scratch')
    BY <1>1, <2>1, <2>2, AggregationRead
  <2>4. current'.chassis = c.chassis
    BY <1>2, <2>1 DEF OwnEntry
  <2>5. QED BY <2>3, <2>4
<1>13. CASE Lldp!Lost
  <2>1. l.kind \in {"text", "number", "colon"} /\ ~s.inDesc /\ (s.inVlans => l.kind = "text")
    BY <1>13 DEF Lldp!Lost, Lldp!Ignores, Lldp!Reads, Lldp!Line
  <2>2. QED BY <1>3, <2>1
<1>14. QED BY <1>4, <1>5, <1>6, <1>7, <1>8, <1>9, <1>10, <1>11, <1>12, <1>13 DEF Inside

\* The description says what it wants.
LEMMA OnOther ==
  ASSUME NEW i, NEW j, MeetsOther(i, printed[i], j, current, scratch, Head(text)), Inside
  PROVE  Building(i, printed[i], j + 1, current', scratch') /\ current'.chassis = current.chassis
<1> DEFINE n == printed[i]
           l == Head(text)
           c == current
           s == scratch
<1>1. /\ c \in OwnEntry(i) /\ s \in OwnState(i) /\ l.val \in ValuesOf(i) \cup {<<>>}
      /\ s.inDesc /\ l.kind \notin {"blank", "name", "desc"} => l.val # <<>>
      /\ l.kind \in {"number", "colon", "aggId"} => l.val # <<>>
      /\ s.inVlans => s.vlans # <<>>
  BY OtherFacts
<1> SUFFICES /\ current' \in OwnEntry(i) /\ current'.chassis = c.chassis
             /\ scratch' \in OwnState(i)
             /\ scratch'.inDesc => (s.inDesc /\ l.kind # "time") \/ l.kind = "desc"
             /\ scratch'.inVlans => scratch'.vlans # <<>>
  BY OtherNext
<1>2. /\ s.desc \in Seq(ValuesOf(i)) /\ c.desc \in Seq(ValuesOf(i))
      /\ s.vlans \in Seq(Seq(ValuesOf(i)))
  BY <1>1 DEF OwnEntry, OwnState
<1>3. ASSUME NEW y \in Seq(ValuesOf(i)) PROVE [c EXCEPT !.time = l.val, !.desc = y] \in OwnEntry(i)
  BY <1>1, EntryFields
<1>4. ASSUME NEW y \in Seq(Seq(ValuesOf(i))) PROVE [c EXCEPT !.vlans = y] \in OwnEntry(i)
  BY <1>1, EntryFields
<1>5. CASE Lldp!Early
  <2>1. l.kind = "name" /\ current' = [c EXCEPT !.name = l.val] /\ scratch' = s
    BY <1>5 DEF Lldp!Early, Lldp!Reads, Lldp!Line, Lldp!SetField
  <2>2. current' \in OwnEntry(i)
    BY <1>1, <2>1, EntryFields
  <2>3. current'.chassis = c.chassis
    BY <1>1, <2>1 DEF OwnEntry
  <2>4. QED BY <1>1, <2>1, <2>2, <2>3
<1>6. CASE Lldp!Description
  <2>1. /\ l.kind = "desc" /\ current' = c
        /\ scratch' = IF l.val = <<>> THEN s
                      ELSE [s EXCEPT !.inDesc = TRUE, !.desc = Append(@, l.val)]
    BY <1>6 DEF Lldp!Description, Lldp!Reads, Lldp!Line, Lldp!Empty
  <2>2. CASE l.val = <<>>
    BY <1>1, <2>1, <2>2
  <2>3. CASE l.val # <<>>
    <3>1. l.val \in ValuesOf(i)
      BY <1>1, <2>3
    <3> DEFINE z == DescBegun(s, l.val)
    <3>2. z \in OwnState(i) /\ z.inVlans = s.inVlans /\ z.vlans = s.vlans
      BY <1>1, <3>1, MemoryFields
    <3>3. scratch' = z
      BY <2>1, <2>3 DEF DescBegun
    <3> HIDE DEF z
    <3>4. QED BY <1>1, <2>1, <3>2, <3>3
  <2>4. QED BY <2>2, <2>3
<1>7. CASE Lldp!DescriptionLine
  <2>1. /\ s.inDesc /\ current' = c /\ scratch' = [s EXCEPT !.desc = Append(@, l.val)]
        /\ l.kind \in {"text", "late", "vlans", "number", "colon", "linkAgg", "agg", "aggId"}
    BY <1>7 DEF Lldp!DescriptionLine, Lldp!Reads, Lldp!Line
  <2>2. l.val \in ValuesOf(i)
    BY <1>1, <2>1
  <2> DEFINE z == DescMore(s, l.val)
  <2>3. z \in OwnState(i) /\ z.inDesc = s.inDesc /\ z.inVlans = s.inVlans /\ z.vlans = s.vlans
    BY <1>1, <2>2, MemoryFields
  <2>4. scratch' = z
    BY <2>1 DEF DescMore
  <2> HIDE DEF z
  <2>5. QED BY <1>1, <2>1, <2>3, <2>4
<1>8. CASE Lldp!TimeRemaining
  <2> DEFINE y == IF s.inDesc THEN s.desc ELSE c.desc
  <2>1. /\ l.kind = "time" /\ current' = [c EXCEPT !.time = l.val, !.desc = y]
        /\ scratch' = IF s.inDesc THEN [s EXCEPT !.inDesc = FALSE, !.desc = <<>>] ELSE s
    BY <1>8 DEF Lldp!TimeRemaining, Lldp!Reads, Lldp!Line
  <2>2. y \in Seq(ValuesOf(i))
    BY <1>2
  <2> HIDE DEF y
  <2>3. current' \in OwnEntry(i)
    BY <1>3, <2>1, <2>2
  <2>4. current'.chassis = c.chassis
    BY <1>1, <2>1 DEF OwnEntry
  <2>5. /\ scratch' \in OwnState(i) /\ ~scratch'.inDesc
        /\ scratch'.inVlans = s.inVlans /\ scratch'.vlans = s.vlans
    BY <1>1, <2>1, MemoryResets
  <2>6. QED BY <1>1, <2>3, <2>4, <2>5
<1>9. CASE Lldp!Late
  <2>1. current' = [c EXCEPT !.late = l.val] /\ scratch' = s /\ ~s.inDesc
    BY <1>9 DEF Lldp!Late, Lldp!Reads, Lldp!Line, Lldp!SetField
  <2>2. current' \in OwnEntry(i)
    BY <1>1, <2>1, EntryFields
  <2>3. current'.chassis = c.chassis
    BY <1>1, <2>1 DEF OwnEntry
  <2>4. QED BY <1>1, <2>1, <2>2, <2>3
<1>10. CASE Lldp!VlanNames
  <2>1. /\ l.kind = "vlans" /\ ~s.inDesc /\ current' = c
        /\ scratch' = IF l.val = <<>> THEN s
                      ELSE [s EXCEPT !.inVlans = TRUE, !.vlans = Append(@, <<l.val>>)]
    BY <1>10 DEF Lldp!VlanNames, Lldp!Reads, Lldp!Line, Lldp!Empty
  <2>2. CASE l.val = <<>>
    BY <1>1, <2>1, <2>2
  <2>3. CASE l.val # <<>>
    <3>1. l.val \in ValuesOf(i)
      BY <1>1, <2>3
    <3> DEFINE z == VlansBegun(s, l.val)
    <3>2. z \in OwnState(i) /\ z.inDesc = s.inDesc /\ z.vlans # <<>>
      BY <1>1, <3>1, MemoryFields
    <3>3. scratch' = z /\ current' = c /\ ~s.inDesc
      BY <2>1, <2>3 DEF VlansBegun
    <3> HIDE DEF z
    <3>4. QED BY <1>1, <3>2, <3>3
  <2>4. QED BY <2>2, <2>3
<1>11. CASE Lldp!MoreVlanNames
  <2> DEFINE z == [s.vlans EXCEPT ![Len(s.vlans)] = Append(@, l.val)]
  <2>1. /\ s.inVlans /\ ~s.inDesc /\ l.kind \in {"number", "colon", "aggId"} /\ current' = c
        /\ scratch' = [s EXCEPT !.vlans = IF l.kind = "number" THEN Append(@, <<l.val>>) ELSE z]
    BY <1>11 DEF Lldp!MoreVlanNames, Lldp!Reads, Lldp!Line
  <2>2. l.val \in ValuesOf(i) /\ s.vlans # <<>>
    BY <1>1, <2>1
  <2> DEFINE w1 == VlansMore(s, l.val)
             w2 == VlansLonger(s, l.val)
  <2>3. /\ w1 \in OwnState(i) /\ w1.inDesc = s.inDesc /\ w1.vlans # <<>>
        /\ w2 \in OwnState(i) /\ w2.inDesc = s.inDesc /\ w2.vlans # <<>>
    BY <1>1, <2>2, MemoryFields
  <2>4. scratch' = w1 \/ scratch' = w2
    BY <2>1 DEF VlansMore, VlansLonger
  <2> HIDE DEF w1, w2
  <2>5. scratch' \in OwnState(i) /\ scratch'.inDesc = s.inDesc /\ scratch'.vlans # <<>>
    BY <2>3, <2>4
  <2>6. QED BY <1>1, <2>1, <2>5
<1>12. CASE Lldp!LinkAggregation
  <2>1. /\ l.kind = "linkAgg" /\ ~s.inDesc
        /\ s.inVlans => /\ current' = [c EXCEPT !.vlans = s.vlans]
                        /\ scratch' = [s EXCEPT !.inVlans = FALSE, !.vlans = <<>>]
        /\ ~s.inVlans => current' = c /\ scratch' = s
    BY <1>12 DEF Lldp!LinkAggregation, Lldp!Reads, Lldp!Line, Lldp!SetField
  <2>2. CASE s.inVlans
    <3>1. current' \in OwnEntry(i)
      BY <1>2, <1>4, <2>1, <2>2
    <3>2. current'.chassis = c.chassis
      BY <1>1, <2>1, <2>2 DEF OwnEntry
    <3> DEFINE z == [s EXCEPT !.inVlans = FALSE, !.vlans = <<>>]
    <3>3. z \in OwnState(i) /\ ~z.inVlans /\ z.inDesc = s.inDesc
      BY <1>1, MemoryResets
    <3>4. scratch' = z
      BY <2>1, <2>2
    <3> HIDE DEF z
    <3>5. QED BY <2>1, <3>1, <3>2, <3>3, <3>4
  <2>3. CASE ~s.inVlans
    BY <1>1, <2>1, <2>3
  <2>4. QED BY <2>2, <2>3
<1>13. CASE Lldp!Aggregation
  <2>1. current' = [c EXCEPT !.agg = l.val] /\ scratch' = s /\ ~s.inDesc
    BY <1>13 DEF Lldp!Aggregation, Lldp!Reads, Lldp!Line, Lldp!SetField
  <2>2. current' \in OwnEntry(i)
    BY <1>1, <2>1, EntryFields
  <2>3. current'.chassis = c.chassis
    BY <1>1, <2>1 DEF OwnEntry
  <2>4. QED BY <1>1, <2>1, <2>2, <2>3
<1>14. CASE Lldp!Lost
  <2>1. current' = c /\ scratch' = s /\ ~s.inDesc
    BY <1>14 DEF Lldp!Lost, Lldp!Ignores, Lldp!Reads, Lldp!Line
  <2>2. QED BY <1>1, <2>1
<1>15. QED BY <1>5, <1>6, <1>7, <1>8, <1>9, <1>10, <1>11, <1>12, <1>13, <1>14 DEF Inside

LEMMA OnInside ==
  ASSUME NEW i, NEW j, OnLine(i, j), Inside
  PROVE  LineDone(i, j)
<1>1. current # Lldp!Nil /\ out' = out /\ Head(text).kind \notin {"blank", "chassis"}
  BY DEF Inside, Lldp!Early, Lldp!Description, Lldp!DescriptionLine, Lldp!TimeRemaining, Lldp!Late,
         Lldp!VlanNames, Lldp!MoreVlanNames, Lldp!LinkAggregation, Lldp!Aggregation, Lldp!Lost,
         Lldp!Ignores, Lldp!Reads, Lldp!Line
<1>2. j > 2
  BY <1>1, OnLineFacts
<1>3. Building(i, printed[i], j + 1, current', scratch') /\ current'.chassis = current.chassis
  BY <1>1, <1>2, OnLineMeets, OnPlain, OnOther
<1>4. QED BY <1>1, <1>2, <1>3, OnLineKeeps

\* A line of the text that belongs to a neighbor.
LEMMA LineStep ==
  ASSUME NEW i, NEW j, OnLine(i, j), text # <<>>, Lldp!Next
  PROVE  text' = Tail(text) /\ printed' = printed /\ LineDone(i, j)
<1>1. ~Lldp!End /\ ~Lldp!Parsed
  BY DEF Lldp!End, Lldp!Parsed, Lldp!AtEnd
<1>2. CASE Lldp!Command
  <2>1. text' = Tail(text) /\ printed' = printed
    BY <1>2 DEF Lldp!Command, Lldp!Ignores, Lldp!Reads
  <2>2. QED BY <1>2, <2>1, OnCommand
<1>3. CASE Lldp!Blank
  <2>1. text' = Tail(text) /\ printed' = printed
    BY <1>3 DEF Lldp!Blank, Lldp!Reads
  <2>2. QED BY <1>3, <2>1, OnBlank
<1>4. CASE Lldp!Chassis
  <2>1. text' = Tail(text) /\ printed' = printed
    BY <1>4 DEF Lldp!Chassis, Lldp!Reads
  <2>2. QED BY <1>4, <2>1, OnChassis
<1>5. CASE Lldp!NoNeighbor
  <2>1. text' = Tail(text) /\ printed' = printed
    BY <1>5 DEF Lldp!NoNeighbor, Lldp!Ignores, Lldp!Reads
  <2>2. QED BY <1>5, <2>1, OnNoNeighbor
<1>6. CASE Inside
  <2>1. text' = Tail(text) /\ printed' = printed
    BY <1>6 DEF Inside, Lldp!Early, Lldp!Description, Lldp!DescriptionLine, Lldp!TimeRemaining,
       Lldp!Late, Lldp!VlanNames, Lldp!MoreVlanNames, Lldp!LinkAggregation, Lldp!Aggregation,
       Lldp!Lost, Lldp!Ignores, Lldp!Reads
  <2>2. QED BY <1>6, <2>1, OnInside
<1>7. QED BY <1>1, <1>2, <1>3, <1>4, <1>5, <1>6 DEF Lldp!Next, Inside

\* After the last line of a neighbor comes the first one after it.
LEMMA Reached ==
  ASSUME NEW ps \in Seq(Lldp!Neighbor), NEW end \in LldpEnds, NEW o \in Seq(LldpEntry),
         NEW i \in 1..Len(ps), NEW j \in 1..BlockSize(ps[i]), NEW t, NEW c, NEW s,
         t = Left(LldpBlocks(ps, end), i, j + 1), Held(ps, i, j + 1, c, s, o)
  PROVE  LldpState(ps, t, c, s, o)
<1> DEFINE n == Len(ps)
           bs == LldpBlocks(ps, end)
           m == BlockSize(ps[i])
<1>1. n \in Nat /\ i \in Nat /\ ps[i] \in Lldp!Neighbor /\ i \in 1..(n + 1) /\ i + 1 \in 1..(n + 1) /\ i <= n
  OBVIOUS
<1>2. m \in Nat /\ m > 8
  <2>1. DescSize(ps[i]) \in Nat \ {0} /\ VlanSize(ps[i]) \in Nat \ {0}
    BY <1>1, NeighborTypes
  <2>2. QED BY <2>1 DEF BlockSize
<1>3. Blocks(bs, LldpLine) /\ Len(bs) = n + 1 /\ Len(bs[i]) = m
  BY LldpLines
<1> HIDE DEF bs, m, n
<1>4. j \in 1..m /\ j \in Nat
  BY <1>2 DEF m
<1>5. CASE j # m
  <2>1. j + 1 \in Nat \ {0} /\ j + 1 <= m
    BY <1>2, <1>4, <1>5
  <2>2. LldpAt(ps, end, i, j + 1, t, c, s, o)
    BY <1>1, <2>1 DEF LldpAt, m, n
  <2>3. QED BY <1>1, <2>1, <2>2 DEF LldpState
<1>6. CASE j = m
  <2>1. i \in 1..Len(bs) /\ i # Len(bs)
    BY <1>1, <1>3
  <2>2. Left(bs, i, Len(bs[i]) + 1) = Left(bs, i + 1, 1)
    BY <1>3, <2>1, LeftNext
  <2>3. t = Left(bs, i + 1, 1)
    BY <1>3, <1>6, <2>2 DEF bs
  <2>4. (i + 1) - 1 = i /\ j + 1 > 2 /\ j + 1 # 1 /\ i + 1 \in Nat
    BY <1>1, <1>2, <1>6
  <2>5. Held(ps, i + 1, 1, c, s, o)
    <3>1. CASE c = Lldp!Nil
      <4>1. HeldNone(ps, i, j + 1, s, o)
        BY <3>1 DEF Held
      <4>2. ~s.inDesc /\ Saved(ps, i, o)
        <5>1. (IF j + 1 > 2 THEN i ELSE i - 1) = i
          BY <2>4
        <5>2. QED BY <4>1, <5>1 DEF HeldNone
      <4>3. (IF 1 > 2 THEN i + 1 ELSE (i + 1) - 1) = i /\ ~(1 > 2)
        BY <2>4
      <4>4. HeldNone(ps, i + 1, 1, s, o)
        BY <4>2, <4>3 DEF HeldNone
      <4>5. QED BY <3>1, <4>4 DEF Held
    <3>2. CASE c # Lldp!Nil
      <4>1. HeldSome(ps, i, j + 1, c, s, o)
        BY <3>2 DEF Held
      <4>2. i > 0 /\ Saved(ps, Before(i, c), o) /\ Building(i, ps[i], j + 1, c, s)
        BY <2>4, <4>1 DEF HeldSome, Before
      <4>3. Building(i, ps[i], BlockSize(ps[i]) + 1, c, s)
        BY <1>6, <4>2 DEF m
      <4>4. HeldSome(ps, i + 1, 1, c, s, o)
        BY <2>4, <4>2, <4>3 DEF HeldSome, Before
      <4>5. QED BY <3>2, <4>4 DEF Held
    <3>3. QED BY <3>1, <3>2
  <2>6. 1 <= IF i + 1 <= Len(ps) THEN BlockSize(ps[i + 1]) ELSE Len(end) + 1
    <3>1. CASE i + 1 <= n
      <4>1. ps[i + 1] \in Lldp!Neighbor
        BY <1>1, <3>1 DEF n
      <4>2. DescSize(ps[i + 1]) \in Nat \ {0} /\ VlanSize(ps[i + 1]) \in Nat \ {0}
        BY <4>1, NeighborTypes
      <4>3. 1 <= BlockSize(ps[i + 1])
        BY <4>2 DEF BlockSize
      <4>4. QED BY <3>1, <4>3 DEF n
    <3>2. CASE ~(i + 1 <= n)
      <4>1. Len(end) = 0 \/ Len(end) = 1
        BY DEF LldpEnds
      <4>2. 1 <= Len(end) + 1
        BY <4>1
      <4>3. QED BY <3>2, <4>2 DEF n
    <3>3. QED BY <3>1, <3>2
  <2>7. LldpAt(ps, end, i + 1, 1, t, c, s, o)
    BY <1>1, <2>3, <2>5, <2>6 DEF LldpAt, bs, n
  <2>8. QED BY <2>4, <2>7 DEF LldpState
<1>7. QED BY <1>5, <1>6

-----------------------------------------------------------------------------
(* LldpText: the invariant.                                                *)

LEMMA JoinTwice ==
  ASSUME NEW S, NEW a \in Seq(S), NEW b \in Seq(S), NEW c \in Seq(S)
  PROVE  (a \o b) \o c = a \o (b \o c)
<1> DEFINE p == a \o b
           q == b \o c
           x == p \o c
           y == a \o q
<1>1. /\ p \in Seq(S) /\ Len(p) = Len(a) + Len(b)
      /\ \A i \in 1..Len(a) : p[i] = a[i]
      /\ \A i \in 1..Len(b) : p[Len(a) + i] = b[i]
  BY JoinedElements
<1>2. /\ q \in Seq(S) /\ Len(q) = Len(b) + Len(c)
      /\ \A i \in 1..Len(b) : q[i] = b[i]
      /\ \A i \in 1..Len(c) : q[Len(b) + i] = c[i]
  BY JoinedElements
<1> HIDE DEF p, q
<1>3. /\ x \in Seq(S) /\ Len(x) = Len(p) + Len(c)
      /\ \A i \in 1..Len(p) : x[i] = p[i]
      /\ \A i \in 1..Len(c) : x[Len(p) + i] = c[i]
  <2>1. p \in Seq(S) /\ c \in Seq(S)
    BY <1>1
  <2>2. QED BY <2>1, JoinedElements
<1>4. /\ y \in Seq(S) /\ Len(y) = Len(a) + Len(q)
      /\ \A i \in 1..Len(a) : y[i] = a[i]
      /\ \A i \in 1..Len(q) : y[Len(a) + i] = q[i]
  <2>1. a \in Seq(S) /\ q \in Seq(S)
    BY <1>2
  <2>2. QED BY <2>1, JoinedElements
<1> HIDE DEF x, y
<1>5. Len(a) \in Nat /\ Len(b) \in Nat /\ Len(c) \in Nat
  OBVIOUS
<1>6. Len(x) = Len(y) /\ Len(y) = Len(a) + Len(b) + Len(c)
  BY <1>1, <1>2, <1>3, <1>4, <1>5
<1>7. ASSUME NEW k \in 1..Len(x) PROVE x[k] = y[k]
  <2>1. CASE k \in 1..Len(a)
    <3>1. k \in 1..Len(p)
      BY <1>1, <1>5, <2>1
    <3>2. QED BY <1>1, <1>3, <1>4, <2>1, <3>1
  <2>2. CASE k \in (Len(a) + 1)..(Len(a) + Len(b))
    <3>1. PICK h \in 1..Len(b) : k = Len(a) + h
      <4>1. k - Len(a) \in 1..Len(b) /\ k = Len(a) + (k - Len(a))
        BY <1>5, <2>2
      <4>2. QED BY <4>1
    <3>2. k \in 1..Len(p) /\ h \in 1..Len(q)
      BY <1>1, <1>2, <1>5, <3>1
    <3>3. QED BY <1>1, <1>2, <1>3, <1>4, <3>1, <3>2
  <2>3. CASE k \in (Len(a) + Len(b) + 1)..(Len(a) + Len(b) + Len(c))
    <3>1. PICK h \in 1..Len(c) : k = Len(p) + h
      <4>1. k - Len(p) \in 1..Len(c) /\ k = Len(p) + (k - Len(p))
        BY <1>1, <1>5, <2>3
      <4>2. QED BY <4>1
    <3>2. Len(b) + h \in 1..Len(q) /\ k = Len(a) + (Len(b) + h)
      BY <1>1, <1>2, <1>5, <3>1
    <3>3. QED BY <1>2, <1>3, <1>4, <3>1, <3>2
  <2>4. k \in 1..(Len(a) + Len(b) + Len(c))
    BY <1>6
  <2>5. QED BY <1>5, <2>1, <2>2, <2>3, <2>4
<1>8. x = y
  BY <1>3, <1>4, <1>6, <1>7, SameElements
<1>9. QED BY <1>8 DEF x, y, p, q

LEMMA LldpInit ==
  ASSUME Lldp!Init
  PROVE  LldpState(printed, text, current, scratch, out)
<1> DEFINE f == [i \in DOMAIN printed |-> Lldp!Printout(i, printed[i])]
           X == Seq(LldpLine)
           F == FlattenSeq(f)
           r == <<Lldp!Row("command", <<>>)>>
<1>1. printed \in Seq(Lldp!Neighbor)
  <2>1. PICK m \in 0..MaxNeighbors : printed \in [1..m -> Lldp!Neighbor]
    BY DEF Lldp!Init, Lldp!BoundedSeq, Lldp!SeqOf
  <2>2. m \in Nat
    BY LldpAssumption
  <2>3. QED BY <2>1, <2>2
<1>2. PICK end \in LldpEnds : text = (r \o F) \o end
  BY SameFlatten DEF Lldp!Init, Lldp!FlattenSeq, FlattenSeq, LldpEnds, Lldp!Empty
<1>3. current = Lldp!Nil /\ scratch = Lldp!Fresh /\ out = <<>>
  BY DEF Lldp!Init
<1>4. LldpBlocks(printed, end) = Append(f, end)
  BY DEF LldpBlocks
<1>5. f \in Seq(X)
  <2>1. \A i \in 1..Len(printed) : Lldp!Printout(i, printed[i]) \in X
    BY <1>1, PrintoutLines
  <2>2. DOMAIN printed = 1..Len(printed) /\ Len(printed) \in Nat
    BY <1>1
  <2> HIDE DEF X
  <2>3. [i \in 1..Len(printed) |-> Lldp!Printout(i, printed[i])] \in Seq(X)
    BY <2>1, <2>2
  <2>4. f = [i \in 1..Len(printed) |-> Lldp!Printout(i, printed[i])]
    BY <2>2
  <2> HIDE DEF f
  <2>5. QED BY <2>3, <2>4
<1>6. end \in Seq(LldpLine) /\ r \in Seq(LldpLine)
  <2>1. "blank" \in LldpKind /\ "command" \in LldpKind /\ <<>> \in Val
    BY DEF LldpKind, Val
  <2>2. Lldp!Row("blank", <<>>) \in LldpLine /\ Lldp!Row("command", <<>>) \in LldpLine
    BY <2>1, RowLine
  <2> DEFINE u == Lldp!Row("blank", <<>>)
             w == Lldp!Row("command", <<>>)
  <2>3. u \in LldpLine /\ w \in LldpLine /\ (end = <<>> \/ end = <<u>>) /\ r = <<w>>
    BY <2>2 DEF LldpEnds
  <2> HIDE DEF u, w, r
  <2>4. <<>> \in Seq(LldpLine) /\ <<u>> \in Seq(LldpLine) /\ <<w>> \in Seq(LldpLine)
    BY <2>3
  <2>5. QED BY <2>3, <2>4
<1> HIDE DEF f, r
<1>7. F \in Seq(LldpLine)
  BY <1>5, FlatSeq
<1>8. FlattenSeq(Append(f, end)) = F \o end
  BY <1>5, <1>6, AnyLoop!FlattenAppend, SameFlatten
<1> HIDE DEF F
<1>9. text = r \o FlattenSeq(LldpBlocks(printed, end))
  <2>1. r \in Seq(LldpLine) /\ F \in Seq(LldpLine) /\ end \in Seq(LldpLine)
    BY <1>6, <1>7
  <2>2. (r \o F) \o end = r \o (F \o end)
    BY <2>1, JoinTwice
  <2>3. FlattenSeq(LldpBlocks(printed, end)) = F \o end
    BY <1>4, <1>8
  <2>4. QED BY <1>2, <2>2, <2>3
<1>10. LldpStart(printed, end, text, current, scratch, out)
  BY <1>3, <1>9 DEF LldpStart, r
<1>11. QED BY <1>1, <1>3, <1>10 DEF LldpState

\* The command is the first line.
LEMMA StartStep ==
  ASSUME NEW end \in LldpEnds, printed \in Seq(Lldp!Neighbor),
         LldpStart(printed, end, text, current, scratch, out), Lldp!Next
  PROVE  LldpState(printed, text, current, scratch, out)'
<1> DEFINE bs == LldpBlocks(printed, end)
           w == Lldp!Row("command", <<>>)
           F == FlattenSeq(bs)
<1>1. text = <<w>> \o F /\ current = Lldp!Nil /\ scratch = Lldp!Fresh /\ out = <<>>
  BY DEF LldpStart
<1>2. Blocks(bs, LldpLine) /\ bs # <<>> /\ Len(bs) = Len(printed) + 1
  BY LldpLines
<1>3. w \in LldpLine /\ w.kind = "command"
  <2>1. "command" \in LldpKind /\ <<>> \in Val
    BY DEF LldpKind, Val
  <2>2. QED BY <2>1, RowLine
<1> HIDE DEF bs, w
<1>4. F \in Seq(LldpLine) /\ F = Left(bs, 1, 1)
  BY <1>2, FlatSeq, LeftFirst DEF Blocks
<1> HIDE DEF F
<1>5. text # <<>> /\ Head(text) = w /\ Tail(text) = F
  <2> DEFINE a == <<w>>
  <2>1. a \in Seq(LldpLine) /\ Len(a) = 1 /\ a[1] = w
    BY <1>3
  <2> HIDE DEF a
  <2>2. /\ a \o F \in Seq(LldpLine) /\ Len(a \o F) = Len(a) + Len(F)
        /\ \A k \in 1..Len(a) : (a \o F)[k] = a[k]
        /\ \A k \in 1..Len(F) : (a \o F)[Len(a) + k] = F[k]
    <3>1. a \in Seq(LldpLine) /\ F \in Seq(LldpLine)
      BY <1>4, <2>1
    <3>2. QED BY <3>1, JoinedElements
  <2> DEFINE y == a \o F
  <2>3. text = y
    BY <1>1 DEF a
  <2>6. 1 \in 1..Len(a) /\ Len(F) \in Nat
    BY <1>4, <2>1
  <2>7. /\ y \in Seq(LldpLine) /\ Len(y) = Len(F) + 1 /\ y[1] = w
        /\ \A k \in 1..Len(F) : y[1 + k] = F[k]
    BY <2>1, <2>2, <2>6
  <2> HIDE DEF y
  <2>4. y # <<>> /\ Head(y) = w
    BY <2>6, <2>7
  <2>8. Tail(y) \in Seq(LldpLine) /\ Len(Tail(y)) = Len(F) /\ \A k \in 1..Len(F) : Tail(y)[k] = y[k + 1]
    BY <2>4, <2>6, <2>7
  <2>9. \A k \in 1..Len(F) : Tail(y)[k] = F[k]
    <3>1. \A k \in 1..Len(F) : 1 + k = k + 1
      OBVIOUS
    <3>2. QED BY <2>7, <2>8, <3>1
  <2>10. Tail(y) = F
    BY <1>4, <2>8, <2>9, SameElements
  <2>11. QED BY <2>3, <2>4, <2>10
<1>6. Head(text).kind = "command"
  BY <1>3, <1>5
<1>7. text' = F /\ UNCHANGED <<printed, current, scratch, out>>
  <2>1. Lldp!Command
    BY <1>1, <1>5, <1>6 DEF Lldp!Next, Lldp!Blank, Lldp!Chassis, Lldp!NoNeighbor, Lldp!Early,
       Lldp!Description, Lldp!DescriptionLine, Lldp!TimeRemaining, Lldp!Late, Lldp!VlanNames,
       Lldp!MoreVlanNames, Lldp!LinkAggregation, Lldp!Aggregation, Lldp!Lost, Lldp!End, Lldp!Parsed,
       Lldp!AtEnd, Lldp!Ignores, Lldp!Reads, Lldp!Line
  <2>2. QED BY <1>5, <2>1 DEF Lldp!Command, Lldp!Ignores, Lldp!Reads
<1>8. Held(printed, 1, 1, Lldp!Nil, Lldp!Fresh, <<>>)
  <2>1. (IF 1 > 2 THEN 1 ELSE 1 - 1) = 0 /\ ~(1 > 2)
    OBVIOUS
  <2>2. Saved(printed, 0, <<>>)
    BY DEF Saved
  <2>3. ~Lldp!Fresh.inDesc
    BY DEF Lldp!Fresh
  <2>4. HeldNone(printed, 1, 1, Lldp!Fresh, <<>>)
    BY <2>1, <2>2, <2>3 DEF HeldNone
  <2>5. QED BY <2>4 DEF Held
<1>9. 1 <= IF 1 <= Len(printed) THEN BlockSize(printed[1]) ELSE Len(end) + 1
  <2>1. CASE 1 <= Len(printed)
    <3>1. printed[1] \in Lldp!Neighbor
      BY <2>1
    <3>2. DescSize(printed[1]) \in Nat \ {0} /\ VlanSize(printed[1]) \in Nat \ {0}
      BY <3>1, NeighborTypes
    <3>3. 1 <= BlockSize(printed[1])
      BY <3>2 DEF BlockSize
    <3>4. QED BY <2>1, <3>3
  <2>2. CASE ~(1 <= Len(printed))
    <3>1. Len(end) = 0 \/ Len(end) = 1
      BY DEF LldpEnds
    <3>2. 1 <= Len(end) + 1
      BY <3>1
    <3>3. QED BY <2>2, <3>2
  <2>3. QED BY <2>1, <2>2
<1>10. 1 \in 1..(Len(printed) + 1) /\ 1 \in Nat \ {0}
  OBVIOUS
<1>11. LldpAt(printed, end, 1, 1, F, Lldp!Nil, Lldp!Fresh, <<>>)
  BY <1>4, <1>8, <1>9, <1>10 DEF LldpAt, bs
<1>12. <<>> \in Seq(LldpEntry) /\ 1 \in Nat
  OBVIOUS
<1>13. LldpState(printed, F, Lldp!Nil, Lldp!Fresh, <<>>)
  BY <1>11, <1>12 DEF LldpState
<1>14. QED BY <1>1, <1>7, <1>13

\* The text after the last neighbor.
LEMMA EndLeft ==
  ASSUME NEW ps \in Seq(Lldp!Neighbor), NEW end \in LldpEnds, NEW j \in 1..(Len(end) + 1)
  PROVE  LET t == Left(LldpBlocks(ps, end), Len(ps) + 1, j)
         IN  \/ j = Len(end) + 1 /\ t = <<>>
             \/ /\ Len(end) = 1 /\ j = 1 /\ t # <<>> /\ Head(t).kind = "blank"
                /\ Tail(t) = Left(LldpBlocks(ps, end), Len(ps) + 1, 2)
<1> DEFINE bs == LldpBlocks(ps, end)
           k == Len(ps) + 1
           w == Lldp!Row("blank", <<>>)
<1>1. Blocks(bs, LldpLine) /\ Len(bs) = k /\ bs[k] = end
  BY LldpLines
<1>2. k \in 1..Len(bs)
  BY <1>1
<1>3. w.kind = "blank"
  BY DEF Lldp!Row
<1> HIDE DEF bs, w
<1>4. CASE j = Len(end) + 1
  <2>1. Left(bs, k, Len(bs[k]) + 1) = <<>>
    BY <1>1, <1>2, LeftNext
  <2>2. QED BY <1>1, <1>4, <2>1 DEF bs
<1>5. CASE j # Len(end) + 1
  <2>1. end = <<>> \/ end = <<w>>
    BY DEF LldpEnds, w
  <2>2. end = <<w>> /\ j = 1 /\ Len(end) = 1 /\ end[1] = w
    <3>1. end = <<>> => Len(end) = 0
      OBVIOUS
    <3>2. end # <<>>
      BY <1>5, <3>1
    <3>3. end = <<w>>
      BY <2>1, <3>2
    <3>4. Len(end) = 1 /\ end[1] = w
      BY <3>3
    <3>5. QED BY <1>5, <3>3, <3>4
  <2>3. j \in 1..Len(bs[k]) /\ bs[k][j] = w
    BY <1>1, <2>2
  <2>4. Left(bs, k, j) # <<>> /\ Head(Left(bs, k, j)) = w /\ Tail(Left(bs, k, j)) = Left(bs, k, j + 1)
    BY <1>1, <1>2, <2>3, LeftLine
  <2>5. j + 1 = 2
    BY <2>2
  <2>6. QED BY <1>3, <2>2, <2>4, <2>5 DEF bs
<1>6. QED BY <1>4, <1>5

LEMMA EndStep ==
  ASSUME NEW end \in LldpEnds, printed \in Seq(Lldp!Neighbor), out \in Seq(LldpEntry),
         NEW i, NEW j, LldpAt(printed, end, i, j, text, current, scratch, out), i = Len(printed) + 1,
         Lldp!Next
  PROVE  LldpState(printed, text, current, scratch, out)'
<1> DEFINE bs == LldpBlocks(printed, end)
<1>1. /\ i \in 1..(Len(printed) + 1) /\ j \in Nat \ {0} /\ ~(i <= Len(printed)) /\ i \in Nat
      /\ text = Left(bs, i, j) /\ Held(printed, i, j, current, scratch, out)
  BY DEF LldpAt
<1>2. j \in 1..(Len(end) + 1) /\ Len(end) \in {0, 1}
  <2>1. Len(end) \in {0, 1}
    BY DEF LldpEnds
  <2>2. j <= Len(end) + 1
    BY <1>1 DEF LldpAt
  <2>3. QED BY <1>1, <2>1, <2>2
<1> HIDE DEF bs
<1>3. \/ j = Len(end) + 1 /\ text = <<>>
      \/ /\ Len(end) = 1 /\ j = 1 /\ text # <<>> /\ Head(text).kind = "blank"
         /\ Tail(text) = Left(bs, i, 2)
  BY <1>1, <1>2, EndLeft DEF bs
<1>4. CASE text # <<>>
  <2>1. Len(end) = 1 /\ j = 1 /\ Head(text).kind = "blank" /\ Tail(text) = Left(bs, i, 2)
    BY <1>3, <1>4
  <2>2. Lldp!Blank
    BY <1>4, <2>1 DEF Lldp!Next, Lldp!Command, Lldp!Chassis, Lldp!NoNeighbor, Lldp!Early,
       Lldp!Description, Lldp!DescriptionLine, Lldp!TimeRemaining, Lldp!Late, Lldp!VlanNames,
       Lldp!MoreVlanNames, Lldp!LinkAggregation, Lldp!Aggregation, Lldp!Lost, Lldp!End, Lldp!Parsed,
       Lldp!AtEnd, Lldp!Ignores, Lldp!Reads, Lldp!Line
  <2>3. text' = Left(bs, i, 2) /\ printed' = printed
    BY <2>1, <2>2 DEF Lldp!Blank, Lldp!Reads
  <2>4. out' \in Seq(LldpEntry) /\ Held(printed, i, 2, current', scratch', out')
    <3>1. Held(printed, i, 1, current, scratch, out)
      BY <1>1, <2>1
    <3>2. QED BY <1>1, <2>2, <3>1, OnFirstBlank
  <2>5. LldpAt(printed, end, i, 2, text', current', scratch', out')
    BY <1>1, <2>1, <2>3, <2>4 DEF LldpAt, bs
  <2>6. 2 \in Nat
    OBVIOUS
  <2>7. LldpState(printed, text', current', scratch', out')
    BY <1>1, <2>4, <2>5, <2>6 DEF LldpState
  <2>8. QED BY <2>3, <2>7
<1>5. CASE text = <<>>
  <2>1. Lldp!End \/ UNCHANGED <<printed, text, current, scratch, out>>
    BY <1>5 DEF Lldp!Next, Lldp!Blank, Lldp!Command, Lldp!Chassis, Lldp!NoNeighbor, Lldp!Early,
       Lldp!Description, Lldp!DescriptionLine, Lldp!TimeRemaining, Lldp!Late, Lldp!VlanNames,
       Lldp!MoreVlanNames, Lldp!LinkAggregation, Lldp!Aggregation, Lldp!Lost,
       Lldp!Ignores, Lldp!Reads, Lldp!tvars
  <2>2. CASE Lldp!End
    <3>1. /\ current # Lldp!Nil /\ current' = Lldp!Nil /\ scratch' = scratch /\ text' = text
          /\ printed' = printed /\ out' = Append(out, current)
      BY <2>2 DEF Lldp!End, Lldp!AtEnd, Lldp!Save
    <3>2. HeldSome(printed, i, j, current, scratch, out)
      BY <1>1, <3>1 DEF Held
    <3>3. j = 1
      <4>1. j # 2
        BY <3>2 DEF HeldSome
      <4>2. j = 1 \/ j = 2
        <5>1. Len(end) = 0 => j = 1
          BY <1>2
        <5>2. Len(end) = 1 => j = 1 \/ j = 2
          BY <1>2
        <5>3. QED BY <1>2, <5>1, <5>2
      <4>3. QED BY <4>1, <4>2
    <3>4. /\ ~scratch.inDesc /\ out' \in Seq(LldpEntry)
          /\ Saved(printed, i - 1, out')
      BY <1>1, <3>1, <3>2, <3>3, LastSaved
    <3>5. (IF 1 > 2 THEN i ELSE i - 1) = i - 1 /\ ~(1 > 2)
      OBVIOUS
    <3>6. HeldNone(printed, i, 1, scratch', out')
      BY <3>1, <3>4, <3>5 DEF HeldNone
    <3>7. Held(printed, i, j, current', scratch', out')
      BY <3>1, <3>3, <3>6 DEF Held
    <3>8. LldpAt(printed, end, i, j, text', current', scratch', out')
      BY <3>1, <3>7 DEF LldpAt
    <3>9. LldpState(printed, text', current', scratch', out')
      BY <1>1, <3>4, <3>8 DEF LldpState
    <3>10. QED BY <3>1, <3>9
  <2>3. CASE UNCHANGED <<printed, text, current, scratch, out>>
    <3>1. LldpState(printed, text, current, scratch, out)
      BY <1>1 DEF LldpState
    <3>2. QED BY <2>3, <3>1
  <2>4. QED BY <2>1, <2>2, <2>3
<1>6. QED BY <1>4, <1>5

LEMMA LldpStep ==
  ASSUME LldpState(printed, text, current, scratch, out), Lldp!Next
  PROVE  LldpState(printed, text, current, scratch, out)'
<1>1. printed \in Seq(Lldp!Neighbor) /\ out \in Seq(LldpEntry)
  BY DEF LldpState
<1>2. PICK end \in LldpEnds :
        \/ LldpStart(printed, end, text, current, scratch, out)
        \/ \E i, j \in Nat : LldpAt(printed, end, i, j, text, current, scratch, out)
  BY DEF LldpState
<1>3. CASE LldpStart(printed, end, text, current, scratch, out)
  BY <1>1, <1>3, StartStep
<1>4. CASE \E i, j \in Nat : LldpAt(printed, end, i, j, text, current, scratch, out)
  <2>1. PICK i \in Nat, j \in Nat : LldpAt(printed, end, i, j, text, current, scratch, out)
    BY <1>4
  <2>2. CASE i = Len(printed) + 1
    BY <1>1, <2>1, <2>2, EndStep
  <2>3. CASE i # Len(printed) + 1
    <3> DEFINE bs == LldpBlocks(printed, end)
    <3>1. i \in 1..Len(printed) /\ i <= Len(printed)
      BY <1>1, <2>1, <2>3 DEF LldpAt
    <3>2. /\ j \in Nat \ {0} /\ j <= BlockSize(printed[i])
          /\ text = Left(bs, i, j) /\ Held(printed, i, j, current, scratch, out)
      BY <2>1, <3>1 DEF LldpAt
    <3>3. j \in 1..BlockSize(printed[i])
      <4>1. printed[i] \in Lldp!Neighbor
        BY <1>1, <3>1
      <4>2. DescSize(printed[i]) \in Nat \ {0} /\ VlanSize(printed[i]) \in Nat \ {0}
        BY <4>1, NeighborTypes
      <4>3. BlockSize(printed[i]) \in Nat
        BY <4>2 DEF BlockSize
      <4>4. QED BY <3>2, <4>3
    <3>4. /\ Blocks(bs, LldpLine) /\ Len(bs) = Len(printed) + 1
          /\ Len(bs[i]) = BlockSize(printed[i]) /\ LineOf(i, printed[i], j, bs[i][j])
      BY <1>1, <3>1, <3>3, LldpLines
    <3> HIDE DEF bs
    <3>5. i \in 1..Len(bs) /\ j \in 1..Len(bs[i])
      BY <1>1, <3>1, <3>3, <3>4
    <3>6. text # <<>> /\ Head(text) = bs[i][j] /\ Tail(text) = Left(bs, i, j + 1)
      BY <3>2, <3>4, <3>5, LeftLine
    <3>7. OnLine(i, j)
      BY <1>1, <3>1, <3>2, <3>3, <3>4, <3>6 DEF OnLine
    <3>8. text' = Tail(text) /\ printed' = printed /\ LineDone(i, j)
      BY <3>6, <3>7, LineStep
    <3>9. out' \in Seq(LldpEntry) /\ Held(printed, i, j + 1, current', scratch', out')
      BY <3>8 DEF LineDone
    <3>10. text' = Left(LldpBlocks(printed, end), i, j + 1)
      BY <3>6, <3>8 DEF bs
    <3>11. LldpState(printed, text', current', scratch', out')
      BY <1>1, <3>1, <3>3, <3>9, <3>10, Reached
    <3>12. QED BY <3>8, <3>11
  <2>4. QED BY <2>2, <2>3
<1>5. QED BY <1>2, <1>3, <1>4

\* The entries of the first neighbors are saved, and at the end those of all.
LEMMA LldpEntries ==
  ASSUME LldpState(printed, text, current, scratch, out)
  PROVE  /\ printed \in Seq(Lldp!Neighbor) /\ out \in Seq(LldpEntry)
         /\ \E m \in 0..Len(printed) :
              Saved(printed, m, out) /\ (Lldp!Parsed => m = Len(printed))
<1>1. printed \in Seq(Lldp!Neighbor) /\ out \in Seq(LldpEntry)
  BY DEF LldpState
<1>2. DOMAIN out = 1..Len(out) /\ Len(printed) \in Nat
  BY <1>1
<1>3. PICK end \in LldpEnds :
        \/ LldpStart(printed, end, text, current, scratch, out)
        \/ \E i, j \in Nat : LldpAt(printed, end, i, j, text, current, scratch, out)
  BY DEF LldpState
<1>4. CASE LldpStart(printed, end, text, current, scratch, out)
  <2>1. out = <<>> /\ DOMAIN out = {}
    BY <1>4 DEF LldpStart
  <2>2. text # <<>>
    <3> DEFINE a == <<Lldp!Row("command", <<>>)>>
               F == FlattenSeq(LldpBlocks(printed, end))
    <3>1. F \in Seq(LldpLine)
      <4>1. Blocks(LldpBlocks(printed, end), LldpLine)
        BY <1>1, LldpLines
      <4>2. QED BY <4>1, FlatSeq DEF Blocks
    <3>2. a \in Seq(LldpLine) /\ Len(a) = 1
      <4>1. "command" \in LldpKind /\ <<>> \in Val
        BY DEF LldpKind, Val
      <4>2. Lldp!Row("command", <<>>) \in LldpLine
        BY <4>1, RowLine
      <4> DEFINE w == Lldp!Row("command", <<>>)
      <4> HIDE DEF w
      <4>3. <<w>> \in Seq(LldpLine) /\ Len(<<w>>) = 1
        BY <4>2 DEF w
      <4>4. QED BY <4>3 DEF w
    <3>3. text = a \o F
      BY <1>4 DEF LldpStart
    <3> HIDE DEF a, F
    <3>4. Len(a \o F) = 1 + Len(F) /\ Len(F) \in Nat
      <4>1. a \in Seq(LldpLine) /\ F \in Seq(LldpLine)
        BY <3>1, <3>2
      <4>2. Len(a \o F) = Len(a) + Len(F)
        BY <4>1, JoinedElements
      <4>3. QED BY <3>1, <3>2, <4>2
    <3>5. Len(text) # 0
      BY <3>3, <3>4
    <3>6. QED BY <3>5
  <2>3. Saved(printed, 0, out)
    BY <2>1 DEF Saved
  <2>4. 0 \in 0..Len(printed)
    BY <1>2
  <2>5. QED BY <1>1, <2>2, <2>3, <2>4 DEF Lldp!Parsed
<1>5. CASE \E i, j \in Nat : LldpAt(printed, end, i, j, text, current, scratch, out)
  <2>1. PICK i \in Nat, j \in Nat : LldpAt(printed, end, i, j, text, current, scratch, out)
    BY <1>5
  <2>2. i \in 1..(Len(printed) + 1) /\ j \in Nat \ {0} /\ Held(printed, i, j, current, scratch, out)
        /\ text = Left(LldpBlocks(printed, end), i, j)
        /\ j <= IF i <= Len(printed) THEN BlockSize(printed[i]) ELSE Len(end) + 1
    BY <2>1 DEF LldpAt
  <2>3. ASSUME i # Len(printed) + 1 PROVE i \in 1..Len(printed) /\ text # <<>>
    <3> DEFINE bs == LldpBlocks(printed, end)
    <3>1. i \in 1..Len(printed) /\ i <= Len(printed)
      BY <1>2, <2>2, <2>3
    <3>2. printed[i] \in Lldp!Neighbor
      BY <1>1, <3>1
    <3>3. DescSize(printed[i]) \in Nat \ {0} /\ VlanSize(printed[i]) \in Nat \ {0}
      BY <3>2, NeighborTypes
    <3>4. BlockSize(printed[i]) \in Nat
      BY <3>3 DEF BlockSize
    <3>5. j \in 1..BlockSize(printed[i])
      BY <2>2, <3>1, <3>4
    <3>6. Blocks(bs, LldpLine) /\ Len(bs) = Len(printed) + 1 /\ Len(bs[i]) = BlockSize(printed[i])
      BY <1>1, <3>1, LldpLines
    <3> HIDE DEF bs
    <3>7. i \in 1..Len(bs) /\ j \in 1..Len(bs[i])
      BY <1>2, <3>1, <3>5, <3>6
    <3>8. Left(bs, i, j) # <<>>
      BY <3>6, <3>7, LeftLine
    <3>9. QED BY <2>2, <3>1, <3>8 DEF bs
  <2>4. ASSUME i = Len(printed) + 1 PROVE j = 1 \/ j = 2
    <3>1. Len(end) = 0 \/ Len(end) = 1
      BY DEF LldpEnds
    <3>2. ~(i <= Len(printed))
      BY <1>2, <2>4
    <3>3. j <= Len(end) + 1 /\ j \in Nat \ {0}
      BY <2>2, <3>2
    <3>4. CASE Len(end) = 0
      BY <3>3, <3>4
    <3>5. CASE Len(end) = 1
      BY <3>3, <3>5
    <3>6. QED BY <3>1, <3>4, <3>5
  <2>5. CASE current = Lldp!Nil
    <3> DEFINE m == IF j > 2 THEN i ELSE i - 1
    <3>1. HeldNone(printed, i, j, scratch, out)
      BY <2>2, <2>5 DEF Held
    <3>2. Saved(printed, m, out)
      BY <3>1 DEF HeldNone
    <3>3. i = Len(printed) + 1 => m = Len(printed)
      BY <1>2, <2>4
    <3>4. m \in 0..Len(printed)
      <4>1. CASE i = Len(printed) + 1
        BY <1>2, <3>3, <4>1
      <4>2. CASE i # Len(printed) + 1
        BY <1>2, <2>3, <4>2
      <4>3. QED BY <4>1, <4>2
    <3> HIDE DEF m
    <3>5. QED BY <1>1, <1>2, <2>3, <3>2, <3>3, <3>4 DEF Lldp!Parsed
  <2>6. CASE current # Lldp!Nil
    <3> DEFINE k == IF j = 1 THEN i - 1 ELSE i
               m == Before(k, current)
    <3>1. HeldSome(printed, i, j, current, scratch, out)
      BY <2>2, <2>6 DEF Held
    <3>2. Saved(printed, m, out) /\ j # 2 /\ k > 0
      BY <3>1 DEF HeldSome, Before
    <3>3. k \in 1..Len(printed)
      <4>1. i - 1 \in 0..Len(printed)
        BY <1>2, <2>2
      <4>2. QED BY <1>2, <2>2, <2>3, <2>4, <3>2, <4>1
    <3> HIDE DEF k
    <3>4. m \in 0..Len(printed)
      BY <1>2, <3>3 DEF Before
    <3> HIDE DEF m
    <3>5. QED BY <1>1, <1>2, <2>6, <3>2, <3>4 DEF Lldp!Parsed
  <2>7. QED BY <2>5, <2>6
<1>6. QED BY <1>3, <1>4, <1>5

\* What is right for one neighbor says nothing of another.
LEMMA RightValues ==
  ASSUME NEW i, NEW n, NEW e, Right(i, n, e)
  PROVE  /\ \A v \in {e.name, e.time, e.late, e.agg} : v # <<>> => v[1] = i
         /\ \A j \in DOMAIN e.desc : e.desc[j][1] = i
         /\ \A j \in DOMAIN e.vlans : \A k \in DOMAIN e.vlans[j] : e.vlans[j][k][1] = i
<1> DEFINE V == ValuesOf(i)
<1>1. e \in OwnEntry(i)
  BY DEF Right
<1>2. \A y \in V : y[1] = i
  BY DEF ValuesOf
<1>3. /\ e.desc \in Seq(V) /\ e.vlans \in Seq(Seq(V))
      /\ e.name \in V \cup {<<>>} /\ e.time \in V \cup {<<>>} /\ e.late \in V \cup {<<>>}
      /\ e.agg \in V \cup {<<>>}
  BY <1>1 DEF OwnEntry
<1> HIDE DEF V
<1>4. \A j \in DOMAIN e.desc : e.desc[j] \in V
  BY <1>3
<1>5. ASSUME NEW j \in DOMAIN e.vlans, NEW k \in DOMAIN e.vlans[j] PROVE e.vlans[j][k] \in V
  <2> DEFINE y == e.vlans[j]
  <2>1. y \in Seq(V) /\ k \in DOMAIN y
    BY <1>3
  <2> HIDE DEF y
  <2>2. y[k] \in V
    BY <2>1
  <2>3. QED BY <2>2 DEF y
<1>6. \A v \in {e.name, e.time, e.late, e.agg} : v # <<>> => v \in V
  BY <1>3
<1>7. QED BY <1>2, <1>4, <1>5, <1>6

LEMMA LldpReported ==
  ASSUME LldpState(printed, text, current, scratch, out)
  PROVE  Lldp!Unmixed /\ Lldp!Complete
<1>1. printed \in Seq(Lldp!Neighbor) /\ DOMAIN printed = 1..Len(printed) /\ Len(printed) \in Nat
  BY LldpEntries
<1>2. PICK m \in 0..Len(printed) : Saved(printed, m, out) /\ (Lldp!Parsed => m = Len(printed))
  BY LldpEntries
<1>3. ASSUME NEW x \in DOMAIN out
      PROVE  LET i == Lldp!Owner(out[x])
             IN  i \in DOMAIN printed /\ Right(i, printed[i], out[x])
  <2>1. PICK k \in 1..m : Right(k, printed[k], out[x])
    BY <1>2 DEF Saved
  <2>2. out[x].chassis[1] = k
    BY <2>1, RightOwner
  <2>3. k \in 1..m /\ m \in 0..Len(printed)
    BY <1>2, <2>1
  <2>4. k \in 1..Len(printed)
    BY <1>1, <2>3
  <2>5. QED BY <1>1, <2>1, <2>2, <2>4 DEF Lldp!Owner
<1>4. Lldp!Unmixed
  <2>1. ASSUME NEW x \in DOMAIN out
        PROVE  LET e == out[x] IN
               /\ Lldp!Owner(e) \in DOMAIN printed /\ (e.chassis = <<Lldp!Owner(e)>> \/ Lldp!Announced(e))
               /\ \A v \in {e.name, e.time, e.late, e.agg} : v # Lldp!Empty => v[1] = Lldp!Owner(e)
               /\ \A j \in DOMAIN e.desc : e.desc[j][1] = Lldp!Owner(e)
               /\ \A j \in DOMAIN e.vlans :
                    \A k \in DOMAIN e.vlans[j] : e.vlans[j][k][1] = Lldp!Owner(e)
    <3> DEFINE e == out[x]
               i == Lldp!Owner(e)
    <3>1. i \in DOMAIN printed /\ Right(i, printed[i], e)
      BY <1>3
    <3>2. e.chassis = <<i>> \/ Lldp!Announced(e)
      <4>1. Begun(i, printed[i], e.chassis)
        BY <3>1 DEF Right
      <4>2. QED BY <4>1 DEF Begun, Lldp!Announced
    <3> HIDE DEF i, e
    <3>3. /\ \A v \in {e.name, e.time, e.late, e.agg} : v # <<>> => v[1] = i
          /\ \A j \in DOMAIN e.desc : e.desc[j][1] = i
          /\ \A j \in DOMAIN e.vlans : \A k \in DOMAIN e.vlans[j] : e.vlans[j][k][1] = i
      BY <3>1, RightValues
    <3>4. QED BY <3>1, <3>2, <3>3 DEF i, e, Lldp!Empty
  <2>2. ASSUME NEW x \in DOMAIN out, NEW y \in DOMAIN out, x < y
        PROVE  \/ Lldp!Owner(out[x]) < Lldp!Owner(out[y])
               \/ Lldp!Owner(out[x]) = Lldp!Owner(out[y]) /\ Len(out[y].chassis) = 2
    BY <1>2, <2>2 DEF Saved, Ordered, Lldp!Owner
  <2>3. ASSUME Lldp!Parsed, NEW i \in DOMAIN printed
        PROVE  \E x \in DOMAIN out : out[x].chassis = <<i>>
    BY <1>1, <1>2, <2>3 DEF Saved
  <2>4. QED BY <2>1, <2>2, <2>3 DEF Lldp!Unmixed
<1>5. ASSUME NEW x \in DOMAIN out
      PROVE  LET e == out[x]
                 i == Lldp!Owner(e)
                 n == printed[i]
             IN  ToSet(n.desc) \cap Lldp!Heard = {} =>
                 /\ e.name = (IF n.named THEN <<i>> ELSE <<>>)
                 /\ {e.time, e.late, e.agg} = {<<i>>}
                 /\ e.desc = [j \in DOMAIN n.desc |-> <<i, j>>]
                 /\ FlattenSeq(e.vlans) = [j \in DOMAIN n.vlans |-> <<i, j>>]
  <2> DEFINE e == out[x]
             i == Lldp!Owner(e)
             n == printed[i]
  <2> SUFFICES ASSUME ToSet(n.desc) \cap Lldp!Heard = {}
               PROVE  /\ e.name = (IF n.named THEN <<i>> ELSE <<>>)
                      /\ {e.time, e.late, e.agg} = {<<i>>}
                      /\ e.desc = [j \in DOMAIN n.desc |-> <<i, j>>]
                      /\ FlattenSeq(e.vlans) = [j \in DOMAIN n.vlans |-> <<i, j>>]
    OBVIOUS
  <2>1. i \in DOMAIN printed /\ Right(i, n, e)
    BY <1>3
  <2>2. n \in Lldp!Neighbor /\ Full(i, n, e)
    BY <1>1, <2>1 DEF Right, Plain
  <2> HIDE DEF n, i, e
  <2>3. DOMAIN n.desc = 1..Len(n.desc) /\ DOMAIN n.vlans = 1..Len(n.vlans)
    BY <2>2, NeighborTypes
  <2>4. QED BY <2>2, <2>3 DEF Full, Lines
<1>6. Lldp!Complete
  BY <1>5, SameFlatten DEF Lldp!Complete, Lldp!Empty, Lldp!ToSet, ToSet, Lldp!FlattenSeq, FlattenSeq
<1>7. QED BY <1>4, <1>6

\* The neighbors of any switch, with descriptions and lists of VLANs of any
\* length and whatever is in them, are reported without a word of each other:
\* a neighbor makes a further entry only for a line of its own description
\* that looks like a chassis id, and is reported in full if its description
\* has no line that the loop acts on: parseLLDPNeighbors.
THEOREM NeighborsReportedAlways == NexusSpec => []NeighborsReported
<1>1. NexusInit => LldpInv
  <2> SUFFICES ASSUME NexusInit, parser = "lldp-neighbor"
               PROVE  LldpState(printed, text, current, scratch, out)
    BY DEF LldpInv
  <2>1. Lldp!Init
    BY DEF NexusInit
  <2>2. QED BY <2>1, LldpInit
<1>2. LldpInv /\ [NexusNext]_vars => LldpInv'
  <2> SUFFICES ASSUME LldpInv, [NexusNext]_vars, parser' = "lldp-neighbor"
               PROVE  LldpState(printed, text, current, scratch, out)'
    BY DEF LldpInv
  <2>1. parser = "lldp-neighbor"
    BY DEF NexusNext, vars
  <2>2. LldpState(printed, text, current, scratch, out)
    BY <2>1 DEF LldpInv
  <2>3. CASE NexusNext
    <3>1. Lldp!Next
      BY <2>1, <2>3 DEF NexusNext
    <3>2. QED BY <2>2, <3>1, LldpStep
  <2>4. CASE UNCHANGED vars
    BY <2>2, <2>4 DEF vars
  <2>5. QED BY <2>3, <2>4
<1>3. LldpInv => NeighborsReported
  BY LldpReported DEF LldpInv, NeighborsReported
<1>4. QED BY <1>1, <1>2, <1>3, PTL DEF NexusSpec

-----------------------------------------------------------------------------
(* BgpText: the text.                                                      *)

BgpLine == [kind : {"vrf"}, vrf : VRF, family : Family] \cup [kind : {"router"}, as : Nat]
           \cup [kind : {"count"}, val : Val] \cup [kind : {"header", "blank"}]
           \cup [kind : {"row"}, columns : Nat, peer : Val, as : Nat]

VrfLine(n) == [kind |-> "vrf", vrf |-> n.vrf, family |-> n.family]

RouterLine(n) == [kind |-> "router", as |-> LocalAS[n.vrf]]

CountLine(i) == [kind |-> "count", val |-> <<i>>]

Heading(i, n) == <<VrfLine(n), RouterLine(n), CountLine(i), [kind |-> "header"]>>

PeerLine(i, j, p, m) == [kind |-> "row", columns |-> m, peer |-> <<i, j>>, as |-> p.as]

BlankLine == [kind |-> "blank"]

PeerBlocks(i, n) == [j \in DOMAIN n.peers |-> Bgp!PeerLines(i, j, n.peers[j])]

\* A section as blocks: its heading, the lines of each peer, and an empty line.
SectionBlocks(i, n) == Framed(Heading(i, n), PeerBlocks(i, n), <<BlankLine>>)

BgpBlocks(ps) == [i \in DOMAIN ps |-> Bgp!Printout(i, ps[i])]

-----------------------------------------------------------------------------
(* BgpText: what the loop holds at each line.                              *)

PeerRecord == [peer : Val, as : Nat, session : {"iBGP", "eBGP"}]

FamilyRecord == [family : Family, count : Val, peers : Seq(PeerRecord)]

Summary == [vrf : VRF, as : Nat, families : Seq(FamilyRecord)]

Item == [vrf : VRF, af : FamilyRecord]

BgpState == [af : FamilyRecord, inTable : BOOLEAN]

\* The sections of a summary, and those of all of them.
SectionsOf(c) == [j \in DOMAIN c.families |-> [vrf |-> c.vrf, af |-> c.families[j]]]

Told(o) == FlattenSeq([x \in DOMAIN o |-> SectionsOf(o[x])])

\* The peers of a section that are reported, after the first m of them.
Got(i, n, m, g) ==
  /\ \A x \in DOMAIN g : \E j \in 1..m :
       /\ ~n.peers[j].wrapped /\ g[x].peer = <<i, j>>
       /\ g[x].session = "iBGP" <=> n.peers[j].as = LocalAS[n.vrf]
  /\ \A j \in 1..m : ~n.peers[j].wrapped => \E x \in DOMAIN g : g[x].peer = <<i, j>>
  /\ \A x, y \in DOMAIN g : x < y => g[x].peer[2] < g[y].peer[2]

Reports(i, n, e) ==
  /\ e.vrf = n.vrf /\ e.af.family = n.family /\ e.af.count = <<i>>
  /\ Got(i, n, Len(n.peers), e.af.peers)

ToldOf(ps, m, x) == x \in Seq(Item) /\ Len(x) = m /\ \A k \in 1..m : Reports(k, ps[k], x[k])

\* Summaries that follow each other are of different VRFs.
Apart(o) == \A x \in 1..(Len(o) - 1) : o[x].vrf # o[x + 1].vrf

ApartFrom(o, vrf) == o # <<>> => o[Len(o)].vrf # vrf

\* While a section is read, those before it are in the summaries, the last of
\* which may be the one that is being built.
Open(ps, i, c, s, o) ==
  /\ c \in Summary /\ s \in BgpState /\ o \in Seq(Summary)
  /\ c.vrf = ps[i].vrf /\ s.af.family = ps[i].family
  /\ ToldOf(ps, i - 1, Told(o) \o SectionsOf(c))
  /\ Apart(o) /\ ApartFrom(o, c.vrf)

Done(ps, i, c, s, o) ==
  /\ Open(ps, i, c, s, o)
  /\ s.af.count = <<i>> /\ Got(i, ps[i], Len(ps[i].peers), s.af.peers)

Ready(ps, m, c, s, o) == IF m = 0 THEN c = Bgp!Nil /\ s.af = Bgp!Nil /\ o = <<>> ELSE Done(ps, m, c, s, o)

Finished(ps, c, o) == c = Bgp!Nil /\ o \in Seq(Summary) /\ ToldOf(ps, Len(ps), Told(o)) /\ Apart(o)

\* Before line h of block k of section i.
InSection(ps, i, k, h, c, s, o) ==
  /\ Open(ps, i, c, s, o)
  /\ k > 1 \/ h > 2 => c.as = LocalAS[ps[i].vrf]
  /\ k > 1 \/ h > 3 => s.af.count = <<i>>
  /\ k > 1 => s.inTable
  /\ Got(i, ps[i], IF k = 1 THEN 0 ELSE IF h = 1 THEN k - 2 ELSE k - 1, s.af.peers)

BgpHeld(ps, i, k, h, c, s, o) ==
  IF k = 1 /\ h = 1 THEN Ready(ps, i - 1, c, s, o) ELSE InSection(ps, i, k, h, c, s, o)

BgpAt(ps, i, k, h, t, c, s, o) ==
  /\ i \in 1..Len(ps) /\ k \in 1..(Len(ps[i].peers) + 2) /\ h \in 1..Len(SectionBlocks(i, ps[i])[k])
  /\ t = Left(SectionBlocks(i, ps[i]), k, h) \o From(BgpBlocks(ps), i + 1)
  /\ BgpHeld(ps, i, k, h, c, s, o)

BgpEnd(ps, t, c, s, o) == t = <<>> /\ (Ready(ps, Len(ps), c, s, o) \/ Finished(ps, c, o))

BgpHolds(ps, t, c, s, o) ==
  /\ ps \in Seq(Bgp!Section)
  /\ \/ \E i, k, h \in Nat : BgpAt(ps, i, k, h, t, c, s, o)
     \/ BgpEnd(ps, t, c, s, o)

BgpInv == parser = "bgp-all-summary" => BgpHolds(printed, text, current, scratch, out)

-----------------------------------------------------------------------------
(* BgpText: facts about the text.                                          *)

LEMMA SectionTyped ==
  ASSUME NEW n \in Bgp!Section
  PROVE  /\ n.vrf \in VRF /\ n.family \in Family /\ LocalAS[n.vrf] \in Nat
         /\ n.peers \in Seq([as : Nat, wrapped : BOOLEAN]) /\ Len(n.peers) \in Nat
         /\ \A j \in 1..Len(n.peers) : n.peers[j].as \in Nat /\ n.peers[j].wrapped \in BOOLEAN
<1>1. n.vrf \in VRF /\ n.family \in Family /\ n.peers \in PeerLists
  BY DEF Bgp!Section
<1>2. LocalAS[n.vrf] \in Nat /\ n.peers \in Seq([as : Nat, wrapped : BOOLEAN])
  BY <1>1, BgpAssumption
<1> DEFINE T == [as : Nat, wrapped : BOOLEAN]
           ns == n.peers
<1>3. ns \in Seq(T) /\ \A p \in T : p.as \in Nat /\ p.wrapped \in BOOLEAN
  BY <1>2
<1> HIDE DEF T, ns
<1>4. Len(ns) \in Nat /\ \A j \in 1..Len(ns) : ns[j] \in T
  BY <1>3
<1>5. QED BY <1>1, <1>2, <1>3, <1>4 DEF ns

LEMMA HeadingLines ==
  ASSUME NEW i \in Nat, NEW n \in Bgp!Section
  PROVE  /\ Heading(i, n) \in Seq(BgpLine) /\ Len(Heading(i, n)) = 4
         /\ Heading(i, n)[1] = VrfLine(n) /\ Heading(i, n)[2] = RouterLine(n)
         /\ Heading(i, n)[3] = CountLine(i) /\ Heading(i, n)[4] = [kind |-> "header"]
<1> DEFINE a == VrfLine(n)
           b == RouterLine(n)
           c == CountLine(i)
           d == [kind |-> "header"]
<1>1. a \in BgpLine
  BY SectionTyped DEF VrfLine, BgpLine
<1>2. b \in BgpLine
  BY SectionTyped DEF RouterLine, BgpLine
<1>3. c \in BgpLine
  BY DEF CountLine, BgpLine, Val
<1>4. d \in BgpLine
  BY DEF BgpLine
<1> HIDE DEF a, b, c, d
<1>5. /\ <<a, b, c, d>> \in Seq(BgpLine) /\ Len(<<a, b, c, d>>) = 4
      /\ <<a, b, c, d>>[1] = a /\ <<a, b, c, d>>[2] = b /\ <<a, b, c, d>>[3] = c /\ <<a, b, c, d>>[4] = d
  BY <1>1, <1>2, <1>3, <1>4
<1>6. Heading(i, n) = <<a, b, c, d>>
  BY DEF Heading, a, b, c, d
<1>7. QED BY <1>5, <1>6 DEF a, b, c, d

LEMMA PeerLinesAre ==
  ASSUME NEW i \in Nat, NEW j \in Nat, NEW p \in [as : Nat, wrapped : BOOLEAN]
  PROVE  LET b == Bgp!PeerLines(i, j, p)
         IN  /\ b \in Seq(BgpLine) /\ Len(b) = IF p.wrapped THEN 2 ELSE 1
             /\ p.wrapped => b[1] = PeerLine(i, j, p, 1) /\ b[2] = PeerLine(i, j, p, 9)
             /\ ~p.wrapped => b[1] = PeerLine(i, j, p, 10)
<1> DEFINE x == PeerLine(i, j, p, 10)
           y == PeerLine(i, j, p, 1)
           z == PeerLine(i, j, p, 9)
<1>1. \A m \in Nat : PeerLine(i, j, p, m) \in BgpLine
  BY DEF PeerLine, BgpLine, Val
<1>2. x \in BgpLine /\ y \in BgpLine /\ z \in BgpLine
  BY <1>1
<1>3. [x EXCEPT !.columns = 1] = y /\ [x EXCEPT !.columns = 9] = z
  BY DEF PeerLine
<1>4. Bgp!PeerLines(i, j, p) = IF p.wrapped THEN <<[x EXCEPT !.columns = 1], [x EXCEPT !.columns = 9]>> ELSE <<x>>
  BY DEF Bgp!PeerLines, PeerLine
<1> HIDE DEF x, y, z
<1>5. Bgp!PeerLines(i, j, p) = IF p.wrapped THEN <<y, z>> ELSE <<x>>
  BY <1>3, <1>4
<1>6. /\ <<y, z>> \in Seq(BgpLine) /\ Len(<<y, z>>) = 2 /\ <<y, z>>[1] = y /\ <<y, z>>[2] = z
      /\ <<x>> \in Seq(BgpLine) /\ Len(<<x>>) = 1 /\ <<x>>[1] = x
  BY <1>2
<1>7. QED BY <1>5, <1>6 DEF x, y, z

LEMMA PeersTyped ==
  ASSUME NEW i \in Nat, NEW n \in Bgp!Section
  PROVE  LET f == PeerBlocks(i, n)
         IN  /\ f \in Seq(Seq(BgpLine)) /\ Len(f) = Len(n.peers) /\ Len(f) \in Nat
             /\ \A j \in 1..Len(f) : f[j] = Bgp!PeerLines(i, j, n.peers[j])
             /\ Heading(i, n) \in Seq(BgpLine) /\ <<BlankLine>> \in Seq(BgpLine)
<1> DEFINE f == PeerBlocks(i, n)
           ns == n.peers
           m == Len(ns)
           T == [as : Nat, wrapped : BOOLEAN]
           X == Seq(BgpLine)
<1>1. ns \in Seq(T) /\ m \in Nat /\ DOMAIN ns = 1..m
  BY SectionTyped
<1>2. f = [j \in 1..m |-> Bgp!PeerLines(i, j, ns[j])]
  BY <1>1 DEF PeerBlocks
<1>3. ASSUME NEW j \in 1..m PROVE Bgp!PeerLines(i, j, ns[j]) \in X
  <2> HIDE DEF ns, T
  <2>1. ns[j] \in T /\ j \in Nat
    BY <1>1
  <2>2. QED BY <2>1, PeerLinesAre DEF T
<1> HIDE DEF f, X, m
<1>4. f \in [1..m -> X]
  BY <1>2, <1>3
<1>5. f \in Seq(X) /\ Len(f) = m /\ \A j \in 1..m : f[j] = Bgp!PeerLines(i, j, ns[j])
  BY <1>1, <1>2, <1>4
<1>6. <<BlankLine>> \in Seq(BgpLine)
  <2>1. BlankLine \in BgpLine
    BY DEF BlankLine, BgpLine
  <2> DEFINE w == BlankLine
  <2> HIDE DEF w
  <2>2. <<w>> \in Seq(BgpLine)
    BY <2>1 DEF w
  <2>3. QED BY <2>2 DEF w
<1>7. Heading(i, n) \in Seq(BgpLine)
  BY HeadingLines
<1>8. QED BY <1>1, <1>5, <1>6, <1>7 DEF f, X, m

LEMMA SectionLines ==
  ASSUME NEW i \in Nat, NEW n \in Bgp!Section
  PROVE  LET b == SectionBlocks(i, n)
             m == Len(n.peers)
         IN  /\ Blocks(b, BgpLine) /\ Len(b) = m + 2 /\ m \in Nat
             /\ b[1] = Heading(i, n) /\ b[m + 2] = <<BlankLine>>
             /\ \A j \in 1..m : b[j + 1] = Bgp!PeerLines(i, j, n.peers[j])
<1> DEFINE h == Heading(i, n)
           f == PeerBlocks(i, n)
           w == <<BlankLine>>
           b == Framed(h, f, w)
<1>1. /\ f \in Seq(Seq(BgpLine)) /\ Len(f) = Len(n.peers) /\ Len(f) \in Nat
      /\ \A j \in 1..Len(f) : f[j] = Bgp!PeerLines(i, j, n.peers[j])
      /\ h \in Seq(BgpLine) /\ w \in Seq(BgpLine)
  BY PeersTyped
<1> HIDE DEF h, f, w
<1>2. /\ Blocks(b, BgpLine) /\ Len(b) = Len(f) + 2
      /\ b[1] = h /\ b[Len(f) + 2] = w
      /\ \A j \in 1..Len(f) : b[j + 1] = f[j]
  BY <1>1, FramedBlocks
<1> HIDE DEF b
<1>3. QED BY <1>1, <1>2 DEF b, h, f, w, SectionBlocks

LEMMA SectionFlat ==
  ASSUME NEW i \in Nat, NEW n \in Bgp!Section
  PROVE  Bgp!Printout(i, n) = FlattenSeq(SectionBlocks(i, n)) /\ Bgp!Printout(i, n) \in Seq(BgpLine)
<1> DEFINE h == Heading(i, n)
           f == PeerBlocks(i, n)
           w == <<BlankLine>>
           b == Framed(h, f, w)
<1>1. Bgp!Printout(i, n) = (h \o FlattenSeq(f)) \o w
  BY SameFlatten DEF Bgp!Printout, Bgp!FlattenSeq, FlattenSeq, Heading, VrfLine, RouterLine, CountLine, BlankLine,
     PeerBlocks
<1>2. f \in Seq(Seq(BgpLine)) /\ h \in Seq(BgpLine) /\ w \in Seq(BgpLine)
  BY PeersTyped
<1> HIDE DEF h, f, w
<1>3. FlattenSeq(b) = (h \o FlattenSeq(f)) \o w /\ FlattenSeq(b) \in Seq(BgpLine)
  BY <1>2, FramedFlat
<1> HIDE DEF b
<1>4. QED BY <1>1, <1>3 DEF b, h, f, w, SectionBlocks

LEMMA BgpBlocksTyped ==
  ASSUME NEW ps \in Seq(Bgp!Section)
  PROVE  /\ Blocks(BgpBlocks(ps), BgpLine) /\ Len(BgpBlocks(ps)) = Len(ps)
         /\ \A i \in 1..Len(ps) : BgpBlocks(ps)[i] = FlattenSeq(SectionBlocks(i, ps[i]))
<1> DEFINE X == Seq(BgpLine)
           m == Len(ps)
           f == BgpBlocks(ps)
<1>1. m \in Nat /\ DOMAIN ps = 1..m /\ \A i \in 1..m : i \in Nat /\ ps[i] \in Bgp!Section
  OBVIOUS
<1> HIDE DEF m
<1>2. \A i \in 1..m : Bgp!Printout(i, ps[i]) \in X /\ Bgp!Printout(i, ps[i]) = FlattenSeq(SectionBlocks(i, ps[i]))
  BY <1>1, SectionFlat
<1>3. f = [i \in 1..m |-> Bgp!Printout(i, ps[i])]
  BY <1>1 DEF BgpBlocks
<1> HIDE DEF f, X
<1>4. f \in [1..m -> X]
  BY <1>2, <1>3
<1>5. f \in Seq(X) /\ Len(f) = m
  BY <1>1, <1>4
<1>6. \A i \in 1..m : f[i] = FlattenSeq(SectionBlocks(i, ps[i]))
  BY <1>2, <1>3
<1>7. QED BY <1>5, <1>6 DEF f, X, m, Blocks

-----------------------------------------------------------------------------
(* BgpText: facts about what is held.                                      *)

LEMMA SectionsTyped ==
  ASSUME NEW c \in Summary
  PROVE  /\ SectionsOf(c) \in Seq(Item) /\ Len(SectionsOf(c)) = Len(c.families)
         /\ \A j \in 1..Len(c.families) : SectionsOf(c)[j] = [vrf |-> c.vrf, af |-> c.families[j]]
<1> DEFINE fs == c.families
           m == Len(fs)
           v == c.vrf
           f == [j \in 1..m |-> [vrf |-> v, af |-> fs[j]]]
<1>1. fs \in Seq(FamilyRecord) /\ v \in VRF
  BY DEF Summary
<1>2. SectionsOf(c) = [j \in DOMAIN fs |-> [vrf |-> v, af |-> fs[j]]]
  BY DEF SectionsOf
<1> HIDE DEF fs, v
<1>3. m \in Nat /\ DOMAIN fs = 1..m /\ \A j \in 1..m : fs[j] \in FamilyRecord
  BY <1>1
<1>4. SectionsOf(c) = f
  BY <1>2, <1>3
<1> HIDE DEF m
<1>5. \A j \in 1..m : [vrf |-> v, af |-> fs[j]] \in Item
  BY <1>1, <1>3 DEF Item
<1> DEFINE I == Item
<1> HIDE DEF I
<1>6. f \in [1..m -> I]
  BY <1>5 DEF I
<1>7. \A j \in 1..m : f[j] = [vrf |-> v, af |-> fs[j]]
  OBVIOUS
<1> HIDE DEF f
<1>8. f \in Seq(I) /\ Len(f) = m
  BY <1>3, <1>6
<1>9. QED BY <1>4, <1>7, <1>8 DEF I, m, v, fs

LEMMA ToldTyped ==
  ASSUME NEW o \in Seq(Summary)
  PROVE  /\ Told(o) \in Seq(Item) /\ Told(<<>>) = <<>>
         /\ [x \in DOMAIN o |-> SectionsOf(o[x])] \in Seq(Seq(Item))
<1> DEFINE X == Seq(Item)
           m == Len(o)
           f == [x \in DOMAIN o |-> SectionsOf(o[x])]
<1>1. m \in Nat /\ DOMAIN o = 1..m /\ \A x \in 1..m : o[x] \in Summary
  OBVIOUS
<1> HIDE DEF m
<1>2. \A x \in 1..m : SectionsOf(o[x]) \in X
  BY <1>1, SectionsTyped
<1>3. f = [x \in 1..m |-> SectionsOf(o[x])]
  BY <1>1
<1> HIDE DEF f, X
<1>4. f \in [1..m -> X]
  BY <1>2, <1>3
<1>5. f \in Seq(X)
  BY <1>1, <1>4
<1>6. FlattenSeq(f) \in X
  BY <1>5, FlatSeq DEF X
<1>7. Told(<<>>) = <<>>
  <2>1. [x \in DOMAIN <<>> |-> SectionsOf(<<>>[x])] = <<>>
    OBVIOUS
  <2>2. FlattenSeq(<<>>) = <<>>
    BY DEF FlattenSeq
  <2>3. QED BY <2>1, <2>2 DEF Told
<1>8. QED BY <1>5, <1>6, <1>7 DEF Told, f, X

LEMMA ToldMore ==
  ASSUME NEW o \in Seq(Summary), NEW w \in Summary
  PROVE  Told(Append(o, w)) = Told(o) \o SectionsOf(w)
<1> DEFINE X == Seq(Item)
           m == Len(o)
           z == Append(o, w)
           f == [x \in DOMAIN o |-> SectionsOf(o[x])]
           g == [x \in DOMAIN z |-> SectionsOf(z[x])]
           h == Append(f, SectionsOf(w))
<1>1. f \in Seq(X) /\ SectionsOf(w) \in X
  BY ToldTyped, SectionsTyped
<1>2. m \in Nat /\ DOMAIN o = 1..m /\ DOMAIN f = 1..m /\ Len(f) = m
  <2>1. m \in Nat /\ DOMAIN o = 1..m
    OBVIOUS
  <2>2. DOMAIN f = 1..m
    BY <2>1
  <2> HIDE DEF f
  <2>3. DOMAIN f = 1..Len(f) /\ Len(f) \in Nat
    BY <1>1
  <2>4. Len(f) = m
    BY <2>1, <2>2, <2>3
  <2>5. QED BY <2>1, <2>2, <2>4
<1>3. z \in Seq(Summary) /\ Len(z) = m + 1 /\ DOMAIN z = 1..(m + 1) /\ (\A x \in 1..m : z[x] = o[x]) /\ z[m + 1] = w
  OBVIOUS
<1>4. \A x \in 1..m : f[x] = SectionsOf(o[x])
  BY <1>2
<1> DEFINE U == SectionsOf(w)
<1> HIDE DEF f, z, m, X, U
<1>5. h \in Seq(X) /\ Len(h) = m + 1 /\ (\A x \in 1..m : h[x] = f[x]) /\ h[m + 1] = U
  <2>1. f \in Seq(X) /\ U \in X
    BY <1>1 DEF U
  <2>2. /\ Append(f, U) \in Seq(X) /\ Len(Append(f, U)) = Len(f) + 1
        /\ \A x \in 1..Len(f) : Append(f, U)[x] = f[x]
        /\ Append(f, U)[Len(f) + 1] = U
    BY <2>1, AppendElements
  <2>3. QED BY <1>2, <2>2 DEF U
<1> HIDE DEF h
<1>6. \A x \in 1..(m + 1) : h[x] = SectionsOf(z[x])
  <2>1. \A x \in 1..(m + 1) : x \in 1..m \/ x = m + 1
    BY <1>2
  <2>2. QED BY <1>3, <1>4, <1>5, <2>1 DEF U
<1>7. h = [x \in 1..(m + 1) |-> h[x]]
  BY <1>5
<1>8. h = g
  BY <1>3, <1>6, <1>7
<1>9. FlattenSeq(h) = FlattenSeq(f) \o SectionsOf(w)
  <2>1. f \in Seq(Seq(Item)) /\ U \in Seq(Item)
    BY <1>1 DEF X, U
  <2>2. FlattenSeq(Append(f, U)) = FlattenSeq(f) \o U
    BY <2>1, AnyLoop!FlattenAppend, SameFlatten
  <2>3. QED BY <2>2 DEF h, U
<1>10. QED BY <1>8, <1>9 DEF Told, f, z

LEMMA SummaryWith ==
  ASSUME NEW c \in Summary, NEW g
  PROVE  [c EXCEPT !.families = g] = [vrf |-> c.vrf, as |-> c.as, families |-> g]
<1> DEFINE F == Seq(FamilyRecord)
<1>1. c \in [vrf : VRF, as : Nat, families : F]
  BY DEF Summary
<1> HIDE DEF F
<1>2. QED BY <1>1

\* A section that is complete joins those before it.
LEMMA Stored ==
  ASSUME NEW ps \in Seq(Bgp!Section), NEW i \in 1..Len(ps), NEW c, NEW s, NEW o, Done(ps, i, c, s, o)
  PROVE  LET w == [c EXCEPT !.families = Append(@, s.af)]
         IN  /\ w \in Summary /\ w.vrf = ps[i].vrf /\ w.families # <<>>
             /\ ToldOf(ps, i, Told(o) \o SectionsOf(w))
<1> DEFINE w == [c EXCEPT !.families = Append(@, s.af)]
           fs == c.families
           gs == Append(fs, s.af)
           a == s.af
           e == [vrf |-> c.vrf, af |-> s.af]
           T == Told(o)
           p == SectionsOf(c)
           q == SectionsOf(w)
<1>1. c \in Summary /\ s \in BgpState /\ o \in Seq(Summary) /\ c.vrf = ps[i].vrf /\ a.family = ps[i].family
      /\ ToldOf(ps, i - 1, T \o p) /\ a.count = <<i>> /\ Got(i, ps[i], Len(ps[i].peers), a.peers)
  BY DEF Done, Open
<1>2. fs \in Seq(FamilyRecord) /\ a \in FamilyRecord /\ c.vrf \in VRF /\ c.as \in Nat
  BY <1>1 DEF Summary, BgpState
<1>3. w = [vrf |-> c.vrf, as |-> c.as, families |-> gs]
  <2>1. w = [c EXCEPT !.families = gs]
    OBVIOUS
  <2> HIDE DEF w, gs
  <2>2. QED BY <1>1, <2>1, SummaryWith
<1> HIDE DEF fs, a
<1>4. gs \in Seq(FamilyRecord) /\ gs # <<>> /\ Len(gs) = Len(fs) + 1 /\ (\A x \in 1..Len(fs) : gs[x] = fs[x])
      /\ gs[Len(fs) + 1] = a
  <2>1. gs = Append(fs, a)
    BY DEF a
  <2>2. QED BY <1>2, <2>1, AppendElements
<1> HIDE DEF gs
<1>5. w \in Summary /\ w.vrf = c.vrf /\ w.families = gs
  BY <1>2, <1>3, <1>4 DEF Summary
<1> HIDE DEF w
<1>6. /\ p \in Seq(Item) /\ Len(p) = Len(fs)
      /\ \A x \in 1..Len(fs) : p[x] = [vrf |-> c.vrf, af |-> fs[x]]
  BY <1>1, SectionsTyped DEF fs
<1>7. /\ q \in Seq(Item) /\ Len(q) = Len(gs)
      /\ \A x \in 1..Len(gs) : q[x] = [vrf |-> c.vrf, af |-> gs[x]]
  <2>1. /\ q \in Seq(Item) /\ Len(q) = Len(w.families)
        /\ \A x \in 1..Len(w.families) : q[x] = [vrf |-> w.vrf, af |-> w.families[x]]
    BY <1>5, SectionsTyped
  <2>2. QED BY <1>5, <2>1
<1>8. T \in Seq(Item)
  BY <1>1, ToldTyped
<1> HIDE DEF T, p, q
<1>9. Len(fs) \in Nat /\ Len(T) \in Nat /\ i \in Nat
  BY <1>2, <1>8
<1> DEFINE y == T \o p
           z == T \o q
<1>10. /\ y \in Seq(Item) /\ Len(y) = Len(T) + Len(p)
       /\ \A k \in 1..Len(T) : y[k] = T[k]
       /\ \A k \in 1..Len(p) : y[Len(T) + k] = p[k]
  <2>1. T \in Seq(Item) /\ p \in Seq(Item)
    BY <1>6, <1>8
  <2>2. QED BY <2>1, JoinedElements
<1>11. /\ z \in Seq(Item) /\ Len(z) = Len(T) + Len(q)
       /\ \A k \in 1..Len(T) : z[k] = T[k]
       /\ \A k \in 1..Len(q) : z[Len(T) + k] = q[k]
  <2>1. T \in Seq(Item) /\ q \in Seq(Item)
    BY <1>7, <1>8
  <2>2. QED BY <2>1, JoinedElements
<1>12. Len(y) = i - 1 /\ \A k \in 1..(i - 1) : Reports(k, ps[k], y[k])
  BY <1>1 DEF ToldOf
<1> HIDE DEF y, z
<1>13. Len(z) = i /\ Len(T) + Len(fs) = i - 1 /\ Len(q) = Len(fs) + 1
  <2>1. Len(y) = Len(T) + Len(p) /\ Len(p) = Len(fs) /\ Len(y) = i - 1
    BY <1>6, <1>10, <1>12
  <2>2. Len(z) = Len(T) + Len(q) /\ Len(q) = Len(gs) /\ Len(gs) = Len(fs) + 1
    BY <1>4, <1>7, <1>11
  <2>3. QED BY <1>9, <2>1, <2>2
<1>14. Reports(i, ps[i], e)
  <2>1. e.vrf = ps[i].vrf /\ e.af = a
    BY <1>1 DEF a
  <2>2. e.af.family = ps[i].family /\ e.af.count = <<i>> /\ Got(i, ps[i], Len(ps[i].peers), e.af.peers)
    BY <1>1, <2>1
  <2> HIDE DEF e
  <2>3. QED BY <2>1, <2>2 DEF Reports
<1>15. ASSUME NEW k \in 1..i PROVE Reports(k, ps[k], z[k])
  <2>1. CASE k \in 1..Len(T)
    <3>1. z[k] = y[k] /\ k \in 1..(i - 1)
      BY <1>9, <1>10, <1>11, <1>13, <2>1
    <3>2. QED BY <1>12, <3>1
  <2>2. CASE k \notin 1..Len(T) /\ k # i
    <3>1. PICK x \in 1..Len(fs) : k = Len(T) + x
      <4>1. k - Len(T) \in 1..Len(fs) /\ k = Len(T) + (k - Len(T))
        BY <1>9, <1>13, <2>2
      <4>2. QED BY <4>1
    <3>2. x \in 1..Len(p) /\ x \in 1..Len(gs) /\ x \in 1..Len(q) /\ k \in 1..(i - 1)
      BY <1>4, <1>6, <1>7, <1>9, <1>13, <2>2, <3>1
    <3>3. q[x] = p[x]
      BY <1>4, <1>6, <1>7, <3>1, <3>2
    <3>4. z[k] = y[k]
      BY <1>10, <1>11, <3>1, <3>2, <3>3
    <3>5. QED BY <1>12, <3>2, <3>4
  <2>3. CASE k = i
    <3>0. Len(gs) = Len(fs) + 1 /\ Len(q) = Len(fs) + 1 /\ Len(T) + Len(fs) = i - 1
      BY <1>4, <1>13
    <3>1. k = Len(T) + (Len(fs) + 1) /\ Len(fs) + 1 \in 1..Len(q) /\ Len(fs) + 1 \in 1..Len(gs)
      BY <1>9, <2>3, <3>0
    <3>2. z[k] = q[Len(fs) + 1]
      BY <1>11, <3>1
    <3>3. q[Len(fs) + 1] = [vrf |-> c.vrf, af |-> a]
      BY <1>4, <1>7, <3>1
    <3>4. QED BY <1>14, <2>3, <3>2, <3>3 DEF a
  <2>4. QED BY <2>1, <2>2, <2>3
<1>16. ToldOf(ps, i, z)
  BY <1>11, <1>13, <1>15 DEF ToldOf
<1>17. QED BY <1>1, <1>4, <1>5, <1>16 DEF w, z, T, q

\* A summary that is complete joins those before it.
LEMMA Emitted ==
  ASSUME NEW ps, NEW m, NEW o \in Seq(Summary), NEW w \in Summary,
         ToldOf(ps, m, Told(o) \o SectionsOf(w)), Apart(o), ApartFrom(o, w.vrf)
  PROVE  /\ Append(o, w) \in Seq(Summary) /\ ToldOf(ps, m, Told(Append(o, w)))
         /\ Apart(Append(o, w)) /\ \A v : v # w.vrf => ApartFrom(Append(o, w), v)
<1> DEFINE z == Append(o, w)
           n == Len(o)
<1>1. Told(z) = Told(o) \o SectionsOf(w)
  BY ToldMore
<1>2. /\ z \in Seq(Summary) /\ Len(z) = n + 1
      /\ \A x \in 1..n : z[x] = o[x]
      /\ z[n + 1] = w
  BY AppendElements
<1>3. n \in Nat /\ (o # <<>> <=> n > 0)
  OBVIOUS
<1>4. (\A x \in 1..(n - 1) : o[x].vrf # o[x + 1].vrf) /\ (n > 0 => o[n].vrf # w.vrf)
  BY <1>3 DEF Apart, ApartFrom
<1> HIDE DEF z, n
<1>5. ASSUME NEW x \in 1..(Len(z) - 1) PROVE z[x].vrf # z[x + 1].vrf
  <2>1. x \in 1..n
    BY <1>2, <1>3
  <2>2. CASE x = n
    <3>1. n > 0 /\ z[x] = o[n] /\ z[x + 1] = w
      BY <1>2, <2>1, <2>2
    <3>2. QED BY <1>4, <3>1
  <2>3. CASE x # n
    <3>1. x \in 1..(n - 1) /\ x + 1 \in 1..n
      BY <1>3, <2>1, <2>3
    <3>2. z[x] = o[x] /\ z[x + 1] = o[x + 1]
      BY <1>2, <2>1, <3>1
    <3>3. QED BY <1>4, <3>1, <3>2
  <2>4. QED BY <2>2, <2>3
<1>6. Apart(z)
  BY <1>5 DEF Apart
<1>7. \A v : v # w.vrf => ApartFrom(z, v)
  BY <1>2 DEF ApartFrom
<1>8. QED BY <1>1, <1>2, <1>6, <1>7 DEF z

LEMMA GotNothing ==
  ASSUME NEW i, NEW n
  PROVE  Got(i, n, 0, <<>>)
<1>1. DOMAIN <<>> = {} /\ 1..0 = {}
  OBVIOUS
<1>2. QED BY <1>1 DEF Got

\* A peer that takes two lines.
LEMMA GotSame ==
  ASSUME NEW i, NEW n, NEW m \in Nat, NEW g, Got(i, n, m, g), n.peers[m + 1].wrapped
  PROVE  Got(i, n, m + 1, g)
<1>1. 1..m \subseteq 1..(m + 1) /\ \A j \in 1..(m + 1) : j \in 1..m \/ j = m + 1
  OBVIOUS
<1>2. \A x \in DOMAIN g : \E j \in 1..m :
        /\ ~n.peers[j].wrapped /\ g[x].peer = <<i, j>>
        /\ g[x].session = "iBGP" <=> n.peers[j].as = LocalAS[n.vrf]
  BY DEF Got
<1>3. \A x \in DOMAIN g : \E j \in 1..(m + 1) :
        /\ ~n.peers[j].wrapped /\ g[x].peer = <<i, j>>
        /\ g[x].session = "iBGP" <=> n.peers[j].as = LocalAS[n.vrf]
  BY <1>1, <1>2
<1>4. \A j \in 1..(m + 1) : ~n.peers[j].wrapped => \E x \in DOMAIN g : g[x].peer = <<i, j>>
  BY <1>1 DEF Got
<1>5. QED BY <1>3, <1>4 DEF Got

\* A peer that takes one line.
LEMMA GotMore ==
  ASSUME NEW i \in Nat, NEW n, NEW m \in Nat, NEW g \in Seq(PeerRecord), NEW r \in PeerRecord, Got(i, n, m, g),
         ~n.peers[m + 1].wrapped, r.peer = <<i, m + 1>>,
         r.session = "iBGP" <=> n.peers[m + 1].as = LocalAS[n.vrf]
  PROVE  Append(g, r) \in Seq(PeerRecord) /\ Got(i, n, m + 1, Append(g, r))
<1> DEFINE h == Append(g, r)
           l == Len(g)
           Fits(e, j) == /\ ~n.peers[j].wrapped /\ e.peer = <<i, j>>
                         /\ e.session = "iBGP" <=> n.peers[j].as = LocalAS[n.vrf]
<1>1. /\ h \in Seq(PeerRecord) /\ Len(h) = l + 1
      /\ \A x \in 1..l : h[x] = g[x]
      /\ h[l + 1] = r
  BY AppendElements
<1>2. l \in Nat /\ DOMAIN g = 1..l
  OBVIOUS
<1>3. \A x \in 1..l : \E j \in 1..m : Fits(g[x], j)
  BY <1>2 DEF Got
<1>4. \A j \in 1..m : ~n.peers[j].wrapped => \E x \in 1..l : g[x].peer = <<i, j>>
  BY <1>2 DEF Got
<1>5. \A x, y \in 1..l : x < y => g[x].peer[2] < g[y].peer[2]
  BY <1>2 DEF Got
<1>6. Fits(r, m + 1)
  OBVIOUS
<1> HIDE DEF h, l
<1>7. DOMAIN h = 1..(l + 1) /\ \A x \in 1..(l + 1) : x \in 1..l \/ x = l + 1
  BY <1>1, <1>2
<1>8. \A j \in 1..(m + 1) : j \in 1..m \/ j = m + 1
  OBVIOUS
<1>9. 1..m \subseteq 1..(m + 1) /\ m + 1 \in 1..(m + 1) /\ 1..l \subseteq 1..(l + 1) /\ l + 1 \in 1..(l + 1)
  BY <1>2
<1>10. ASSUME NEW x \in 1..(l + 1) PROVE \E j \in 1..(m + 1) : Fits(h[x], j)
  <2>1. CASE x \in 1..l
    <3>1. PICK j \in 1..m : Fits(g[x], j)
      BY <1>3, <2>1
    <3> HIDE DEF Fits
    <3>2. Fits(h[x], j) /\ j \in 1..(m + 1)
      BY <1>1, <1>9, <2>1, <3>1
    <3>3. QED BY <3>2
  <2>2. CASE x = l + 1
    <3> HIDE DEF Fits
    <3>1. Fits(h[x], m + 1)
      BY <1>1, <1>6, <2>2
    <3>2. QED BY <1>9, <3>1
  <2>3. QED BY <1>7, <2>1, <2>2
<1>11. ASSUME NEW j \in 1..(m + 1), ~n.peers[j].wrapped PROVE \E x \in 1..(l + 1) : h[x].peer = <<i, j>>
  <2>1. CASE j \in 1..m
    <3>1. PICK x \in 1..l : g[x].peer = <<i, j>>
      BY <1>4, <1>11, <2>1
    <3>2. h[x].peer = <<i, j>> /\ x \in 1..(l + 1)
      BY <1>1, <1>9, <3>1
    <3>3. QED BY <3>2
  <2>2. CASE j = m + 1
    <3>1. h[l + 1].peer = <<i, j>>
      BY <1>1, <2>2
    <3>2. QED BY <1>9, <3>1
  <2>3. QED BY <1>8, <2>1, <2>2
<1>12. ASSUME NEW x \in 1..(l + 1), NEW y \in 1..(l + 1), x < y PROVE h[x].peer[2] < h[y].peer[2]
  <2>1. x \in 1..l
    BY <1>2, <1>12
  <2>2. CASE y \in 1..l
    <3>1. h[x] = g[x] /\ h[y] = g[y]
      BY <1>1, <2>1, <2>2
    <3>2. g[x].peer[2] < g[y].peer[2]
      BY <1>5, <1>12, <2>1, <2>2
    <3>3. QED BY <3>1, <3>2
  <2>3. CASE y = l + 1
    <3>1. PICK j \in 1..m : g[x].peer = <<i, j>>
      BY <1>3, <2>1
    <3>2. h[x].peer = <<i, j>> /\ h[y].peer = <<i, m + 1>>
      BY <1>1, <2>1, <2>3, <3>1
    <3>3. h[x].peer[2] = j /\ h[y].peer[2] = m + 1
      BY <3>2
    <3>4. j < m + 1
      BY <3>1
    <3>5. QED BY <3>3, <3>4
  <2>4. QED BY <1>7, <2>2, <2>3
<1>13. Got(i, n, m + 1, h)
  <2>1. \A x \in DOMAIN h : \E j \in 1..(m + 1) :
          /\ ~n.peers[j].wrapped /\ h[x].peer = <<i, j>>
          /\ h[x].session = "iBGP" <=> n.peers[j].as = LocalAS[n.vrf]
    BY <1>7, <1>10
  <2>2. \A j \in 1..(m + 1) : ~n.peers[j].wrapped => \E x \in DOMAIN h : h[x].peer = <<i, j>>
    BY <1>7, <1>11
  <2>3. \A x, y \in DOMAIN h : x < y => h[x].peer[2] < h[y].peer[2]
    BY <1>7, <1>12
  <2>4. QED BY <2>1, <2>2, <2>3 DEF Got
<1>14. QED BY <1>1, <1>13 DEF h

-----------------------------------------------------------------------------
(* BgpText: the lines.                                                     *)

LEMMA RecordsNotNil ==
  /\ \A c \in Summary : c # Bgp!Nil
  /\ \A a \in FamilyRecord : a # Bgp!Nil
<1>1. DOMAIN Bgp!Nil = {"kind"}
  BY DEF Bgp!Nil
<1>2. \A c \in Summary : "vrf" \in DOMAIN c
  BY DEF Summary
<1>3. \A a \in FamilyRecord : "family" \in DOMAIN a
  BY DEF FamilyRecord
<1>4. QED BY <1>1, <1>2, <1>3

LEMMA StateWith ==
  ASSUME NEW s \in BgpState, NEW v
  PROVE  /\ [s EXCEPT !.af.count = v]
              = [af |-> [family |-> s.af.family, count |-> v, peers |-> s.af.peers], inTable |-> s.inTable]
         /\ [s EXCEPT !.af.peers = v]
              = [af |-> [family |-> s.af.family, count |-> s.af.count, peers |-> v], inTable |-> s.inTable]
         /\ [s EXCEPT !.inTable = v] = [af |-> s.af, inTable |-> v]
<1> DEFINE F == FamilyRecord
           P == Seq(PeerRecord)
           a == s.af
<1>1. s \in [af : F, inTable : BOOLEAN]
  BY DEF BgpState
<1>2. a \in [family : Family, count : Val, peers : P]
  <2>1. a \in F
    BY <1>1
  <2>2. QED BY <2>1 DEF FamilyRecord
<1> HIDE DEF F, P, a
<1>3. [s EXCEPT !.inTable = v] = [af |-> s.af, inTable |-> v]
  BY <1>1
<1>4. \A b : [s EXCEPT !.af = b] = [af |-> b, inTable |-> s.inTable]
  BY <1>1
<1>5. [a EXCEPT !.count = v] = [family |-> a.family, count |-> v, peers |-> a.peers]
  BY <1>2
<1>6. [a EXCEPT !.peers = v] = [family |-> a.family, count |-> a.count, peers |-> v]
  BY <1>2
<1>7. [s EXCEPT !.af.count = v] = [s EXCEPT !.af = [a EXCEPT !.count = v]]
  BY DEF a
<1>8. [s EXCEPT !.af.peers = v] = [s EXCEPT !.af = [a EXCEPT !.peers = v]]
  BY DEF a
<1>9. [s EXCEPT !.af.count = v]
        = [af |-> [family |-> s.af.family, count |-> v, peers |-> s.af.peers], inTable |-> s.inTable]
  BY <1>4, <1>5, <1>7 DEF a
<1>10. [s EXCEPT !.af.peers = v]
         = [af |-> [family |-> s.af.family, count |-> s.af.count, peers |-> v], inTable |-> s.inTable]
  BY <1>4, <1>6, <1>8 DEF a
<1>11. QED BY <1>3, <1>9, <1>10

\* The kind of a line decides what is done with it.
LEMMA BgpKinds ==
  ASSUME text # <<>>, Bgp!Next
  PROVE  /\ text' = Tail(text) /\ printed' = printed
         /\ Head(text).kind = "vrf" => Bgp!Vrf
         /\ Head(text).kind = "router" => Bgp!Router
         /\ Head(text).kind = "count" => Bgp!Count
         /\ Head(text).kind = "header" => Bgp!Header
         /\ Head(text).kind = "row" => Bgp!Peer
         /\ Head(text).kind = "blank" => Bgp!Blank
<1>1. ~Bgp!End /\ ~Bgp!Parsed
  BY DEF Bgp!End, Bgp!AtEnd, Bgp!Parsed
<1>2. Bgp!Blank \/ Bgp!Vrf \/ Bgp!Router \/ Bgp!Count \/ Bgp!Header \/ Bgp!Peer
  BY <1>1 DEF Bgp!Next
<1>3. CASE Bgp!Blank
  BY <1>3 DEF Bgp!Blank, Bgp!Ignores, Bgp!Reads, Bgp!Line
<1>4. CASE Bgp!Vrf
  BY <1>4 DEF Bgp!Vrf, Bgp!Reads, Bgp!Line
<1>5. CASE Bgp!Router
  BY <1>5 DEF Bgp!Router, Bgp!Reads, Bgp!Line
<1>6. CASE Bgp!Count
  BY <1>6 DEF Bgp!Count, Bgp!Reads, Bgp!Line
<1>7. CASE Bgp!Header
  BY <1>7 DEF Bgp!Header, Bgp!Reads, Bgp!Line
<1>8. CASE Bgp!Peer
  BY <1>8 DEF Bgp!Peer, Bgp!Reads, Bgp!Line
<1>9. QED BY <1>2, <1>3, <1>4, <1>5, <1>6, <1>7, <1>8

\* What is held when the header of a section was read.
LEMMA SectionBegun ==
  ASSUME NEW ps \in Seq(Bgp!Section), NEW i \in 1..Len(ps), NEW c \in Summary, NEW o \in Seq(Summary),
         c.vrf = ps[i].vrf, ToldOf(ps, i - 1, Told(o) \o SectionsOf(c)), Apart(o), ApartFrom(o, c.vrf)
  PROVE  InSection(ps, i, 1, 2, c, [af |-> Bgp!NewFamily(ps[i].family), inTable |-> FALSE], o)
<1> DEFINE a == Bgp!NewFamily(ps[i].family)
           s == [af |-> a, inTable |-> FALSE]
<1>1. ps[i].family \in Family
  <2>1. ps[i] \in Bgp!Section
    OBVIOUS
  <2>2. QED BY <2>1, SectionTyped
<1>2. a \in FamilyRecord /\ a.family = ps[i].family /\ a.peers = <<>>
  BY <1>1 DEF Bgp!NewFamily, Bgp!Empty, FamilyRecord, Val
<1> HIDE DEF a
<1>3. s \in BgpState /\ s.af = a
  BY <1>2 DEF BgpState
<1> HIDE DEF s
<1>4. Open(ps, i, c, s, o)
  BY <1>2, <1>3 DEF Open
<1>5. Got(i, ps[i], 0, s.af.peers)
  BY <1>2, <1>3, GotNothing
<1>6. InSection(ps, i, 1, 2, c, s, o)
  BY <1>4, <1>5 DEF InSection
<1>7. QED BY <1>6 DEF s, a

\* A summary without sections.
LEMMA NewSummaryTold ==
  ASSUME NEW v \in VRF, NEW o \in Seq(Summary)
  PROVE  /\ Bgp!NewSummary(v) \in Summary /\ Bgp!NewSummary(v).vrf = v
         /\ Told(o) \o SectionsOf(Bgp!NewSummary(v)) = Told(o)
<1> DEFINE c == Bgp!NewSummary(v)
           T == Told(o)
<1>1. c \in Summary /\ c.vrf = v /\ c.families = <<>>
  BY DEF Bgp!NewSummary, Summary
<1> HIDE DEF c
<1>2. SectionsOf(c) = <<>>
  <2>1. SectionsOf(c) \in Seq(Item) /\ Len(SectionsOf(c)) = Len(c.families)
    BY <1>1, SectionsTyped
  <2>2. Len(SectionsOf(c)) = 0
    BY <1>1, <2>1
  <2>3. QED BY <2>1, <2>2
<1>3. T \in Seq(Item)
  BY ToldTyped
<1> HIDE DEF T
<1>4. T \o <<>> = T
  BY <1>3
<1>5. QED BY <1>1, <1>2, <1>4 DEF c, T

\* The header of a section.
LEMMA VrfRead ==
  ASSUME printed \in Seq(Bgp!Section), NEW i \in 1..Len(printed),
         Ready(printed, i - 1, current, scratch, out),
         text # <<>>, Head(text) = VrfLine(printed[i]), Bgp!Next
  PROVE  InSection(printed, i, 1, 2, current', scratch', out')
<1> DEFINE v == printed[i].vrf
           z == [af |-> Bgp!NewFamily(printed[i].family), inTable |-> FALSE]
           w == [current EXCEPT !.families = Append(@, scratch.af)]
           N == Bgp!NewSummary(v)
<1>1. Head(text).kind = "vrf" /\ Head(text).vrf = v /\ Head(text).family = printed[i].family
  BY DEF VrfLine
<1>2. Bgp!Vrf
  BY <1>1, BgpKinds
<1>3. v \in VRF
  <2>1. printed[i] \in Bgp!Section
    OBVIOUS
  <2>2. QED BY <2>1, SectionTyped
<1>4. scratch' = z
  BY <1>1, <1>2 DEF Bgp!Vrf, Bgp!Line
<1>5. \/ current # Bgp!Nil /\ current.vrf = v /\ current' = Bgp!WithFamily /\ out' = out
      \/ ~(current # Bgp!Nil /\ current.vrf = v) /\ Bgp!Emit(Bgp!WithFamily) /\ current' = N
  BY <1>1, <1>2 DEF Bgp!Vrf, Bgp!Line
<1>6. N \in Summary /\ N.vrf = v
  <2>1. <<>> \in Seq(Summary)
    OBVIOUS
  <2>2. QED BY <1>3, <2>1, NewSummaryTold
<1> HIDE DEF N, z
<1>7. ASSUME out' \in Seq(Summary), current' = N, ToldOf(printed, i - 1, Told(out')), Apart(out'), ApartFrom(out', v)
      PROVE  InSection(printed, i, 1, 2, current', scratch', out')
  <2>1. Told(out') \o SectionsOf(N) = Told(out')
    BY <1>3, <1>7, NewSummaryTold DEF N
  <2>2. ToldOf(printed, i - 1, Told(out') \o SectionsOf(N)) /\ ApartFrom(out', N.vrf)
    BY <1>6, <1>7, <2>1
  <2> DEFINE q == out'
  <2>3. q \in Seq(Summary) /\ ToldOf(printed, i - 1, Told(q) \o SectionsOf(N)) /\ Apart(q) /\ ApartFrom(q, N.vrf)
    BY <1>7, <2>2
  <2> HIDE DEF q
  <2>4. InSection(printed, i, 1, 2, N, z, q)
    BY <1>6, <2>3, SectionBegun DEF z
  <2>5. QED BY <1>4, <1>7, <2>4 DEF q
<1>8. CASE i = 1
  <2>1. current = Bgp!Nil /\ out = <<>>
    BY <1>8 DEF Ready
  <2>2. Bgp!WithFamily = Bgp!Nil
    BY <2>1 DEF Bgp!WithFamily
  <2>3. out' = <<>> /\ current' = N
    BY <1>5, <2>1, <2>2 DEF Bgp!Emit
  <2>4. <<>> \in Seq(Summary) /\ <<>> \in Seq(Item) /\ Len(<<>>) = 0 /\ 1..0 = {} /\ 1..(0 - 1) = {} /\ i - 1 = 0
    BY <1>8
  <2>5. Told(<<>>) = <<>>
    BY <2>4, ToldTyped
  <2>6. ToldOf(printed, i - 1, Told(<<>>))
    BY <2>4, <2>5 DEF ToldOf
  <2>7. Apart(<<>>) /\ ApartFrom(<<>>, v)
    BY <2>4 DEF Apart, ApartFrom
  <2>8. QED BY <1>7, <2>3, <2>4, <2>6, <2>7
<1>9. CASE i # 1
  <2> DEFINE m == i - 1
  <2>1. m \in 1..Len(printed) /\ m # 0
    BY <1>9
  <2> HIDE DEF m
  <2>2. Done(printed, m, current, scratch, out)
    BY <2>1 DEF Ready, m
  <2>3. current \in Summary /\ scratch \in BgpState /\ out \in Seq(Summary) /\ Apart(out) /\ ApartFrom(out, current.vrf)
        /\ current.vrf = printed[m].vrf
    BY <2>2 DEF Done, Open
  <2>4. w \in Summary /\ w.vrf = printed[m].vrf /\ w.families # <<>> /\ ToldOf(printed, m, Told(out) \o SectionsOf(w))
    BY <2>1, <2>2, Stored
  <2>5. current # Bgp!Nil /\ scratch.af # Bgp!Nil /\ w # Bgp!Nil
    <3>1. scratch.af \in FamilyRecord
      BY <2>3 DEF BgpState
    <3> HIDE DEF w
    <3>2. QED BY <2>3, <2>4, <3>1, RecordsNotNil
  <2>6. Bgp!WithFamily = w
    BY <2>5 DEF Bgp!WithFamily
  <2> HIDE DEF w
  <2>7. CASE current.vrf = v
    <3>1. current' = w /\ out' = out
      BY <1>5, <2>5, <2>6, <2>7
    <3>2. w.vrf = v /\ ApartFrom(out, w.vrf) /\ Apart(out) /\ ToldOf(printed, i - 1, Told(out) \o SectionsOf(w))
      BY <2>3, <2>4, <2>7 DEF m
    <3>3. InSection(printed, i, 1, 2, w, z, out)
      BY <2>3, <2>4, <3>2, SectionBegun DEF z
    <3>4. QED BY <1>4, <3>1, <3>3
  <2>8. CASE current.vrf # v
    <3>1. current' = N /\ Bgp!Emit(w)
      BY <1>5, <2>6, <2>8
    <3>2. out' = Append(out, w)
      BY <2>4, <2>5, <3>1 DEF Bgp!Emit
    <3>3. w.vrf = current.vrf /\ ApartFrom(out, w.vrf) /\ v # w.vrf
      BY <2>3, <2>4, <2>8
    <3> DEFINE q == Append(out, w)
    <3>4. q \in Seq(Summary) /\ ToldOf(printed, m, Told(q)) /\ Apart(q) /\ \A x : x # w.vrf => ApartFrom(q, x)
      BY <2>3, <2>4, <3>3, Emitted
    <3> HIDE DEF q
    <3>5. ApartFrom(q, v) /\ ToldOf(printed, i - 1, Told(q))
      BY <3>3, <3>4 DEF m
    <3>6. out' = q
      BY <3>2 DEF q
    <3>7. QED BY <1>7, <3>1, <3>4, <3>5, <3>6
  <2>9. QED BY <2>7, <2>8
<1>10. QED BY <1>8, <1>9

\* Router id and local AS.
LEMMA RouterRead ==
  ASSUME printed \in Seq(Bgp!Section), NEW i \in 1..Len(printed),
         InSection(printed, i, 1, 2, current, scratch, out),
         text # <<>>, Head(text) = RouterLine(printed[i]), Bgp!Next
  PROVE  InSection(printed, i, 1, 3, current', scratch', out')
<1> DEFINE a == LocalAS[printed[i].vrf]
<1>1. Head(text).kind = "router" /\ Head(text).as = a
  BY DEF RouterLine
<1>2. Bgp!Router
  BY <1>1, BgpKinds
<1>3. current' = [current EXCEPT !.as = a] /\ scratch' = scratch /\ out' = out
  BY <1>1, <1>2 DEF Bgp!Router, Bgp!Line
<1>4. a \in Nat
  <2>1. printed[i] \in Bgp!Section
    OBVIOUS
  <2>2. QED BY <2>1, SectionTyped
<1> HIDE DEF a
<1>5. Open(printed, i, current, scratch, out) /\ Got(i, printed[i], 0, scratch.af.peers)
  BY DEF InSection
<1>6. current \in Summary /\ ToldOf(printed, i - 1, Told(out) \o SectionsOf(current))
  BY <1>5 DEF Open
<1>7. current' \in Summary /\ current'.vrf = current.vrf /\ current'.families = current.families /\ current'.as = a
  <2> DEFINE F == Seq(FamilyRecord)
             c == [current EXCEPT !.as = a]
  <2>1. current \in [vrf : VRF, as : Nat, families : F]
    BY <1>6 DEF Summary
  <2> HIDE DEF F
  <2>2. c \in [vrf : VRF, as : Nat, families : F] /\ c.vrf = current.vrf /\ c.families = current.families /\ c.as = a
    BY <1>4, <2>1
  <2>3. QED BY <1>3, <2>2 DEF Summary, F
<1>8. SectionsOf(current') = SectionsOf(current)
  BY <1>7 DEF SectionsOf
<1>9. Open(printed, i, current', scratch', out')
  BY <1>3, <1>5, <1>7, <1>8 DEF Open
<1>10. current'.as = LocalAS[printed[i].vrf]
  BY <1>7 DEF a
<1>11. QED BY <1>3, <1>5, <1>9, <1>10 DEF InSection

\* A memory that differs in the counts, the peers or the flag only.
LEMMA OpenStays ==
  ASSUME NEW ps, NEW i, NEW c, NEW s, NEW o, Open(ps, i, c, s, o), NEW s2,
         s2 \in BgpState, s2.af.family = s.af.family
  PROVE  Open(ps, i, c, s2, o)
BY DEF Open

LEMMA StateFields ==
  ASSUME NEW s \in BgpState
  PROVE  /\ s.af \in FamilyRecord /\ s.inTable \in BOOLEAN
         /\ s.af.family \in Family /\ s.af.count \in Val /\ s.af.peers \in Seq(PeerRecord)
<1> DEFINE P == Seq(PeerRecord)
<1>1. s.af \in FamilyRecord /\ s.inTable \in BOOLEAN
  BY DEF BgpState
<1>2. s.af.family \in Family /\ s.af.count \in Val /\ s.af.peers \in P
  <2> HIDE DEF P
  <2>1. FamilyRecord = [family : Family, count : Val, peers : P]
    BY DEF FamilyRecord, P
  <2>2. QED BY <1>1, <2>1
<1>3. QED BY <1>1, <1>2 DEF P

\* What a memory with other counts, peers or flag is.
LEMMA StateCount ==
  ASSUME NEW s \in BgpState, NEW v \in Val
  PROVE  LET z == [s EXCEPT !.af.count = v]
         IN  /\ z \in BgpState /\ z.af.family = s.af.family /\ z.af.count = v
             /\ z.af.peers = s.af.peers /\ z.inTable = s.inTable
<1> DEFINE z == [s EXCEPT !.af.count = v]
           b == [family |-> s.af.family, count |-> v, peers |-> s.af.peers]
<1>1. z = [af |-> b, inTable |-> s.inTable]
  BY StateWith
<1>2. s.inTable \in BOOLEAN /\ s.af.family \in Family /\ s.af.peers \in Seq(PeerRecord)
  BY StateFields
<1>3. b \in FamilyRecord
  BY <1>2 DEF FamilyRecord
<1>4. b.family = s.af.family /\ b.count = v /\ b.peers = s.af.peers
  OBVIOUS
<1> HIDE DEF b, z
<1>5. z \in BgpState /\ z.af = b /\ z.inTable = s.inTable
  BY <1>1, <1>2, <1>3 DEF BgpState
<1>6. QED BY <1>4, <1>5 DEF z

LEMMA StatePeers ==
  ASSUME NEW s \in BgpState, NEW v \in Seq(PeerRecord)
  PROVE  LET z == [s EXCEPT !.af.peers = v]
         IN  /\ z \in BgpState /\ z.af.family = s.af.family /\ z.af.count = s.af.count
             /\ z.af.peers = v /\ z.inTable = s.inTable
<1> DEFINE z == [s EXCEPT !.af.peers = v]
           b == [family |-> s.af.family, count |-> s.af.count, peers |-> v]
<1>1. z = [af |-> b, inTable |-> s.inTable]
  BY StateWith
<1>2. s.inTable \in BOOLEAN /\ s.af.family \in Family /\ s.af.count \in Val
  BY StateFields
<1>3. b \in FamilyRecord
  BY <1>2 DEF FamilyRecord
<1>4. b.family = s.af.family /\ b.count = s.af.count /\ b.peers = v
  OBVIOUS
<1> HIDE DEF b, z
<1>5. z \in BgpState /\ z.af = b /\ z.inTable = s.inTable
  BY <1>1, <1>2, <1>3 DEF BgpState
<1>6. QED BY <1>4, <1>5 DEF z

LEMMA StateFlag ==
  ASSUME NEW s \in BgpState
  PROVE  LET z == [s EXCEPT !.inTable = TRUE]
         IN  z \in BgpState /\ z.af = s.af /\ z.inTable
<1> DEFINE z == [s EXCEPT !.inTable = TRUE]
<1>1. z = [af |-> s.af, inTable |-> TRUE]
  BY StateWith
<1>2. s.af \in FamilyRecord
  BY StateFields
<1> HIDE DEF z
<1>3. z \in BgpState /\ z.af = s.af /\ z.inTable
  BY <1>1, <1>2 DEF BgpState
<1>4. QED BY <1>3 DEF z

\* Table version, networks, attributes, communities.
LEMMA CountRead ==
  ASSUME printed \in Seq(Bgp!Section), NEW i \in 1..Len(printed),
         InSection(printed, i, 1, 3, current, scratch, out),
         text # <<>>, Head(text) = CountLine(i), Bgp!Next
  PROVE  InSection(printed, i, 1, 4, current', scratch', out')
<1>1. Head(text).kind = "count" /\ Head(text).val = <<i>>
  BY DEF CountLine
<1>2. Bgp!Count
  BY <1>1, BgpKinds
<1> DEFINE z == [scratch EXCEPT !.af.count = <<i>>]
<1>3. current' = current /\ scratch' = z /\ out' = out
  BY <1>1, <1>2 DEF Bgp!Count, Bgp!Line
<1>4. Open(printed, i, current, scratch, out) /\ Got(i, printed[i], 0, scratch.af.peers)
      /\ current.as = LocalAS[printed[i].vrf]
  BY DEF InSection
<1>5. scratch \in BgpState
  BY <1>4 DEF Open
<1> DEFINE v == <<i>>
<1>6. v \in Val
  BY DEF Val
<1>7. z \in BgpState /\ z.af.family = scratch.af.family /\ z.af.count = v /\ z.af.peers = scratch.af.peers
  <2> HIDE DEF v
  <2>1. LET y == [scratch EXCEPT !.af.count = v]
        IN  /\ y \in BgpState /\ y.af.family = scratch.af.family /\ y.af.count = v
            /\ y.af.peers = scratch.af.peers
    BY <1>5, <1>6, StateCount
  <2>2. QED BY <2>1 DEF v
<1> HIDE DEF z
<1>8. Open(printed, i, current, z, out)
  BY <1>4, <1>7, OpenStays
<1>9. QED BY <1>3, <1>4, <1>7, <1>8 DEF InSection

\* The head of the table of peers.
LEMMA HeaderRead ==
  ASSUME printed \in Seq(Bgp!Section), NEW i \in 1..Len(printed),
         InSection(printed, i, 1, 4, current, scratch, out),
         text # <<>>, Head(text).kind = "header", Bgp!Next
  PROVE  InSection(printed, i, 2, 1, current', scratch', out')
<1>2. Bgp!Header
  BY BgpKinds
<1> DEFINE z == [scratch EXCEPT !.inTable = TRUE]
<1>3. current' = current /\ scratch' = z /\ out' = out
  BY <1>2 DEF Bgp!Header
<1>4. Open(printed, i, current, scratch, out) /\ Got(i, printed[i], 0, scratch.af.peers)
      /\ current.as = LocalAS[printed[i].vrf] /\ scratch.af.count = <<i>>
  BY DEF InSection
<1>5. scratch \in BgpState
  BY <1>4 DEF Open
<1>7. z \in BgpState /\ z.af = scratch.af /\ z.inTable
  BY <1>5, StateFlag
<1> HIDE DEF z
<1>8. Open(printed, i, current, z, out)
  BY <1>4, <1>7, OpenStays
<1>9. QED BY <1>3, <1>4, <1>7, <1>8 DEF InSection

\* In the table, after m peers.
InTable(ps, i, m, c, s, o) ==
  /\ Open(ps, i, c, s, o) /\ c.as = LocalAS[ps[i].vrf] /\ s.af.count = <<i>> /\ s.inTable
  /\ Got(i, ps[i], m, s.af.peers)

LEMMA InTableIs ==
  ASSUME NEW ps, NEW i, NEW j \in Nat, j > 0, NEW c, NEW s, NEW o
  PROVE  /\ InSection(ps, i, j + 1, 1, c, s, o) <=> InTable(ps, i, j - 1, c, s, o)
         /\ InSection(ps, i, j + 1, 2, c, s, o) <=> InTable(ps, i, j, c, s, o)
         /\ InSection(ps, i, (j + 1) + 1, 1, c, s, o) <=> InTable(ps, i, j, c, s, o)
<1>1. j + 1 > 1 /\ j + 1 # 1 /\ (j + 1) - 2 = j - 1 /\ (j + 1) - 1 = j
      /\ (j + 1) + 1 > 1 /\ (j + 1) + 1 # 1 /\ ((j + 1) + 1) - 2 = j /\ 1 # 2
  OBVIOUS
<1>2. InSection(ps, i, j + 1, 1, c, s, o) <=> InTable(ps, i, j - 1, c, s, o)
  BY <1>1 DEF InSection, InTable
<1>3. InSection(ps, i, j + 1, 2, c, s, o) <=> InTable(ps, i, j, c, s, o)
  BY <1>1 DEF InSection, InTable
<1>4. InSection(ps, i, (j + 1) + 1, 1, c, s, o) <=> InTable(ps, i, j, c, s, o)
  BY <1>1 DEF InSection, InTable
<1>5. QED BY <1>2, <1>3, <1>4

\* A peer on a line of its own.
LEMMA PeerRead ==
  ASSUME printed \in Seq(Bgp!Section), NEW i \in 1..Len(printed), NEW j \in 1..Len(printed[i].peers),
         InTable(printed, i, j - 1, current, scratch, out), ~printed[i].peers[j].wrapped,
         text # <<>>, Head(text) = PeerLine(i, j, printed[i].peers[j], 10), Bgp!Next
  PROVE  InTable(printed, i, j, current', scratch', out')
<1> DEFINE n == printed[i]
           a == n.peers[j].as
           r == [peer |-> <<i, j>>, as |-> a, session |-> Bgp!determineSessionType(a, current.as)]
           g == scratch.af.peers
           h == Append(g, r)
           z == [scratch EXCEPT !.af.peers = h]
<1>1. Head(text).kind = "row" /\ Head(text).columns = 10 /\ Head(text).peer = <<i, j>> /\ Head(text).as = a
  BY DEF PeerLine
<1>2. Bgp!Peer
  BY <1>1, BgpKinds
<1>3. current' = current /\ out' = out
      /\ scratch' = [scratch EXCEPT !.af.peers = Append(@,
                       [peer |-> Head(text).peer, as |-> Head(text).as,
                        session |-> Bgp!determineSessionType(Head(text).as, current.as)])]
  <2>1. ~(10 < 10)
    OBVIOUS
  <2>2. QED BY <1>1, <1>2, <2>1 DEF Bgp!Peer, Bgp!Line
<1>4. scratch' = z
  BY <1>1, <1>3
<1>5. n \in Bgp!Section
  OBVIOUS
<1>6. a \in Nat /\ j \in Nat /\ i \in Nat
  BY <1>5, SectionTyped
<1>7. /\ Open(printed, i, current, scratch, out) /\ current.as = LocalAS[n.vrf] /\ scratch.af.count = <<i>>
      /\ scratch.inTable /\ Got(i, n, j - 1, g)
  BY DEF InTable
<1>8. scratch \in BgpState
  BY <1>7 DEF Open
<1>9. r \in PeerRecord /\ r.peer = <<i, j>> /\ (r.session = "iBGP" <=> a = LocalAS[n.vrf])
  <2>1. <<i, j>> \in Val
    BY <1>6 DEF Val
  <2>2. Bgp!determineSessionType(a, current.as) = IF a = LocalAS[n.vrf] THEN "iBGP" ELSE "eBGP"
    BY <1>7 DEF Bgp!determineSessionType
  <2> HIDE DEF a
  <2>3. QED BY <1>6, <2>1, <2>2 DEF PeerRecord
<1> HIDE DEF r
<1>10. g \in Seq(PeerRecord)
  BY <1>8, StateFields
<1> HIDE DEF g
<1>11. h \in Seq(PeerRecord) /\ Got(i, n, j, h)
  <2> DEFINE m == j - 1
  <2>1. m \in Nat /\ m + 1 = j
    BY <1>6
  <2>2. Got(i, n, m, g)
    BY <1>7
  <2> HIDE DEF m, n
  <2>3. /\ ~n.peers[m + 1].wrapped /\ r.peer = <<i, m + 1>>
        /\ r.session = "iBGP" <=> n.peers[m + 1].as = LocalAS[n.vrf]
    BY <1>9, <2>1 DEF n
  <2>4. Append(g, r) \in Seq(PeerRecord) /\ Got(i, n, m + 1, Append(g, r))
    BY <1>6, <1>9, <1>10, <2>1, <2>2, <2>3, GotMore
  <2>5. QED BY <2>1, <2>4
<1> HIDE DEF h
<1>12. /\ z \in BgpState /\ z.af.family = scratch.af.family /\ z.af.count = scratch.af.count
       /\ z.af.peers = h /\ z.inTable = scratch.inTable
  BY <1>8, <1>11, StatePeers
<1> HIDE DEF z
<1>13. Open(printed, i, current, z, out)
  BY <1>7, <1>12, OpenStays
<1>14. InTable(printed, i, j, current, z, out)
  BY <1>7, <1>11, <1>12, <1>13 DEF InTable
<1>15. QED BY <1>3, <1>4, <1>14

\* A line of a peer that takes two lines.
LEMMA PartRead ==
  ASSUME NEW i, NEW j, NEW p, NEW m \in {1, 9},
         text # <<>>, Head(text) = PeerLine(i, j, p, m), Bgp!Next
  PROVE  current' = current /\ scratch' = scratch /\ out' = out
<1>1. Head(text).kind = "row" /\ Head(text).columns = m
  BY DEF PeerLine
<1>2. Bgp!Peer
  BY <1>1, BgpKinds
<1>3. m < 10
  OBVIOUS
<1>4. QED BY <1>1, <1>2, <1>3 DEF Bgp!Peer, Bgp!Line

\* The first of its lines.
LEMMA WrappedRead ==
  ASSUME printed \in Seq(Bgp!Section), NEW i \in 1..Len(printed), NEW j \in 1..Len(printed[i].peers),
         InTable(printed, i, j - 1, current, scratch, out), printed[i].peers[j].wrapped,
         text # <<>>, Head(text) = PeerLine(i, j, printed[i].peers[j], 1), Bgp!Next
  PROVE  InTable(printed, i, j, current', scratch', out')
<1> DEFINE n == printed[i]
           m == j - 1
           g == scratch.af.peers
<1>1. current' = current /\ scratch' = scratch /\ out' = out
  BY PartRead
<1>2. j \in Nat
  <2>1. n \in Bgp!Section
    OBVIOUS
  <2>2. QED BY <2>1, SectionTyped
<1>3. m \in Nat /\ m + 1 = j /\ Got(i, n, m, g)
  BY <1>2 DEF InTable
<1> HIDE DEF m
<1>4. n.peers[m + 1].wrapped
  BY <1>3
<1> HIDE DEF n, g
<1>5. Got(i, n, m + 1, g)
  BY <1>3, <1>4, GotSame
<1>6. Got(i, printed[i], j, scratch.af.peers)
  BY <1>3, <1>5 DEF n, g
<1>7. InTable(printed, i, j, current, scratch, out)
  BY <1>6 DEF InTable
<1>8. QED BY <1>1, <1>7

\* The empty line after a section.
LEMMA BlankRead ==
  ASSUME printed \in Seq(Bgp!Section), NEW i \in 1..Len(printed),
         InTable(printed, i, Len(printed[i].peers), current, scratch, out),
         text # <<>>, Head(text) = BlankLine, Bgp!Next
  PROVE  Done(printed, i, current', scratch', out')
<1>1. Head(text).kind = "blank"
  BY DEF BlankLine
<1>2. Bgp!Blank
  BY <1>1, BgpKinds
<1>3. current' = current /\ scratch' = scratch /\ out' = out
  BY <1>2 DEF Bgp!Blank, Bgp!Ignores
<1>4. Done(printed, i, current, scratch, out)
  BY DEF InTable, Done
<1>5. QED BY <1>3, <1>4

-----------------------------------------------------------------------------
(* BgpText: from line to line.                                             *)

\* The text before a section.
LEMMA BeforeSection ==
  ASSUME NEW ps \in Seq(Bgp!Section), NEW m \in 0..Len(ps), NEW c, NEW s, NEW o, Ready(ps, m, c, s, o)
  PROVE  BgpHolds(ps, From(BgpBlocks(ps), m + 1), c, s, o)
<1> DEFINE B == BgpBlocks(ps)
           i == m + 1
           L == Len(ps)
<1>1. L \in Nat /\ m \in Nat /\ i - 1 = m /\ i \in Nat
  OBVIOUS
<1>2. Blocks(B, BgpLine) /\ Len(B) = L /\ \A x \in 1..L : B[x] = FlattenSeq(SectionBlocks(x, ps[x]))
  BY BgpBlocksTyped
<1>3. CASE m = L
  <2>1. From(B, L + 1) = <<>>
    <3> HIDE DEF B, L
    <3>1. L + 1 \in 1..(Len(B) + 1)
      BY <1>1, <1>2
    <3>2. From(B, Len(B) + 1) = <<>>
      BY <1>2, <3>1, FromTyped
    <3>3. QED BY <1>2, <3>2
  <2>2. BgpEnd(ps, From(B, m + 1), c, s, o)
    BY <1>3, <2>1 DEF BgpEnd
  <2>3. QED BY <2>2 DEF BgpHolds
<1>4. CASE m # L
  <2> DEFINE n == ps[i]
             b == SectionBlocks(i, n)
  <2>1. i \in 1..L
    BY <1>1, <1>4
  <2>2. n \in Bgp!Section
    BY <2>1
  <2>3. /\ Blocks(b, BgpLine) /\ Len(b) = Len(n.peers) + 2 /\ Len(n.peers) \in Nat
        /\ b[1] = Heading(i, n)
    BY <1>1, <2>2, SectionLines
  <2>4. Len(Heading(i, n)) = 4
    BY <1>1, <2>2, HeadingLines
  <2>5. From(B, i) = B[i] \o From(B, i + 1)
    <3> HIDE DEF B, L, i
    <3>1. i \in 1..Len(B)
      BY <1>2, <2>1
    <3>2. QED BY <1>2, <3>1, FromBlock
  <2>6. B[i] = FlattenSeq(b)
    BY <1>2, <2>1
  <2> HIDE DEF b
  <2>7. FlattenSeq(b) = Left(b, 1, 1)
    <3>1. Len(b) > 0
      BY <2>3
    <3>2. b # <<>>
      BY <3>1
    <3>3. QED BY <2>3, <3>2, LeftFirst
  <2>8. From(B, i) = Left(b, 1, 1) \o From(B, i + 1)
    BY <2>5, <2>6, <2>7
  <2>9. 1 \in 1..(Len(n.peers) + 2) /\ 1 \in 1..Len(b[1]) /\ 1 \in Nat
    <3> DEFINE x == b[1]
               m1 == Len(n.peers)
    <3>1. Len(x) = 4 /\ m1 \in Nat
      BY <2>3, <2>4
    <3> HIDE DEF x, m1
    <3>2. 1 \in 1..(m1 + 2) /\ 1 \in 1..Len(x)
      BY <3>1
    <3>3. QED BY <3>2 DEF x, m1
  <2> DEFINE t == From(B, i)
  <2>10. BgpHeld(ps, i, 1, 1, c, s, o)
    BY <1>1 DEF BgpHeld
  <2>11. BgpAt(ps, i, 1, 1, t, c, s, o)
    BY <2>1, <2>8, <2>9, <2>10 DEF BgpAt, b
  <2> HIDE DEF t
  <2>12. BgpHolds(ps, t, c, s, o)
    <3> HIDE DEF i
    <3> QED BY <1>1, <2>9, <2>11 DEF BgpHolds
  <2>13. QED BY <2>12 DEF t
<1>5. QED BY <1>3, <1>4

\* The line that is read, and what is left after it.
LEMMA BgpRead ==
  ASSUME NEW ps \in Seq(Bgp!Section), NEW i \in 1..Len(ps), NEW k \in 1..(Len(ps[i].peers) + 2),
         NEW h \in 1..Len(SectionBlocks(i, ps[i])[k])
  PROVE  LET b == SectionBlocks(i, ps[i])
             r == From(BgpBlocks(ps), i + 1)
             t == Left(b, k, h) \o r
         IN  /\ t # <<>> /\ Head(t) = b[k][h]
             /\ h < Len(b[k]) => Tail(t) = Left(b, k, h + 1) \o r
             /\ h = Len(b[k]) /\ k # Len(ps[i].peers) + 2 => Tail(t) = Left(b, k + 1, 1) \o r
             /\ h = Len(b[k]) /\ k = Len(ps[i].peers) + 2 => Tail(t) = r
<1> DEFINE n == ps[i]
           b == SectionBlocks(i, n)
           B == BgpBlocks(ps)
           r == From(B, i + 1)
           t == LeftBefore(b, k, h, r)
           m == Len(n.peers)
<1>1. n \in Bgp!Section /\ i \in Nat
  OBVIOUS
<1>2. Blocks(b, BgpLine) /\ Len(b) = m + 2
  BY <1>1, SectionLines
<1>3. r \in Seq(BgpLine)
  <2>1. Blocks(B, BgpLine) /\ Len(B) = Len(ps)
    BY BgpBlocksTyped
  <2> HIDE DEF B
  <2>2. i + 1 \in 1..(Len(B) + 1)
    BY <2>1
  <2>3. QED BY <2>1, <2>2, FromTyped
<1>4. k \in 1..Len(b) /\ h \in 1..Len(b[k])
  BY <1>2
<1> HIDE DEF m, b, r
<1>5. /\ t # <<>> /\ Head(t) = b[k][h]
      /\ h < Len(b[k]) => Tail(t) = LeftBefore(b, k, h + 1, r)
      /\ h = Len(b[k]) /\ k # Len(b) => Tail(t) = LeftBefore(b, k + 1, 1, r)
      /\ h = Len(b[k]) /\ k = Len(b) => Tail(t) = r
  BY <1>2, <1>3, <1>4, TextRead
<1>6. QED BY <1>2, <1>5 DEF b, r, m, LeftBefore

\* The lines of the blocks of a section.
LEMMA BlockLines ==
  ASSUME NEW i \in Nat, NEW n \in Bgp!Section
  PROVE  LET b == SectionBlocks(i, n)
         IN  /\ Len(b[1]) = 4 /\ b[1][1] = VrfLine(n) /\ b[1][2] = RouterLine(n)
             /\ b[1][3] = CountLine(i) /\ b[1][4].kind = "header"
             /\ Len(b[Len(n.peers) + 2]) = 1 /\ b[Len(n.peers) + 2][1] = BlankLine
             /\ \A j \in 1..Len(n.peers) :
                  /\ Len(b[j + 1]) = IF n.peers[j].wrapped THEN 2 ELSE 1
                  /\ n.peers[j].wrapped => /\ b[j + 1][1] = PeerLine(i, j, n.peers[j], 1)
                                           /\ b[j + 1][2] = PeerLine(i, j, n.peers[j], 9)
                  /\ ~n.peers[j].wrapped => b[j + 1][1] = PeerLine(i, j, n.peers[j], 10)
<1> DEFINE b == SectionBlocks(i, n)
           m == Len(n.peers)
           ns == n.peers
           T == [as : Nat, wrapped : BOOLEAN]
<1>1. /\ m \in Nat /\ b[1] = Heading(i, n) /\ b[m + 2] = <<BlankLine>>
      /\ \A j \in 1..m : b[j + 1] = Bgp!PeerLines(i, j, ns[j])
  BY SectionLines
<1>2. ns \in Seq(T)
  BY SectionTyped
<1> HIDE DEF b, T
<1>3. Len(b[1]) = 4 /\ b[1][1] = VrfLine(n) /\ b[1][2] = RouterLine(n)
      /\ b[1][3] = CountLine(i) /\ b[1][4].kind = "header"
  <2>1. /\ Len(Heading(i, n)) = 4 /\ Heading(i, n)[1] = VrfLine(n) /\ Heading(i, n)[2] = RouterLine(n)
        /\ Heading(i, n)[3] = CountLine(i) /\ Heading(i, n)[4] = [kind |-> "header"]
    BY HeadingLines
  <2>2. QED BY <1>1, <2>1
<1>4. Len(b[m + 2]) = 1 /\ b[m + 2][1] = BlankLine
  <2> DEFINE w == BlankLine
  <2> HIDE DEF w
  <2>1. Len(<<w>>) = 1 /\ <<w>>[1] = w
    OBVIOUS
  <2>2. b[m + 2] = <<w>>
    BY <1>1 DEF w
  <2>3. QED BY <2>1, <2>2 DEF w
<1>5. ASSUME NEW j \in 1..m
      PROVE  /\ Len(b[j + 1]) = IF n.peers[j].wrapped THEN 2 ELSE 1
             /\ n.peers[j].wrapped => /\ b[j + 1][1] = PeerLine(i, j, n.peers[j], 1)
                                      /\ b[j + 1][2] = PeerLine(i, j, n.peers[j], 9)
             /\ ~n.peers[j].wrapped => b[j + 1][1] = PeerLine(i, j, n.peers[j], 10)
  <2> DEFINE p == ns[j]
  <2>1. p \in T /\ j \in Nat
    <3> HIDE DEF ns
    <3> QED BY <1>2, <1>5 DEF ns
  <2>2. b[j + 1] = Bgp!PeerLines(i, j, p)
    BY <1>1
  <2> DEFINE e == Bgp!PeerLines(i, j, p)
  <2> HIDE DEF p
  <2>3. /\ Len(e) = IF p.wrapped THEN 2 ELSE 1
        /\ p.wrapped => e[1] = PeerLine(i, j, p, 1) /\ e[2] = PeerLine(i, j, p, 9)
        /\ ~p.wrapped => e[1] = PeerLine(i, j, p, 10)
    BY <2>1, PeerLinesAre DEF T
  <2> HIDE DEF e
  <2>4. b[j + 1] = e
    BY <2>2 DEF e
  <2>5. QED BY <2>3, <2>4 DEF p
<1>6. QED BY <1>3, <1>4, <1>5 DEF b, m

\* What is held after a line is held before the next one.
LEMMA BgpReached ==
  ASSUME NEW ps \in Seq(Bgp!Section), NEW i \in 1..Len(ps), NEW k \in 1..(Len(ps[i].peers) + 2),
         NEW h \in 1..Len(SectionBlocks(i, ps[i])[k]), NEW c, NEW s, NEW o,
         h < Len(SectionBlocks(i, ps[i])[k]) => InSection(ps, i, k, h + 1, c, s, o),
         h = Len(SectionBlocks(i, ps[i])[k]) /\ k # Len(ps[i].peers) + 2 => InSection(ps, i, k + 1, 1, c, s, o),
         h = Len(SectionBlocks(i, ps[i])[k]) /\ k = Len(ps[i].peers) + 2 => Done(ps, i, c, s, o)
  PROVE  BgpHolds(ps, Tail(Left(SectionBlocks(i, ps[i]), k, h) \o From(BgpBlocks(ps), i + 1)), c, s, o)
<1> DEFINE n == ps[i]
           b == SectionBlocks(i, n)
           r == From(BgpBlocks(ps), i + 1)
           t == Tail(Left(b, k, h) \o r)
           m == Len(n.peers)
           x == Len(b[k])
<1>1. n \in Bgp!Section /\ i \in Nat
  OBVIOUS
<1>2. Blocks(b, BgpLine) /\ Len(b) = m + 2 /\ m \in Nat
  BY <1>1, SectionLines
<1>3. /\ h < x => t = Left(b, k, h + 1) \o r
      /\ h = x /\ k # m + 2 => t = Left(b, k + 1, 1) \o r
      /\ h = x /\ k = m + 2 => t = r
  BY BgpRead
<1>4. /\ h < x => InSection(ps, i, k, h + 1, c, s, o)
      /\ h = x /\ k # m + 2 => InSection(ps, i, k + 1, 1, c, s, o)
      /\ h = x /\ k = m + 2 => Done(ps, i, c, s, o)
  OBVIOUS
<1>5. /\ \A y \in 1..(m + 2) : b[y] \in Seq(BgpLine) /\ Len(b[y]) \in Nat
      /\ \A y \in 1..(m + 2) : Len(b[y]) > 0
  <2> DEFINE ns == n.peers
  <2>1. /\ Len(b[1]) = 4 /\ Len(b[m + 2]) = 1
        /\ \A j \in 1..m : Len(b[j + 1]) = IF ns[j].wrapped THEN 2 ELSE 1
    BY <1>1, BlockLines
  <2> HIDE DEF b, ns
  <2>2. ASSUME NEW y \in 1..(m + 2) PROVE b[y] \in Seq(BgpLine) /\ Len(b[y]) \in Nat
    <3>1. y \in 1..Len(b)
      BY <1>2
    <3>2. b[y] \in Seq(BgpLine)
      BY <1>2, <3>1, BlocksAfter
    <3>3. QED BY <3>2
  <2>3. ASSUME NEW y \in 1..(m + 2) PROVE Len(b[y]) > 0
    <3>1. CASE y = 1
      <4>1. Len(b[y]) = 4
        BY <2>1, <3>1
      <4>2. QED BY <4>1
    <3>2. CASE y = m + 2
      <4>1. Len(b[y]) = 1
        BY <2>1, <3>2
      <4>2. QED BY <4>1
    <3>3. CASE y # 1 /\ y # m + 2
      <4> DEFINE j == y - 1
      <4>1. j \in 1..m /\ j + 1 = y
        BY <1>2, <3>3
      <4> HIDE DEF j
      <4>2. Len(b[y]) = IF ns[j].wrapped THEN 2 ELSE 1
        BY <2>1, <4>1
      <4>3. QED BY <4>2
    <3>4. QED BY <3>1, <3>2, <3>3
  <2>4. QED BY <2>2, <2>3
<1>6. x \in Nat /\ k \in Nat /\ h \in Nat
  BY <1>2, <1>5
<1>7. CASE h < x
  <2> DEFINE g == h + 1
  <2>1. g \in 1..x /\ g # 1 /\ g \in Nat
    BY <1>6, <1>7
  <2>2. t = Left(b, k, g) \o r /\ InSection(ps, i, k, g, c, s, o)
    BY <1>3, <1>4, <1>7
  <2> HIDE DEF g, t
  <2>3. BgpHeld(ps, i, k, g, c, s, o)
    BY <2>1, <2>2 DEF BgpHeld
  <2>4. BgpAt(ps, i, k, g, t, c, s, o)
    BY <1>2, <2>1, <2>2, <2>3 DEF BgpAt
  <2>5. BgpHolds(ps, t, c, s, o)
    BY <1>1, <1>6, <2>1, <2>4 DEF BgpHolds
  <2>6. QED BY <2>5 DEF t
<1>8. CASE h = x /\ k # m + 2
  <2> DEFINE g == k + 1
  <2>1. g \in 1..(m + 2) /\ g # 1 /\ g \in Nat
    BY <1>2, <1>6, <1>8
  <2>2. t = Left(b, g, 1) \o r /\ InSection(ps, i, g, 1, c, s, o)
    BY <1>3, <1>4, <1>8
  <2> HIDE DEF g, t
  <2>3. BgpHeld(ps, i, g, 1, c, s, o)
    BY <2>1, <2>2 DEF BgpHeld
  <2>4. 1 \in 1..Len(b[g]) /\ 1 \in Nat
    <3>1. Len(b[g]) > 0 /\ Len(b[g]) \in Nat
      <4>1. Len(b[g]) > 0
        BY <1>5, <2>1
      <4>2. g \in 1..Len(b)
        BY <1>2, <2>1
      <4> HIDE DEF b
      <4>3. b[g] \in Seq(BgpLine)
        BY <1>2, <4>2, BlocksAfter
      <4>4. QED BY <4>1, <4>3
    <3> HIDE DEF b
    <3>2. QED BY <3>1
  <2>5. BgpAt(ps, i, g, 1, t, c, s, o)
    BY <1>2, <2>1, <2>2, <2>3, <2>4 DEF BgpAt
  <2>6. BgpHolds(ps, t, c, s, o)
    BY <1>1, <1>6, <2>1, <2>4, <2>5 DEF BgpHolds
  <2>7. QED BY <2>6 DEF t
<1>9. CASE h = x /\ k = m + 2
  <2>1. t = r /\ Done(ps, i, c, s, o)
    BY <1>3, <1>4, <1>9
  <2>2. i \in 0..Len(ps) /\ i # 0
    OBVIOUS
  <2>3. Ready(ps, i, c, s, o)
    BY <2>1, <2>2 DEF Ready
  <2>4. BgpHolds(ps, From(BgpBlocks(ps), i + 1), c, s, o)
    BY <2>2, <2>3, BeforeSection
  <2>5. QED BY <2>1, <2>4
<1>10. h < x \/ h = x
  <2> HIDE DEF x
  <2>1. h \in 1..x
    BY DEF x
  <2>2. QED BY <1>6, <2>1
<1>11. QED BY <1>7, <1>8, <1>9, <1>10

\* The heading of a section.
LEMMA HeadingStep ==
  ASSUME printed \in Seq(Bgp!Section), NEW i \in 1..Len(printed), NEW h \in 1..4,
         BgpHeld(printed, i, 1, h, current, scratch, out),
         text # <<>>, Head(text) = SectionBlocks(i, printed[i])[1][h], Bgp!Next
  PROVE  /\ h < 4 => InSection(printed, i, 1, h + 1, current', scratch', out')
         /\ h = 4 => InSection(printed, i, 2, 1, current', scratch', out')
<1> DEFINE n == printed[i]
           b == SectionBlocks(i, n)
<1>1. n \in Bgp!Section /\ i \in Nat
  OBVIOUS
<1>2. b[1][1] = VrfLine(n) /\ b[1][2] = RouterLine(n) /\ b[1][3] = CountLine(i) /\ b[1][4].kind = "header"
  BY <1>1, BlockLines
<1> HIDE DEF b
<1>3. CASE h = 1
  <2>1. Ready(printed, i - 1, current, scratch, out)
    BY <1>3 DEF BgpHeld
  <2>2. Head(text) = VrfLine(printed[i])
    BY <1>2, <1>3 DEF b
  <2>3. InSection(printed, i, 1, 2, current', scratch', out')
    BY <2>1, <2>2, VrfRead
  <2>4. h + 1 = 2 /\ h # 4
    BY <1>3
  <2>5. QED BY <2>3, <2>4
<1>4. CASE h = 2
  <2>1. InSection(printed, i, 1, 2, current, scratch, out)
    BY <1>4 DEF BgpHeld
  <2>2. Head(text) = RouterLine(printed[i])
    BY <1>2, <1>4 DEF b
  <2>3. InSection(printed, i, 1, 3, current', scratch', out')
    BY <2>1, <2>2, RouterRead
  <2>4. h + 1 = 3 /\ h # 4
    BY <1>4
  <2>5. QED BY <2>3, <2>4
<1>5. CASE h = 3
  <2>1. InSection(printed, i, 1, 3, current, scratch, out)
    BY <1>5 DEF BgpHeld
  <2>2. Head(text) = CountLine(i)
    BY <1>2, <1>5 DEF b
  <2>3. InSection(printed, i, 1, 4, current', scratch', out')
    BY <2>1, <2>2, CountRead
  <2>4. h + 1 = 4 /\ h # 4
    BY <1>5
  <2>5. QED BY <2>3, <2>4
<1>6. CASE h = 4
  <2>1. InSection(printed, i, 1, 4, current, scratch, out)
    BY <1>6 DEF BgpHeld
  <2>2. Head(text).kind = "header"
    BY <1>2, <1>6 DEF b
  <2>3. InSection(printed, i, 2, 1, current', scratch', out')
    BY <2>1, <2>2, HeaderRead
  <2>4. ~(h < 4)
    BY <1>6
  <2>5. QED BY <2>3, <2>4
<1>7. h = 1 \/ h = 2 \/ h = 3 \/ h = 4
  OBVIOUS
<1>8. QED BY <1>3, <1>4, <1>5, <1>6, <1>7

\* The lines of a peer.
LEMMA PeerStep ==
  ASSUME printed \in Seq(Bgp!Section), NEW i \in 1..Len(printed), NEW j \in 1..Len(printed[i].peers),
         NEW h \in 1..Len(SectionBlocks(i, printed[i])[j + 1]),
         InSection(printed, i, j + 1, h, current, scratch, out),
         text # <<>>, Head(text) = SectionBlocks(i, printed[i])[j + 1][h], Bgp!Next
  PROVE  /\ h < Len(SectionBlocks(i, printed[i])[j + 1]) =>
              InSection(printed, i, j + 1, h + 1, current', scratch', out')
         /\ h = Len(SectionBlocks(i, printed[i])[j + 1]) =>
              InSection(printed, i, (j + 1) + 1, 1, current', scratch', out')
<1> DEFINE n == printed[i]
           p == n.peers[j]
           e == SectionBlocks(i, n)[j + 1]
<1>1. n \in Bgp!Section /\ i \in Nat
  OBVIOUS
<1>2. j \in Nat /\ j > 0
  <2>1. Len(n.peers) \in Nat
    BY <1>1, SectionTyped
  <2>2. QED BY <2>1
<1>3. /\ Len(e) = IF p.wrapped THEN 2 ELSE 1
      /\ p.wrapped => e[1] = PeerLine(i, j, p, 1) /\ e[2] = PeerLine(i, j, p, 9)
      /\ ~p.wrapped => e[1] = PeerLine(i, j, p, 10)
  BY <1>1, BlockLines
<1>4. h \in 1..Len(e) /\ Head(text) = e[h]
  OBVIOUS
<1> HIDE DEF e
<1>5. /\ \A c, s, o : InSection(printed, i, j + 1, 1, c, s, o) <=> InTable(printed, i, j - 1, c, s, o)
      /\ \A c, s, o : InSection(printed, i, j + 1, 2, c, s, o) <=> InTable(printed, i, j, c, s, o)
      /\ \A c, s, o : InSection(printed, i, (j + 1) + 1, 1, c, s, o) <=> InTable(printed, i, j, c, s, o)
  BY <1>2, InTableIs
<1>6. CASE ~p.wrapped
  <2>1. Len(e) = 1
    BY <1>3, <1>6
  <2>2. h = 1 /\ h = Len(e) /\ ~(h < Len(e))
    BY <1>4, <2>1
  <2>3. Head(text) = PeerLine(i, j, printed[i].peers[j], 10)
    BY <1>3, <1>4, <1>6, <2>2
  <2>4. InTable(printed, i, j - 1, current, scratch, out)
    BY <1>5, <2>2
  <2>5. InTable(printed, i, j, current', scratch', out')
    BY <1>6, <2>3, <2>4, PeerRead
  <2>6. InSection(printed, i, (j + 1) + 1, 1, current', scratch', out')
    BY <1>5, <2>5
  <2>7. QED BY <2>2, <2>6 DEF e
<1>7. CASE p.wrapped
  <2>1. Len(e) = 2
    BY <1>3, <1>7
  <2>2. h = 1 \/ h = 2
    BY <1>4, <2>1
  <2>3. CASE h = 1
    <3>1. Head(text) = PeerLine(i, j, printed[i].peers[j], 1)
      BY <1>3, <1>4, <1>7, <2>3
    <3>2. InTable(printed, i, j - 1, current, scratch, out)
      BY <1>5, <2>3
    <3>3. InTable(printed, i, j, current', scratch', out')
      BY <1>7, <3>1, <3>2, WrappedRead
    <3>4. InSection(printed, i, j + 1, 2, current', scratch', out')
      BY <1>5, <3>3
    <3>5. h + 1 = 2 /\ h # Len(e)
      BY <2>1, <2>3
    <3>6. QED BY <3>4, <3>5 DEF e
  <2>4. CASE h = 2
    <3>1. Head(text) = PeerLine(i, j, p, 9)
      BY <1>3, <1>4, <1>7, <2>4
    <3>2. current' = current /\ scratch' = scratch /\ out' = out
      <4>1. 9 \in {1, 9}
        OBVIOUS
      <4> HIDE DEF p
      <4>2. QED BY <3>1, <4>1, PartRead
    <3>3. InTable(printed, i, j, current, scratch, out)
      BY <1>5, <2>4
    <3>4. InTable(printed, i, j, current', scratch', out')
      BY <3>2, <3>3
    <3>5. InSection(printed, i, (j + 1) + 1, 1, current', scratch', out')
      BY <1>5, <3>4
    <3>6. ~(h < Len(e))
      BY <2>1, <2>4
    <3>7. QED BY <3>5, <3>6 DEF e
  <2>5. QED BY <2>2, <2>3, <2>4
<1>8. QED BY <1>6, <1>7

LEMMA BgpLineStep ==
  ASSUME printed \in Seq(Bgp!Section), NEW i \in Nat, NEW k \in Nat, NEW h \in Nat,
         BgpAt(printed, i, k, h, text, current, scratch, out), Bgp!Next
  PROVE  BgpHolds(printed, text, current, scratch, out)'
<1> DEFINE n == printed[i]
           b == SectionBlocks(i, n)
           m == Len(n.peers)
           t == Left(b, k, h) \o From(BgpBlocks(printed), i + 1)
           x == Len(b[k])
<1>1. /\ i \in 1..Len(printed) /\ k \in 1..(m + 2) /\ h \in 1..x /\ text = t
      /\ BgpHeld(printed, i, k, h, current, scratch, out)
  BY DEF BgpAt
<1>2. n \in Bgp!Section
  BY <1>1
<1>3. m \in Nat
  BY <1>2, SectionTyped
<1>4. t # <<>> /\ Head(t) = b[k][h]
  BY <1>1, BgpRead
<1> HIDE DEF t
<1>5. text # <<>> /\ Head(text) = b[k][h] /\ text' = Tail(t) /\ printed' = printed
  <2>1. text # <<>> /\ Head(text) = b[k][h]
    BY <1>1, <1>4
  <2>2. text' = Tail(text) /\ printed' = printed
    BY <2>1, BgpKinds
  <2>3. QED BY <1>1, <2>1, <2>2
<1>6. ASSUME h < x => InSection(printed, i, k, h + 1, current', scratch', out'),
             h = x /\ k # m + 2 => InSection(printed, i, k + 1, 1, current', scratch', out'),
             h = x /\ k = m + 2 => Done(printed, i, current', scratch', out')
      PROVE  BgpHolds(printed, text, current, scratch, out)'
  <2>1. BgpHolds(printed, Tail(t), current', scratch', out')
    BY <1>1, <1>6, BgpReached DEF t
  <2>2. QED BY <1>5, <2>1
<1>7. CASE k = 1
  <2>1. x = 4
    BY <1>2, <1>7, BlockLines
  <2>2. h \in 1..4 /\ k # m + 2 /\ k + 1 = 2
    BY <1>1, <1>3, <1>7, <2>1
  <2>3. Head(text) = SectionBlocks(i, printed[i])[1][h] /\ BgpHeld(printed, i, 1, h, current, scratch, out)
    BY <1>1, <1>5, <1>7
  <2>4. /\ h < 4 => InSection(printed, i, 1, h + 1, current', scratch', out')
        /\ h = 4 => InSection(printed, i, 2, 1, current', scratch', out')
    BY <1>1, <1>5, <2>2, <2>3, HeadingStep
  <2> HIDE DEF x, m
  <2>5. QED BY <1>6, <1>7, <2>1, <2>2, <2>4
<1>8. CASE k = m + 2
  <2>1. x = 1 /\ b[k][1] = BlankLine
    BY <1>2, <1>8, BlockLines
  <2>2. h = 1 /\ h = x /\ ~(h < x) /\ k > 1 /\ k # 1 /\ k - 2 = m
    <3>1. h \in 1..1
      BY <1>1, <2>1
    <3>2. QED BY <1>3, <1>8, <2>1, <3>1
  <2>3. InSection(printed, i, k, 1, current, scratch, out)
    BY <1>1, <2>2 DEF BgpHeld
  <2>4. InTable(printed, i, Len(printed[i].peers), current, scratch, out)
    BY <2>2, <2>3 DEF InSection, InTable
  <2>5. Head(text) = BlankLine
    BY <1>5, <2>1, <2>2
  <2>6. Done(printed, i, current', scratch', out')
    BY <1>1, <1>5, <2>4, <2>5, BlankRead
  <2> HIDE DEF x, m
  <2>7. QED BY <1>6, <1>8, <2>2, <2>6
<1>9. CASE k # 1 /\ k # m + 2
  <2> DEFINE j == k - 1
  <2>1. j \in 1..m /\ k = j + 1 /\ k # 1
    BY <1>1, <1>3, <1>9
  <2> HIDE DEF j
  <2>2. InSection(printed, i, j + 1, h, current, scratch, out)
    BY <1>1, <2>1 DEF BgpHeld
  <2>3. h \in 1..Len(SectionBlocks(i, printed[i])[j + 1]) /\ Head(text) = SectionBlocks(i, printed[i])[j + 1][h]
    BY <1>1, <1>5, <2>1
  <2>4. /\ h < Len(SectionBlocks(i, printed[i])[j + 1]) =>
             InSection(printed, i, j + 1, h + 1, current', scratch', out')
        /\ h = Len(SectionBlocks(i, printed[i])[j + 1]) =>
             InSection(printed, i, (j + 1) + 1, 1, current', scratch', out')
    BY <1>1, <1>5, <2>1, <2>2, <2>3, PeerStep
  <2>5. /\ h < x => InSection(printed, i, k, h + 1, current', scratch', out')
        /\ h = x => InSection(printed, i, k + 1, 1, current', scratch', out')
    BY <2>1, <2>4
  <2> HIDE DEF x, m
  <2>6. QED BY <1>6, <1>9, <2>5
<1>10. QED BY <1>7, <1>8, <1>9

LEMMA BgpInit ==
  ASSUME Bgp!Init
  PROVE  BgpHolds(printed, text, current, scratch, out)
<1>1. printed \in Seq(Bgp!Section)
  <2>1. PICK m \in 0..MaxSections : printed \in [1..m -> Bgp!Section]
    BY DEF Bgp!Init, Bgp!BoundedSeq, Bgp!SeqOf
  <2>2. m \in Nat
    BY BgpAssumption
  <2>3. QED BY <2>1, <2>2
<1> DEFINE B == BgpBlocks(printed)
<1>2. text = FlattenSeq(B)
  BY SameFlatten DEF Bgp!Init, Bgp!FlattenSeq, FlattenSeq, BgpBlocks
<1>3. current = Bgp!Nil /\ scratch.af = Bgp!Nil /\ out = <<>>
  BY DEF Bgp!Init
<1>4. Blocks(B, BgpLine)
  BY <1>1, BgpBlocksTyped
<1> HIDE DEF B
<1>5. From(B, 1) = FlattenSeq(B)
  <2>1. 1 \in 1..(Len(B) + 1)
    BY <1>4 DEF Blocks
  <2>2. QED BY <1>4, <2>1, FromTyped
<1>6. Ready(printed, 0, current, scratch, out)
  BY <1>3 DEF Ready
<1>7. BgpHolds(printed, From(BgpBlocks(printed), 0 + 1), current, scratch, out)
  <2>1. 0 \in 0..Len(printed)
    BY <1>1
  <2>2. QED BY <1>1, <1>6, <2>1, BeforeSection
<1>8. 0 + 1 = 1
  OBVIOUS
<1>9. QED BY <1>2, <1>5, <1>7, <1>8 DEF B

\* The end of the text.
LEMMA BgpEndStep ==
  ASSUME printed \in Seq(Bgp!Section), BgpEnd(printed, text, current, scratch, out), Bgp!Next
  PROVE  BgpHolds(printed, text, current, scratch, out)'
<1> DEFINE N == Len(printed)
           w == [current EXCEPT !.families = Append(@, scratch.af)]
<1>1. text = <<>> /\ (Ready(printed, N, current, scratch, out) \/ Finished(printed, current, out))
  BY DEF BgpEnd
<1>2. Bgp!End \/ (Bgp!Parsed /\ UNCHANGED <<printed, text, current, scratch, out>>)
  BY <1>1 DEF Bgp!Next, Bgp!Blank, Bgp!Vrf, Bgp!Router, Bgp!Count, Bgp!Header, Bgp!Peer, Bgp!Ignores, Bgp!Reads,
     Bgp!tvars
<1>3. CASE UNCHANGED <<printed, text, current, scratch, out>>
  <2>1. BgpHolds(printed, text, current, scratch, out)
    BY DEF BgpHolds
  <2>2. QED BY <1>3, <2>1
<1>4. CASE Bgp!End
  <2>1. current # Bgp!Nil /\ text' = text /\ printed' = printed /\ current' = Bgp!Nil /\ Bgp!Emit(Bgp!WithFamily)
    BY <1>4 DEF Bgp!End, Bgp!AtEnd
  <2>2. N # 0 /\ Done(printed, N, current, scratch, out)
    BY <1>1, <2>1 DEF Ready, Finished
  <2>3. N \in 1..Len(printed)
    <3>1. Len(printed) \in Nat
      OBVIOUS
    <3>2. QED BY <2>2, <3>1
  <2> HIDE DEF N
  <2>4. current \in Summary /\ scratch \in BgpState /\ out \in Seq(Summary) /\ Apart(out) /\ ApartFrom(out, current.vrf)
        /\ current.vrf = printed[N].vrf
    BY <2>2 DEF Done, Open
  <2>5. w \in Summary /\ w.vrf = printed[N].vrf /\ w.families # <<>> /\ ToldOf(printed, N, Told(out) \o SectionsOf(w))
    BY <2>2, <2>3, Stored
  <2>6. scratch.af # Bgp!Nil /\ w # Bgp!Nil
    <3>1. scratch.af \in FamilyRecord
      BY <2>4, StateFields
    <3> HIDE DEF w
    <3>2. QED BY <2>5, <3>1, RecordsNotNil
  <2>7. Bgp!WithFamily = w
    BY <2>1, <2>6 DEF Bgp!WithFamily
  <2> HIDE DEF w
  <2>8. out' = Append(out, w)
    BY <2>1, <2>5, <2>6, <2>7 DEF Bgp!Emit
  <2>9. ApartFrom(out, w.vrf)
    BY <2>4, <2>5
  <2> DEFINE q == Append(out, w)
  <2>10. q \in Seq(Summary) /\ ToldOf(printed, N, Told(q)) /\ Apart(q)
    BY <2>4, <2>5, <2>9, Emitted
  <2> HIDE DEF q
  <2>11. Finished(printed, Bgp!Nil, q)
    BY <2>10 DEF Finished, N
  <2>12. BgpEnd(printed, text', current', scratch', out')
    BY <1>1, <2>1, <2>8, <2>11 DEF BgpEnd, q
  <2>13. BgpHolds(printed, text', current', scratch', out')
    BY <2>12 DEF BgpHolds
  <2>14. QED BY <2>1, <2>13
<1>5. QED BY <1>2, <1>3, <1>4

LEMMA BgpStep ==
  ASSUME BgpHolds(printed, text, current, scratch, out), Bgp!Next
  PROVE  BgpHolds(printed, text, current, scratch, out)'
<1>1. printed \in Seq(Bgp!Section)
  BY DEF BgpHolds
<1>2. \/ \E i, k, h \in Nat : BgpAt(printed, i, k, h, text, current, scratch, out)
      \/ BgpEnd(printed, text, current, scratch, out)
  BY DEF BgpHolds
<1>3. CASE BgpEnd(printed, text, current, scratch, out)
  BY <1>1, <1>3, BgpEndStep
<1>4. CASE \E i, k, h \in Nat : BgpAt(printed, i, k, h, text, current, scratch, out)
  <2>1. PICK i \in Nat, k \in Nat, h \in Nat : BgpAt(printed, i, k, h, text, current, scratch, out)
    BY <1>4
  <2>2. QED BY <1>1, <2>1, BgpLineStep
<1>5. QED BY <1>2, <1>3, <1>4

\* When all is read, everything is in the summaries.
LEMMA BgpAllTold ==
  ASSUME BgpHolds(printed, text, current, scratch, out), Bgp!Parsed
  PROVE  printed \in Seq(Bgp!Section) /\ Finished(printed, current, out)
<1>1. printed \in Seq(Bgp!Section)
  BY DEF BgpHolds
<1>2. text = <<>> /\ current = Bgp!Nil
  BY DEF Bgp!Parsed
<1>3. ~\E i, k, h \in Nat : BgpAt(printed, i, k, h, text, current, scratch, out)
  <2> SUFFICES ASSUME NEW i \in Nat, NEW k \in Nat, NEW h \in Nat,
                      BgpAt(printed, i, k, h, text, current, scratch, out)
               PROVE  FALSE
    OBVIOUS
  <2>1. /\ i \in 1..Len(printed) /\ k \in 1..(Len(printed[i].peers) + 2)
        /\ h \in 1..Len(SectionBlocks(i, printed[i])[k])
        /\ text = Left(SectionBlocks(i, printed[i]), k, h) \o From(BgpBlocks(printed), i + 1)
    BY DEF BgpAt
  <2>2. text # <<>>
    BY <1>1, <2>1, BgpRead
  <2>3. QED BY <1>2, <2>2
<1>4. Ready(printed, Len(printed), current, scratch, out) \/ Finished(printed, current, out)
  BY <1>3 DEF BgpHolds, BgpEnd
<1>5. CASE Ready(printed, Len(printed), current, scratch, out)
  <2>1. CASE Len(printed) = 0
    <3>1. out = <<>>
      BY <1>5, <2>1 DEF Ready
    <3>2. <<>> \in Seq(Summary) /\ <<>> \in Seq(Item) /\ Len(<<>>) = 0 /\ 1..0 = {} /\ 1..(0 - 1) = {}
      OBVIOUS
    <3>3. Told(<<>>) = <<>>
      BY <3>2, ToldTyped
    <3>4. ToldOf(printed, Len(printed), Told(<<>>)) /\ Apart(<<>>)
      BY <2>1, <3>2, <3>3 DEF ToldOf, Apart
    <3>5. QED BY <1>1, <1>2, <3>1, <3>2, <3>4 DEF Finished
  <2>2. CASE Len(printed) # 0
    <3>1. current \in Summary
      BY <1>5, <2>2 DEF Ready, Done, Open
    <3>2. QED BY <1>2, <3>1, RecordsNotNil
  <2>3. QED BY <2>1, <2>2
<1>6. QED BY <1>1, <1>4, <1>5

LEMMA BgpReported ==
  ASSUME BgpHolds(printed, text, current, scratch, out)
  PROVE  Bgp!SectionsKept /\ Bgp!PeersKept
<1> SUFFICES ASSUME Bgp!Parsed PROVE Bgp!SectionsKept /\ Bgp!PeersKept
  BY DEF Bgp!SectionsKept, Bgp!PeersKept
<1> DEFINE R == Bgp!Reported
           N == Len(printed)
<1>1. printed \in Seq(Bgp!Section) /\ ToldOf(printed, N, Told(out)) /\ Apart(out)
  BY BgpAllTold DEF Finished
<1>2. R = Told(out)
  BY SameFlatten DEF Bgp!Reported, Told, SectionsOf, Bgp!FlattenSeq, FlattenSeq
<1>3. R \in Seq(Item) /\ Len(R) = N /\ \A i \in 1..N : Reports(i, printed[i], R[i])
  BY <1>1, <1>2 DEF ToldOf
<1> HIDE DEF R, N
<1>4. DOMAIN R = 1..N
  BY <1>3
<1>5. \A i \in DOMAIN R : R[i].vrf = printed[i].vrf /\ R[i].af.family = printed[i].family /\ R[i].af.count = <<i>>
  BY <1>3, <1>4 DEF Reports
<1>6. \A i \in 1..Len(out) - 1 : out[i].vrf # out[i + 1].vrf
  BY <1>1 DEF Apart
<1>7. Bgp!SectionsKept
  BY <1>3, <1>5, <1>6 DEF Bgp!SectionsKept, R, N
<1>8. ASSUME NEW i \in DOMAIN R
      PROVE  LET ps  == printed[i].peers
                 got == R[i].af.peers
             IN  /\ {got[k].peer : k \in DOMAIN got} = {<<i, j>> : j \in {l \in DOMAIN ps : ~ps[l].wrapped}}
                 /\ \A k, l \in DOMAIN got : k < l => got[k].peer[2] < got[l].peer[2]
                 /\ \A k \in DOMAIN got :
                      got[k].session = "iBGP" <=> ps[got[k].peer[2]].as = LocalAS[printed[i].vrf]
  <2> DEFINE n   == printed[i]
             ps  == n.peers
             got == R[i].af.peers
             v   == LocalAS[n.vrf]
  <2>1. n \in Bgp!Section
    <3>1. i \in 1..Len(printed)
      BY <1>4 DEF N
    <3>2. QED BY <1>1, <3>1
  <2>2. DOMAIN ps = 1..Len(ps)
    BY <2>1, SectionTyped
  <2>3. Got(i, n, Len(ps), got)
    BY <1>3, <1>4 DEF Reports
  <2>4. /\ \A x \in DOMAIN got : \E j \in DOMAIN ps :
             /\ ~ps[j].wrapped /\ got[x].peer = <<i, j>> /\ (got[x].session = "iBGP" <=> ps[j].as = v)
        /\ \A j \in DOMAIN ps : ~ps[j].wrapped => \E x \in DOMAIN got : got[x].peer = <<i, j>>
        /\ \A x, y \in DOMAIN got : x < y => got[x].peer[2] < got[y].peer[2]
    BY <2>2, <2>3 DEF Got
  <2> HIDE DEF got, ps, v, n
  <2>5. {got[k].peer : k \in DOMAIN got} = {<<i, j>> : j \in {l \in DOMAIN ps : ~ps[l].wrapped}}
    <3> DEFINE own == {l \in DOMAIN ps : ~ps[l].wrapped}
    <3>1. ASSUME NEW k \in DOMAIN got PROVE got[k].peer \in {<<i, j>> : j \in own}
      <4>1. PICK j \in DOMAIN ps : ~ps[j].wrapped /\ got[k].peer = <<i, j>>
        BY <2>4
      <4>2. QED BY <4>1
    <3>2. ASSUME NEW j \in own PROVE <<i, j>> \in {got[k].peer : k \in DOMAIN got}
      <4>1. PICK k \in DOMAIN got : got[k].peer = <<i, j>>
        BY <2>4
      <4>2. QED BY <4>1
    <3> HIDE DEF own
    <3>3. {got[k].peer : k \in DOMAIN got} \subseteq {<<i, j>> : j \in own}
      BY <3>1
    <3>4. {<<i, j>> : j \in own} \subseteq {got[k].peer : k \in DOMAIN got}
      BY <3>2
    <3>5. QED BY <3>3, <3>4 DEF own
  <2>6. \A k \in DOMAIN got : got[k].session = "iBGP" <=> ps[got[k].peer[2]].as = v
    <3> TAKE k \in DOMAIN got
    <3>1. PICK j \in DOMAIN ps : got[k].peer = <<i, j>> /\ (got[k].session = "iBGP" <=> ps[j].as = v)
      BY <2>4
    <3>2. got[k].peer[2] = j
      BY <3>1
    <3>3. QED BY <3>1, <3>2
  <2>7. QED BY <2>4, <2>5, <2>6 DEF got, ps, v, n
<1>9. Bgp!PeersKept
  BY <1>8 DEF Bgp!PeersKept, R
<1>10. QED BY <1>7, <1>9

\* The BGP sections of any switch, any number of them with any peers, are
\* reported in order, under their VRFs and with their own counts, neighboring
\* ones of one VRF as one entry, and with every peer that has a line of its own
\* and its session type: parseBGPTextOutput.
THEOREM SectionsReportedAlways == NexusSpec => []SectionsReported
<1>1. NexusInit => BgpInv
  <2> SUFFICES ASSUME NexusInit, parser = "bgp-all-summary"
               PROVE  BgpHolds(printed, text, current, scratch, out)
    BY DEF BgpInv
  <2>1. Bgp!Init
    BY DEF NexusInit
  <2>2. QED BY <2>1, BgpInit
<1>2. BgpInv /\ [NexusNext]_vars => BgpInv'
  <2> SUFFICES ASSUME BgpInv, [NexusNext]_vars, parser' = "bgp-all-summary"
               PROVE  BgpHolds(printed, text, current, scratch, out)'
    BY DEF BgpInv
  <2>1. parser = "bgp-all-summary"
    BY DEF NexusNext, vars
  <2>2. BgpHolds(printed, text, current, scratch, out)
    BY <2>1 DEF BgpInv
  <2>3. CASE NexusNext
    <3>1. Bgp!Next
      BY <2>1, <2>3 DEF NexusNext
    <3>2. QED BY <2>2, <3>1, BgpStep
  <2>4. CASE UNCHANGED vars
    BY <2>2, <2>4 DEF vars
  <2>5. QED BY <2>3, <2>4
<1>3. BgpInv => SectionsReported
  BY BgpReported DEF BgpInv, SectionsReported
<1>4. QED BY <1>1, <1>2, <1>3, PTL DEF NexusSpec

-----------------------------------------------------------------------------
(* TransceiverText: the text.                                              *)

OpticKind == {"interface", "breakout", "presence", "detail", "length", "cable", "noDom",
              "domHeader", "dom", "blank"}

OpticLine == [kind : OpticKind, val : Val \cup BOOLEAN]

\* The module of an interface, or what an interface without one has.
Lanes(r)    == IF r.module = Transceiver!Nil THEN 0 ELSE r.module.lanes
Lengths(r)  == IF r.module = Transceiver!Nil THEN <<>> ELSE r.module.lengths
HasCable(r) == IF r.module = Transceiver!Nil THEN FALSE ELSE r.module.cable

CableLines(r) == IF HasCable(r) THEN 1 ELSE 0
NoDomLines(r) == IF Lanes(r) = 0 THEN 1 ELSE 0

HeadSize(r) == IF r.module = Transceiver!Nil THEN 2 ELSE 3 + Len(Lengths(r)) + CableLines(r) + NoDomLines(r)

\* What is printed of a transceiver before its lanes.
Details(i, m) ==
  <<Transceiver!Row("detail", <<i>>)>> \o [j \in DOMAIN m.lengths |-> Transceiver!Row("length", <<i, m.lengths[j]>>)]
  \o (IF m.cable THEN <<Transceiver!Row("cable", <<i>>)>> ELSE <<>>)
  \o (IF m.lanes = 0 THEN <<Transceiver!Row("noDom", <<>>)>> ELSE <<>>)

NameLine(i, r) == Transceiver!Row(IF r.breakout THEN "breakout" ELSE "interface", <<i>>)

PresenceLine(r) == Transceiver!Row("presence", r.module # Transceiver!Nil)

OpticHead(i, r) ==
  <<NameLine(i, r), PresenceLine(r)>> \o (IF r.module = Transceiver!Nil THEN <<>> ELSE Details(i, r.module))

\* Line h of it.
HeadLine(i, r, h) ==
  IF h = 1 THEN NameLine(i, r)
  ELSE IF h = 2 THEN PresenceLine(r)
  ELSE IF h = 3 THEN Transceiver!Row("detail", <<i>>)
  ELSE IF h <= 3 + Len(Lengths(r)) THEN Transceiver!Row("length", <<i, Lengths(r)[h - 3]>>)
  ELSE IF h = 4 + Len(Lengths(r)) /\ HasCable(r) THEN Transceiver!Row("cable", <<i>>)
  ELSE Transceiver!Row("noDom", <<>>)

LaneLines(i, l) ==
  <<Transceiver!Row("domHeader", <<>>), Transceiver!Row("dom", <<i, l>>), Transceiver!Row("dom", <<i, l>>)>>

LaneBlocks(i, r) == [l \in 1..Lanes(r) |-> LaneLines(i, l)]

\* An interface as blocks: its head, each lane, and an empty line.
OpticBlocks(i, r) == Framed(OpticHead(i, r), LaneBlocks(i, r), <<Transceiver!Row("blank", <<>>)>>)

OpticTexts(ps) == [i \in DOMAIN ps |-> Transceiver!Printout(i, ps[i])]

-----------------------------------------------------------------------------
(* TransceiverText: facts about the text.                                  *)

LEMMA ModuleTyped ==
  ASSUME NEW m \in Modules
  PROVE  m.cable \in BOOLEAN /\ m.lengths \in Seq(1..4) /\ m.lanes \in Nat
<1>1. m \in [cable : BOOLEAN, lengths : Seq(1..4), lanes : Nat]
  BY TransceiverAssumption
<1>2. QED BY <1>1

LEMMA InterfaceTyped ==
  ASSUME NEW r \in Transceiver!Interface
  PROVE  /\ r.breakout \in BOOLEAN /\ Lanes(r) \in Nat /\ Lengths(r) \in Seq(1..4) /\ HasCable(r) \in BOOLEAN
         /\ CableLines(r) \in {0, 1} /\ NoDomLines(r) \in {0, 1} /\ Len(Lengths(r)) \in Nat
         /\ HeadSize(r) \in Nat /\ HeadSize(r) > 1
         /\ r.module = Transceiver!Nil \/ r.module \in Modules
<1>1. r.breakout \in BOOLEAN /\ (r.module = Transceiver!Nil \/ r.module \in Modules)
  BY DEF Transceiver!Interface
<1>2. Lanes(r) \in Nat
  BY <1>1, ModuleTyped DEF Lanes
<1>3. Lengths(r) \in Seq(1..4)
  <2>1. <<>> \in Seq(1..4)
    OBVIOUS
  <2>2. QED BY <1>1, <2>1, ModuleTyped DEF Lengths
<1>4. HasCable(r) \in BOOLEAN
  BY <1>1, ModuleTyped DEF HasCable
<1>5. CableLines(r) \in {0, 1} /\ NoDomLines(r) \in {0, 1}
  BY DEF CableLines, NoDomLines
<1>6. Len(Lengths(r)) \in Nat
  BY <1>3
<1>7. HeadSize(r) \in Nat /\ HeadSize(r) > 1
  BY <1>5, <1>6 DEF HeadSize
<1>8. QED BY <1>1, <1>2, <1>3, <1>4, <1>5, <1>6, <1>7

LEMMA OpticRow ==
  ASSUME NEW k \in OpticKind, NEW v \in Val \cup BOOLEAN
  PROVE  /\ Transceiver!Row(k, v) \in OpticLine
         /\ Transceiver!Row(k, v).kind = k /\ Transceiver!Row(k, v).val = v
BY DEF Transceiver!Row, OpticLine

LEMMA SmallValues ==
  ASSUME NEW i \in Nat, NEW l \in Nat
  PROVE  <<>> \in Val /\ <<i>> \in Val /\ <<i, l>> \in Val
BY DEF Val

LEMMA OneLine ==
  ASSUME NEW S, NEW x \in S
  PROVE  <<x>> \in Seq(S) /\ Len(<<x>>) = 1 /\ <<x>>[1] = x
OBVIOUS

LEMMA DetailsLines ==
  ASSUME NEW i \in Nat, NEW m \in Modules
  PROVE  LET D == Details(i, m)
             n == Len(m.lengths)
             c == IF m.cable THEN 1 ELSE 0
         IN  /\ D \in Seq(OpticLine) /\ Len(D) = 1 + n + c + (IF m.lanes = 0 THEN 1 ELSE 0)
             /\ D[1] = Transceiver!Row("detail", <<i>>)
             /\ \A j \in 1..n : D[1 + j] = Transceiver!Row("length", <<i, m.lengths[j]>>)
             /\ m.cable => D[2 + n] = Transceiver!Row("cable", <<i>>)
             /\ m.lanes = 0 => D[2 + n + c] = Transceiver!Row("noDom", <<>>)
<1> DEFINE n == Len(m.lengths)
           c == IF m.cable THEN 1 ELSE 0
           z == IF m.lanes = 0 THEN 1 ELSE 0
           d == Transceiver!Row("detail", <<i>>)
           L(j) == Transceiver!Row("length", <<i, m.lengths[j]>>)
           k == Transceiver!Row("cable", <<i>>)
           w == Transceiver!Row("noDom", <<>>)
           p == <<d>>
           q == [j \in DOMAIN m.lengths |-> L(j)]
           s == IF m.cable THEN <<k>> ELSE <<>>
           t == IF m.lanes = 0 THEN <<w>> ELSE <<>>
           pq == p \o q
           ps == pq \o s
           D == ps \o t
<1>1. m.cable \in BOOLEAN /\ m.lengths \in Seq(1..4) /\ n \in Nat /\ DOMAIN m.lengths = 1..n
  BY ModuleTyped
<1>2. d \in OpticLine /\ k \in OpticLine /\ w \in OpticLine
  BY SmallValues, OpticRow DEF OpticKind
<1>3. ASSUME NEW j \in 1..n PROVE L(j) \in OpticLine
  <2>1. m.lengths[j] \in Nat
    BY <1>1
  <2>2. QED BY <2>1, SmallValues, OpticRow DEF OpticKind
<1> HIDE DEF d, L, k, w, n
<1>4. p \in Seq(OpticLine) /\ Len(p) = 1 /\ p[1] = d
  BY <1>2, OneLine
<1>5. q \in Seq(OpticLine) /\ Len(q) = n /\ \A j \in 1..n : q[j] = L(j)
  <2>1. q = [j \in 1..n |-> L(j)]
    BY <1>1
  <2> HIDE DEF q
  <2>2. q \in [1..n -> OpticLine] /\ \A j \in 1..n : q[j] = L(j)
    BY <1>3, <2>1
  <2>3. QED BY <1>1, <2>2
<1>6. s \in Seq(OpticLine) /\ Len(s) = c /\ (m.cable => s[1] = k)
  BY <1>2, OneLine
<1>7. t \in Seq(OpticLine) /\ Len(t) = z /\ (m.lanes = 0 => t[1] = w)
  BY <1>2, OneLine
<1>8. c \in {0, 1} /\ z \in {0, 1} /\ (m.cable => c = 1) /\ (m.lanes = 0 => z = 1)
  OBVIOUS
<1> HIDE DEF p, q, s, t, c, z
<1>9. /\ pq \in Seq(OpticLine) /\ Len(pq) = 1 + n /\ pq[1] = d
      /\ \A j \in 1..n : pq[1 + j] = L(j)
  <2>1. /\ pq \in Seq(OpticLine) /\ Len(pq) = Len(p) + Len(q)
        /\ \A x \in 1..Len(p) : pq[x] = p[x]
        /\ \A x \in 1..Len(q) : pq[Len(p) + x] = q[x]
    <3>1. p \in Seq(OpticLine) /\ q \in Seq(OpticLine)
      BY <1>4, <1>5
    <3>2. QED BY <3>1, JoinedElements
  <2> HIDE DEF pq
  <2>2. 1 \in 1..1
    OBVIOUS
  <2>3. QED BY <1>4, <1>5, <2>1, <2>2
<1> HIDE DEF pq
<1>10. /\ ps \in Seq(OpticLine) /\ Len(ps) = 1 + n + c
       /\ \A x \in 1..(1 + n) : ps[x] = pq[x]
       /\ m.cable => ps[2 + n] = k
  <2>1. /\ ps \in Seq(OpticLine) /\ Len(ps) = Len(pq) + Len(s)
        /\ \A x \in 1..Len(pq) : ps[x] = pq[x]
        /\ \A x \in 1..Len(s) : ps[Len(pq) + x] = s[x]
    <3>1. pq \in Seq(OpticLine) /\ s \in Seq(OpticLine)
      BY <1>6, <1>9
    <3>2. QED BY <3>1, JoinedElements
  <2> HIDE DEF ps
  <2>2. m.cable => 1 \in 1..Len(s) /\ Len(pq) + 1 = 2 + n
    BY <1>1, <1>6, <1>8, <1>9
  <2>3. m.cable => ps[Len(pq) + 1] = s[1]
    BY <2>1, <2>2
  <2>4. QED BY <1>6, <1>9, <2>1, <2>2, <2>3
<1> HIDE DEF ps
<1>11. /\ D \in Seq(OpticLine) /\ Len(D) = 1 + n + c + z
       /\ \A x \in 1..(1 + n + c) : D[x] = ps[x]
       /\ m.lanes = 0 => D[2 + n + c] = w
  <2>1. /\ D \in Seq(OpticLine) /\ Len(D) = Len(ps) + Len(t)
        /\ \A x \in 1..Len(ps) : D[x] = ps[x]
        /\ \A x \in 1..Len(t) : D[Len(ps) + x] = t[x]
    <3>1. ps \in Seq(OpticLine) /\ t \in Seq(OpticLine)
      BY <1>7, <1>10
    <3>2. QED BY <3>1, JoinedElements
  <2> HIDE DEF D
  <2>2. m.lanes = 0 => 1 \in 1..Len(t) /\ Len(ps) + 1 = 2 + n + c
    BY <1>1, <1>7, <1>8, <1>10
  <2>3. m.lanes = 0 => D[Len(ps) + 1] = t[1]
    BY <2>1, <2>2
  <2>4. QED BY <1>7, <1>10, <2>1, <2>2, <2>3
<1>12. D = Details(i, m)
  BY DEF Details, D, ps, pq, p, q, s, t, d, L, k, w
<1> HIDE DEF D
<1>13. D[1] = d
  <2>1. 1 \in 1..(1 + n) /\ 1 \in 1..(1 + n + c)
    BY <1>1, <1>8
  <2>2. QED BY <1>9, <1>10, <1>11, <2>1
<1>14. ASSUME NEW j \in 1..n PROVE D[1 + j] = L(j)
  <2>1. 1 + j \in 1..(1 + n) /\ 1 + j \in 1..(1 + n + c)
    BY <1>1, <1>8
  <2>2. QED BY <1>9, <1>10, <1>11, <2>1
<1>15. m.cable => D[2 + n] = k
  <2>1. m.cable => 2 + n \in 1..(1 + n + c)
    BY <1>1, <1>8
  <2>2. QED BY <1>10, <1>11, <2>1
<1>16. QED BY <1>11, <1>12, <1>13, <1>14, <1>15 DEF n, c, z, d, L, k, w

LEMMA HeadTyped ==
  ASSUME NEW i \in Nat, NEW r \in Transceiver!Interface
  PROVE  NameLine(i, r) \in OpticLine /\ PresenceLine(r) \in OpticLine
<1>1. (IF r.breakout THEN "breakout" ELSE "interface") \in OpticKind /\ "presence" \in OpticKind
  BY DEF OpticKind
<1>2. <<i>> \in Val \cup BOOLEAN /\ (r.module # Transceiver!Nil) \in Val \cup BOOLEAN
  <2>1. (r.module # Transceiver!Nil) \in BOOLEAN
    OBVIOUS
  <2>2. QED BY <2>1, SmallValues
<1>3. QED BY <1>1, <1>2, OpticRow DEF NameLine, PresenceLine

LEMMA OpticHeadLines ==
  ASSUME NEW i \in Nat, NEW r \in Transceiver!Interface
  PROVE  LET b == OpticHead(i, r)
         IN  /\ b \in Seq(OpticLine) /\ Len(b) = HeadSize(r)
             /\ \A h \in 1..HeadSize(r) : b[h] = HeadLine(i, r, h)
<1> DEFINE x == NameLine(i, r)
           y == PresenceLine(r)
           a == <<x, y>>
           b == OpticHead(i, r)
<1>1. x \in OpticLine /\ y \in OpticLine
  BY HeadTyped
<1> HIDE DEF x, y
<1>2. a \in Seq(OpticLine) /\ Len(a) = 2 /\ a[1] = x /\ a[2] = y
  BY <1>1
<1> HIDE DEF a
<1>3. b = a \o (IF r.module = Transceiver!Nil THEN <<>> ELSE Details(i, r.module))
  BY DEF OpticHead, a, x, y
<1> HIDE DEF b
<1>4. HeadLine(i, r, 1) = x /\ HeadLine(i, r, 2) = y
  BY DEF HeadLine, x, y
<1>5. CASE r.module = Transceiver!Nil
  <2>1. b = a /\ HeadSize(r) = 2
    BY <1>2, <1>3, <1>5 DEF HeadSize
  <2>2. \A h \in 1..2 : h = 1 \/ h = 2
    OBVIOUS
  <2>3. QED BY <1>2, <1>4, <2>1, <2>2 DEF b
<1>6. CASE r.module # Transceiver!Nil
  <2> DEFINE m == r.module
             D == Details(i, m)
             n == Len(m.lengths)
             c == IF m.cable THEN 1 ELSE 0
             z == IF m.lanes = 0 THEN 1 ELSE 0
  <2>1. m \in Modules /\ Lanes(r) = m.lanes /\ Lengths(r) = m.lengths /\ HasCable(r) = m.cable
    BY <1>6, InterfaceTyped DEF Lanes, Lengths, HasCable
  <2>2. n \in Nat /\ c \in {0, 1} /\ z \in {0, 1} /\ m.cable \in BOOLEAN
    BY <2>1, ModuleTyped
  <2>3. HeadSize(r) = 3 + n + c + z
    BY <1>6, <2>1 DEF HeadSize, CableLines, NoDomLines
  <2>4. /\ D \in Seq(OpticLine) /\ Len(D) = 1 + n + c + z
        /\ D[1] = Transceiver!Row("detail", <<i>>)
        /\ \A j \in 1..n : D[1 + j] = Transceiver!Row("length", <<i, m.lengths[j]>>)
        /\ m.cable => D[2 + n] = Transceiver!Row("cable", <<i>>)
        /\ m.lanes = 0 => D[2 + n + c] = Transceiver!Row("noDom", <<>>)
    BY <2>1, DetailsLines
  <2>5. b = a \o D
    BY <1>3, <1>6
  <2>6. (m.cable => c = 1) /\ (~m.cable => c = 0) /\ (m.lanes # 0 => z = 0)
    OBVIOUS
  <2> HIDE DEF D, n, c, z
  <2>7. /\ b \in Seq(OpticLine) /\ Len(b) = Len(a) + Len(D)
        /\ \A j \in 1..Len(a) : b[j] = a[j]
        /\ \A j \in 1..Len(D) : b[Len(a) + j] = D[j]
    <3>1. a \in Seq(OpticLine) /\ D \in Seq(OpticLine)
      BY <1>2, <2>4
    <3>2. QED BY <2>5, <3>1, JoinedElements
  <2>8. Len(b) = HeadSize(r)
    BY <1>2, <2>2, <2>3, <2>4, <2>7
  <2>9. b[1] = x /\ b[2] = y
    <3>1. 1 \in 1..2 /\ 2 \in 1..2
      OBVIOUS
    <3>2. QED BY <1>2, <2>7, <3>1
  <2>10. ASSUME NEW h \in 1..HeadSize(r) PROVE b[h] = HeadLine(i, r, h)
    <3>1. CASE h = 1 \/ h = 2
      BY <1>4, <2>9, <3>1
    <3>2. CASE ~(h = 1 \/ h = 2)
      <4> DEFINE e == h - 2
      <4>1. e \in 1..Len(D) /\ h = 2 + e
        BY <2>2, <2>3, <2>4, <3>2
      <4>2. b[h] = D[e]
        BY <1>2, <2>7, <4>1
      <4>3. HeadLine(i, r, h) = IF h = 3 THEN Transceiver!Row("detail", <<i>>)
                                ELSE IF h <= 3 + n THEN Transceiver!Row("length", <<i, m.lengths[h - 3]>>)
                                ELSE IF h = 4 + n /\ m.cable THEN Transceiver!Row("cable", <<i>>)
                                ELSE Transceiver!Row("noDom", <<>>)
        BY <2>1, <3>2 DEF HeadLine, n
      <4> HIDE DEF e
      <4>4. CASE h = 3
        <5>1. e = 1
          BY <4>1, <4>4
        <5>2. QED BY <2>4, <4>2, <4>3, <4>4, <5>1
      <4>5. CASE h # 3 /\ h <= 3 + n
        <5> DEFINE j == h - 3
        <5>1. j \in 1..n /\ e = 1 + j
          BY <2>2, <3>2, <4>1, <4>5
        <5>2. D[e] = Transceiver!Row("length", <<i, m.lengths[j]>>)
          BY <2>4, <5>1
        <5>3. QED BY <4>2, <4>3, <4>5, <5>2
      <4>6. CASE h # 3 /\ ~(h <= 3 + n) /\ h = 4 + n /\ m.cable
        <5>1. e = 2 + n
          BY <2>2, <4>1, <4>6
        <5>2. QED BY <2>4, <4>2, <4>3, <4>6, <5>1
      <4>7. CASE h # 3 /\ ~(h <= 3 + n) /\ ~(h = 4 + n /\ m.cable)
        <5>1. e = 2 + n + c /\ m.lanes = 0
          BY <2>2, <2>4, <2>6, <4>1, <4>7
        <5>2. QED BY <2>4, <4>2, <4>3, <4>7, <5>1
      <4>8. QED BY <4>4, <4>5, <4>6, <4>7
    <3>3. QED BY <3>1, <3>2
  <2>11. QED BY <2>7, <2>8, <2>10 DEF b
<1>7. QED BY <1>5, <1>6

LEMMA LaneLinesAre ==
  ASSUME NEW i \in Nat, NEW l \in Nat
  PROVE  LET b == LaneLines(i, l)
         IN  /\ b \in Seq(OpticLine) /\ Len(b) = 3
             /\ b[1] = Transceiver!Row("domHeader", <<>>)
             /\ b[2] = Transceiver!Row("dom", <<i, l>>) /\ b[3] = Transceiver!Row("dom", <<i, l>>)
<1> DEFINE x == Transceiver!Row("domHeader", <<>>)
           y == Transceiver!Row("dom", <<i, l>>)
<1>1. x \in OpticLine /\ y \in OpticLine
  <2>1. <<i, l>> \in Val \cup BOOLEAN /\ <<>> \in Val \cup BOOLEAN
    BY SmallValues
  <2>2. QED BY <2>1, OpticRow DEF OpticKind
<1> HIDE DEF x, y
<1>2. <<x, y, y>> \in Seq(OpticLine) /\ Len(<<x, y, y>>) = 3
      /\ <<x, y, y>>[1] = x /\ <<x, y, y>>[2] = y /\ <<x, y, y>>[3] = y
  BY <1>1
<1>3. LaneLines(i, l) = <<x, y, y>>
  BY DEF LaneLines, x, y
<1>4. QED BY <1>2, <1>3 DEF x, y

LEMMA LanesTyped ==
  ASSUME NEW i \in Nat, NEW r \in Transceiver!Interface
  PROVE  /\ LaneBlocks(i, r) \in Seq(Seq(OpticLine)) /\ Len(LaneBlocks(i, r)) = Lanes(r)
         /\ \A l \in 1..Lanes(r) : LaneBlocks(i, r)[l] = LaneLines(i, l)
<1> DEFINE f == LaneBlocks(i, r)
           m == Lanes(r)
           X == Seq(OpticLine)
<1>1. m \in Nat
  BY InterfaceTyped
<1> HIDE DEF m
<1>2. \A l \in 1..m : LaneLines(i, l) \in X
  <2> TAKE l \in 1..m
  <2>1. l \in Nat
    BY <1>1
  <2>2. QED BY <2>1, LaneLinesAre
<1>3. f = [l \in 1..m |-> LaneLines(i, l)]
  BY DEF LaneBlocks, m
<1> HIDE DEF f, X
<1>4. f \in [1..m -> X] /\ \A l \in 1..m : f[l] = LaneLines(i, l)
  BY <1>2, <1>3
<1>5. f \in Seq(X) /\ Len(f) = m
  BY <1>1, <1>4
<1>6. QED BY <1>4, <1>5 DEF f, X, m

LEMMA BlankTyped ==
  LET w == <<Transceiver!Row("blank", <<>>)>>
  IN  w \in Seq(OpticLine) /\ Len(w) = 1 /\ w[1] = Transceiver!Row("blank", <<>>)
<1> DEFINE e == Transceiver!Row("blank", <<>>)
<1>1. <<>> \in Val \cup BOOLEAN /\ "blank" \in OpticKind
  BY DEF Val, OpticKind
<1>2. e \in OpticLine
  BY <1>1, OpticRow
<1> HIDE DEF e
<1>3. <<e>> \in Seq(OpticLine) /\ Len(<<e>>) = 1 /\ <<e>>[1] = e
  BY <1>2, OneLine
<1>4. QED BY <1>3 DEF e

LEMMA OpticLines ==
  ASSUME NEW i \in Nat, NEW r \in Transceiver!Interface
  PROVE  LET b == OpticBlocks(i, r)
         IN  /\ Blocks(b, OpticLine) /\ Len(b) = Lanes(r) + 2
             /\ Len(b[1]) = HeadSize(r) /\ \A h \in 1..HeadSize(r) : b[1][h] = HeadLine(i, r, h)
             /\ Len(b[Lanes(r) + 2]) = 1 /\ b[Lanes(r) + 2][1] = Transceiver!Row("blank", <<>>)
             /\ \A l \in 1..Lanes(r) :
                  /\ Len(b[l + 1]) = 3 /\ b[l + 1][1] = Transceiver!Row("domHeader", <<>>)
                  /\ b[l + 1][2] = Transceiver!Row("dom", <<i, l>>)
                  /\ b[l + 1][3] = Transceiver!Row("dom", <<i, l>>)
<1> DEFINE b == OpticBlocks(i, r)
           h == OpticHead(i, r)
           f == LaneBlocks(i, r)
           e == Transceiver!Row("blank", <<>>)
           w == <<e>>
           m == Lanes(r)
<1>1. f \in Seq(Seq(OpticLine)) /\ Len(f) = m /\ \A l \in 1..m : f[l] = LaneLines(i, l)
  BY LanesTyped
<1>2. h \in Seq(OpticLine) /\ Len(h) = HeadSize(r) /\ \A g \in 1..HeadSize(r) : h[g] = HeadLine(i, r, g)
  BY OpticHeadLines
<1>3. w \in Seq(OpticLine) /\ Len(w) = 1 /\ w[1] = e
  BY BlankTyped
<1>4. m \in Nat
  BY InterfaceTyped
<1>5. b = Framed(h, f, w)
  BY DEF OpticBlocks
<1> HIDE DEF b, h, f, e, w
<1>6. /\ Blocks(b, OpticLine) /\ Len(b) = Len(f) + 2
      /\ b[1] = h /\ b[Len(f) + 2] = w /\ \A j \in 1..Len(f) : b[j + 1] = f[j]
  <2>1. w \in Seq(OpticLine) /\ h \in Seq(OpticLine) /\ f \in Seq(Seq(OpticLine))
    BY <1>1, <1>2, <1>3
  <2>2. QED BY <1>5, <2>1, FramedBlocks
<1> HIDE DEF m
<1>7. Len(b) = m + 2 /\ b[m + 2] = w /\ \A j \in 1..m : b[j + 1] = LaneLines(i, j)
  BY <1>1, <1>6
<1>8. \A l \in 1..m : /\ Len(b[l + 1]) = 3 /\ b[l + 1][1] = Transceiver!Row("domHeader", <<>>)
                      /\ b[l + 1][2] = Transceiver!Row("dom", <<i, l>>)
                      /\ b[l + 1][3] = Transceiver!Row("dom", <<i, l>>)
  <2> TAKE l \in 1..m
  <2>1. l \in Nat
    BY <1>4
  <2>2. b[l + 1] = LaneLines(i, l)
    BY <1>7
  <2>3. QED BY <2>1, <2>2, LaneLinesAre
<1>9. Len(b[m + 2]) = 1 /\ b[m + 2][1] = e
  BY <1>3, <1>7
<1>10. QED BY <1>2, <1>6, <1>7, <1>8, <1>9 DEF b, m, e

LEMMA OpticFlat ==
  ASSUME NEW i \in Nat, NEW r \in Transceiver!Interface
  PROVE  /\ Transceiver!Printout(i, r) = FlattenSeq(OpticBlocks(i, r))
         /\ Transceiver!Printout(i, r) \in Seq(OpticLine)
<1> DEFINE a == <<NameLine(i, r), PresenceLine(r)>>
           d == Details(i, r.module)
           h == OpticHead(i, r)
           f == LaneBlocks(i, r)
           g == FlattenSeq(f)
           w == <<Transceiver!Row("blank", <<>>)>>
           n == r.module = Transceiver!Nil
           p == Transceiver!Printout(i, r)
<1>1. f \in Seq(Seq(OpticLine)) /\ h \in Seq(OpticLine) /\ w \in Seq(OpticLine)
  BY LanesTyped, OpticHeadLines, BlankTyped
<1>2. a \in Seq(OpticLine)
  BY HeadTyped
<1>3. h = a \o (IF n THEN <<>> ELSE d)
  BY DEF OpticHead
<1>4. p = (a \o (IF n THEN <<>> ELSE Transceiver!ModuleRows(i, r.module))) \o w
  BY DEF Transceiver!Printout, NameLine, PresenceLine, Transceiver!Empty
<1>5. g \in Seq(OpticLine)
  BY <1>1, FlatSeq
<1>6. OpticBlocks(i, r) = Framed(h, f, w)
  BY DEF OpticBlocks
<1>7. ~n => Transceiver!ModuleRows(i, r.module) = d \o g
  <2> SUFFICES ASSUME ~n PROVE Transceiver!ModuleRows(i, r.module) = d \o g
    OBVIOUS
  <2> DEFINE m == r.module
             F == [l \in 1..m.lanes |-> <<Transceiver!Row("domHeader", <<>>), Transceiver!Row("dom", <<i, l>>),
                                          Transceiver!Row("dom", <<i, l>>)>>]
  <2>1. Transceiver!ModuleRows(i, m) = d \o Transceiver!FlattenSeq(F)
    BY DEF Transceiver!ModuleRows, Details, Transceiver!Empty
  <2>2. f = F
    BY DEF LaneBlocks, LaneLines, Lanes
  <2> HIDE DEF f, F
  <2>3. Transceiver!FlattenSeq(F) = FlattenSeq(F)
    BY DEF Transceiver!FlattenSeq, FlattenSeq
  <2>4. QED BY <2>1, <2>2, <2>3
<1>8. n => g = <<>>
  <2> SUFFICES ASSUME n PROVE g = <<>>
    OBVIOUS
  <2>1. Len(f) = 0 /\ f \in Seq(Seq(OpticLine))
    BY <1>1, LanesTyped DEF Lanes
  <2> HIDE DEF f
  <2>2. f = <<>>
    BY <2>1
  <2>3. QED BY <2>2, NoParts
<1>9. ~n => d \in Seq(OpticLine)
  <2>1. ~n => r.module \in Modules
    BY InterfaceTyped
  <2>2. QED BY <2>1, DetailsLines
<1> HIDE DEF a, d, h, f, g, w, n, p
<1>10. FlattenSeq(Framed(h, f, w)) = (h \o g) \o w /\ FlattenSeq(Framed(h, f, w)) \in Seq(OpticLine)
  BY <1>1, FramedFlat DEF g
<1>11. p = (h \o g) \o w
  <2>1. CASE n
    <3>1. p = (a \o <<>>) \o w /\ h = a \o <<>> /\ g = <<>>
      BY <1>3, <1>4, <1>8, <2>1
    <3>2. a \o <<>> = a
      BY <1>2
    <3>3. QED BY <3>1, <3>2
  <2>2. CASE ~n
    <3>1. p = (a \o (d \o g)) \o w /\ h = a \o d
      BY <1>3, <1>4, <1>7, <2>2
    <3>2. (a \o d) \o g = a \o (d \o g)
      BY <1>2, <1>5, <1>9, <2>2, JoinTwice
    <3>3. QED BY <3>1, <3>2
  <2>3. QED BY <2>1, <2>2
<1>12. QED BY <1>6, <1>10, <1>11 DEF p

LEMMA OpticTextsTyped ==
  ASSUME NEW ps \in Seq(Transceiver!Interface)
  PROVE  /\ Blocks(OpticTexts(ps), OpticLine) /\ Len(OpticTexts(ps)) = Len(ps)
         /\ \A i \in 1..Len(ps) : OpticTexts(ps)[i] = FlattenSeq(OpticBlocks(i, ps[i]))
<1> DEFINE X == Seq(OpticLine)
           m == Len(ps)
           f == OpticTexts(ps)
<1>1. m \in Nat /\ DOMAIN ps = 1..m /\ \A i \in 1..m : i \in Nat /\ ps[i] \in Transceiver!Interface
  OBVIOUS
<1> HIDE DEF m
<1>2. \A i \in 1..m : /\ Transceiver!Printout(i, ps[i]) \in X
                      /\ Transceiver!Printout(i, ps[i]) = FlattenSeq(OpticBlocks(i, ps[i]))
  BY <1>1, OpticFlat
<1>3. f = [i \in 1..m |-> Transceiver!Printout(i, ps[i])]
  BY <1>1 DEF OpticTexts
<1> HIDE DEF f, X
<1>4. f \in [1..m -> X]
  BY <1>2, <1>3
<1>5. f \in Seq(X) /\ Len(f) = m
  BY <1>1, <1>4
<1>6. \A i \in 1..m : f[i] = FlattenSeq(OpticBlocks(i, ps[i]))
  BY <1>2, <1>3
<1>7. QED BY <1>5, <1>6 DEF f, X, m, Blocks

-----------------------------------------------------------------------------
(* TransceiverText: what the loop holds at each line.                      *)

OpticEntry == [name : Val, present : BOOLEAN, detail : Val, length : Val, cable : Val,
               domSupported : BOOLEAN, dom : Seq(Val), laneNumber : {0}]

\* The diagnostics of a lane, and what is remembered once it is read.
LaneRead(i, l) == IF l = 0 THEN <<>> ELSE <<<<i, l>>, <<i, l>>>>

DomAfter(i, l) == [inDom |-> l # 0, dom |-> LaneRead(i, l)]

\* The link length before line h of an interface: the last that was read.
LengthAt(i, r, h) ==
  LET n == Len(Lengths(r))
  IN  IF h > 4 /\ n > 0 THEN <<i, Lengths(r)[IF h > 3 + n THEN n ELSE h - 4]>> ELSE <<>>

PresentAt(r, h)  == IF h > 2 THEN r.module # Transceiver!Nil ELSE FALSE
DetailAt(i, h)   == IF h > 3 THEN <<i>> ELSE <<>>
CableAt(i, r, h) == IF h > 4 + Len(Lengths(r)) /\ HasCable(r) THEN <<i>> ELSE <<>>

Undiagnosed(n, p, d, l, c, s) == [name |-> n, present |-> p, detail |-> d, length |-> l, cable |-> c,
                                  domSupported |-> s, dom |-> <<>>, laneNumber |-> 0]

HeadEntry(i, r, h, s) == Undiagnosed(<<i>>, PresentAt(r, h), DetailAt(i, h), LengthAt(i, r, h), CableAt(i, r, h), s)

\* An interface that is read up to its last line, and as it is reported.
Bare(i, r) == HeadEntry(i, r, HeadSize(r) + 1, Lanes(r) # 0)

Whole(i, r) == [Bare(i, r) EXCEPT !.dom = LaneRead(i, Lanes(r))]

\* Before line h of block k of interface i: line h of its head, or line h of
\* a lane, or the empty line.
InHead(i, r, h, c, s) == c = HeadEntry(i, r, h, FALSE) /\ s = DomAfter(i, 0)

InLane(i, r, k, h, c, s) ==
  /\ c = HeadEntry(i, r, HeadSize(r) + 1, IF k > 2 \/ h > 1 THEN TRUE ELSE FALSE)
  /\ s = IF h = 1 THEN DomAfter(i, k - 2) ELSE [inDom |-> TRUE, dom |-> IF h = 2 THEN <<>> ELSE <<<<i, k - 1>>>>]

\* The values printed for interfaces g to i, and entries that hold no others.
Vals(g, i) == {v \in Val : v # <<>> => v[1] \in g..i}

MixedEntry(g, i) == [name : {<<g>>}, present : BOOLEAN, detail : Vals(g, i), length : Vals(g, i), cable : Vals(g, i),
                     domSupported : BOOLEAN, dom : {<<>>}, laneNumber : {0}]

MixedScratch(g, i) == [inDom : BOOLEAN, dom : Seq(Vals(g, i))]

\* The last interface but breakout ports up to i; 0 if there are only these.
Holder(ps, g, i) ==
  /\ g \in 0..i /\ (g # 0 => ~ps[g].breakout)
  /\ \A m \in (g + 1)..i : ps[m].breakout

GroupOf(ps, k) == {l \in k..Len(ps) : \A m \in (k + 1)..l : ps[m].breakout}

\* What may be reported of interface k.
KeptEntry(ps, k, e) ==
  /\ e \in OpticEntry /\ e.name = <<k>> /\ ~ps[k].breakout
  /\ \A v \in {e.detail, e.length, e.cable} \cup ToSet(e.dom) : v # <<>> => v[1] \in GroupOf(ps, k)
  /\ GroupOf(ps, k) = {k} => e = Whole(k, ps[k])

\* Every interface before g is reported.
SavedUpTo(ps, g, o) ==
  /\ o \in Seq(OpticEntry)
  /\ \A x \in 1..Len(o) : \E k \in 1..(g - 1) : KeptEntry(ps, k, o[x])
  /\ \A x, y \in 1..Len(o) : x < y => o[x].name[1] < o[y].name[1]
  /\ \A k \in 1..(g - 1) : ~ps[k].breakout => \E x \in 1..Len(o) : o[x].name = <<k>>

\* What is held once the names of i interfaces are read.
Loose(ps, i, c, s, o) ==
  \E g \in 0..i :
    /\ Holder(ps, g, i) /\ SavedUpTo(ps, g, o)
    /\ IF g = 0 THEN c = Transceiver!Nil ELSE c \in MixedEntry(g, i) /\ s \in MixedScratch(g, i)

OpticReady(ps, m, c, s, o) ==
  /\ Loose(ps, m, c, s, o)
  /\ m # 0 /\ ~ps[m].breakout => c = Bare(m, ps[m]) /\ s = DomAfter(m, Lanes(ps[m]))

OpticHeld(ps, i, k, h, c, s, o) ==
  IF k = 1 /\ h = 1 THEN OpticReady(ps, i - 1, c, s, o)
  ELSE /\ Loose(ps, i, c, s, o)
       /\ ~ps[i].breakout => IF k = 1 THEN InHead(i, ps[i], h, c, s) ELSE InLane(i, ps[i], k, h, c, s)

OpticAt(ps, i, k, h, t, c, s, o) ==
  /\ i \in 1..Len(ps) /\ k \in 1..(Lanes(ps[i]) + 2) /\ h \in 1..Len(OpticBlocks(i, ps[i])[k])
  /\ t = LeftBefore(OpticBlocks(i, ps[i]), k, h, From(OpticTexts(ps), i + 1))
  /\ OpticHeld(ps, i, k, h, c, s, o)

OpticEnd(ps, t, c, s, o) ==
  /\ t = <<>>
  /\ \/ OpticReady(ps, Len(ps), c, s, o)
     \/ c = Transceiver!Nil /\ SavedUpTo(ps, Len(ps) + 1, o)

OpticHolds(ps, t, c, s, o) ==
  /\ ps \in Seq(Transceiver!Interface)
  /\ \/ \E i, k, h \in Nat : OpticAt(ps, i, k, h, t, c, s, o)
     \/ OpticEnd(ps, t, c, s, o)

OpticInv == parser = "transceiver" => OpticHolds(printed, text, current, scratch, out)

-----------------------------------------------------------------------------
(* TransceiverText: from line to line.                                     *)

\* The text before an interface.
LEMMA BeforeInterface ==
  ASSUME NEW ps \in Seq(Transceiver!Interface), NEW m \in 0..Len(ps), NEW c, NEW s, NEW o,
         OpticReady(ps, m, c, s, o)
  PROVE  OpticHolds(ps, From(OpticTexts(ps), m + 1), c, s, o)
<1> DEFINE B == OpticTexts(ps)
           i == m + 1
           L == Len(ps)
           t == From(B, i)
<1>1. L \in Nat /\ m \in Nat /\ i - 1 = m /\ i \in Nat
  OBVIOUS
<1>2. Blocks(B, OpticLine) /\ Len(B) = L /\ \A x \in 1..L : B[x] = FlattenSeq(OpticBlocks(x, ps[x]))
  BY OpticTextsTyped
<1>3. CASE m = L
  <2>1. t = <<>>
    <3> HIDE DEF B
    <3>1. Len(B) + 1 \in 1..(Len(B) + 1)
      BY <1>1, <1>2
    <3>2. From(B, Len(B) + 1) = <<>>
      BY <1>2, <3>1, FromTyped
    <3>3. QED BY <1>2, <1>3, <3>2
  <2>2. OpticEnd(ps, t, c, s, o)
    BY <1>3, <2>1 DEF OpticEnd
  <2> HIDE DEF t
  <2>3. OpticHolds(ps, t, c, s, o)
    BY <2>2 DEF OpticHolds
  <2>4. QED BY <2>3 DEF t
<1>4. CASE m # L
  <2> DEFINE r == ps[i]
             b == OpticBlocks(i, r)
  <2>1. i \in 1..L
    BY <1>1, <1>4
  <2>2. r \in Transceiver!Interface
    BY <2>1
  <2>3. Blocks(b, OpticLine) /\ Len(b) = Lanes(r) + 2 /\ Len(b[1]) = HeadSize(r)
    BY <1>1, <2>2, OpticLines
  <2>4. Lanes(r) \in Nat /\ HeadSize(r) \in Nat /\ HeadSize(r) > 0
    BY <2>2, InterfaceTyped
  <2>5. t = B[i] \o From(B, i + 1)
    <3> HIDE DEF B, L, i
    <3>1. i \in 1..Len(B)
      BY <1>2, <2>1
    <3>2. QED BY <1>2, <3>1, FromBlock
  <2>6. B[i] = FlattenSeq(b)
    BY <1>2, <2>1
  <2> HIDE DEF b
  <2>7. FlattenSeq(b) = Left(b, 1, 1)
    <3>1. b # <<>>
      BY <2>3, <2>4
    <3>2. QED BY <2>3, <3>1, LeftFirst
  <2>8. t = LeftBefore(b, 1, 1, From(B, i + 1))
    BY <2>5, <2>6, <2>7 DEF LeftBefore
  <2>9. 1 \in 1..(Lanes(r) + 2) /\ 1 \in 1..Len(b[1]) /\ 1 \in Nat
    BY <2>3, <2>4
  <2>10. OpticHeld(ps, i, 1, 1, c, s, o)
    BY <1>1 DEF OpticHeld
  <2> HIDE DEF t
  <2>11. OpticAt(ps, i, 1, 1, t, c, s, o)
    BY <2>1, <2>8, <2>9, <2>10 DEF OpticAt, b
  <2>12. OpticHolds(ps, t, c, s, o)
    <3> HIDE DEF i
    <3> QED BY <1>1, <2>9, <2>11 DEF OpticHolds
  <2>13. QED BY <2>12 DEF t
<1>5. QED BY <1>3, <1>4

\* The line that is read, and what is left after it.
LEMMA OpticTextRead ==
  ASSUME NEW ps \in Seq(Transceiver!Interface), NEW i \in 1..Len(ps), NEW k \in 1..(Lanes(ps[i]) + 2),
         NEW h \in 1..Len(OpticBlocks(i, ps[i])[k])
  PROVE  LET b == OpticBlocks(i, ps[i])
             r == From(OpticTexts(ps), i + 1)
             t == LeftBefore(b, k, h, r)
         IN  /\ t # <<>> /\ Head(t) = b[k][h]
             /\ h < Len(b[k]) => Tail(t) = LeftBefore(b, k, h + 1, r)
             /\ h = Len(b[k]) /\ k # Lanes(ps[i]) + 2 => Tail(t) = LeftBefore(b, k + 1, 1, r)
             /\ h = Len(b[k]) /\ k = Lanes(ps[i]) + 2 => Tail(t) = r
<1> DEFINE p == ps[i]
           b == OpticBlocks(i, p)
           B == OpticTexts(ps)
           r == From(B, i + 1)
           t == LeftBefore(b, k, h, r)
           m == Lanes(p)
<1>1. p \in Transceiver!Interface /\ i \in Nat
  OBVIOUS
<1>2. Blocks(b, OpticLine) /\ Len(b) = m + 2
  BY <1>1, OpticLines
<1>3. r \in Seq(OpticLine)
  <2>1. Blocks(B, OpticLine) /\ Len(B) = Len(ps)
    BY OpticTextsTyped
  <2> HIDE DEF B
  <2>2. i + 1 \in 1..(Len(B) + 1)
    BY <2>1
  <2>3. QED BY <2>1, <2>2, FromTyped
<1>4. k \in 1..Len(b) /\ h \in 1..Len(b[k])
  BY <1>2
<1> HIDE DEF m, b, r
<1>5. /\ t # <<>> /\ Head(t) = b[k][h]
      /\ h < Len(b[k]) => Tail(t) = LeftBefore(b, k, h + 1, r)
      /\ h = Len(b[k]) /\ k # Len(b) => Tail(t) = LeftBefore(b, k + 1, 1, r)
      /\ h = Len(b[k]) /\ k = Len(b) => Tail(t) = r
  <2>1. Blocks(b, OpticLine)
    BY <1>2
  <2>2. QED BY <1>3, <1>4, <2>1, TextRead
<1>6. QED BY <1>2, <1>5 DEF b, r, m

\* What is held after a line is held before the next one.
LEMMA OpticReached ==
  ASSUME NEW ps \in Seq(Transceiver!Interface), NEW i \in 1..Len(ps), NEW k \in 1..(Lanes(ps[i]) + 2),
         NEW h \in 1..Len(OpticBlocks(i, ps[i])[k]), NEW c, NEW s, NEW o,
         h < Len(OpticBlocks(i, ps[i])[k]) => OpticHeld(ps, i, k, h + 1, c, s, o),
         h = Len(OpticBlocks(i, ps[i])[k]) /\ k # Lanes(ps[i]) + 2 => OpticHeld(ps, i, k + 1, 1, c, s, o),
         h = Len(OpticBlocks(i, ps[i])[k]) /\ k = Lanes(ps[i]) + 2 => OpticReady(ps, i, c, s, o)
  PROVE  LET t == LeftBefore(OpticBlocks(i, ps[i]), k, h, From(OpticTexts(ps), i + 1))
         IN  OpticHolds(ps, Tail(t), c, s, o)
<1> DEFINE p == ps[i]
           b == OpticBlocks(i, p)
           B == OpticTexts(ps)
           r == From(B, i + 1)
           t == LeftBefore(b, k, h, r)
           u == Tail(t)
           m == Lanes(p)
           x == Len(b[k])
<1>1. p \in Transceiver!Interface /\ i \in Nat
  OBVIOUS
<1>2. Blocks(b, OpticLine) /\ Len(b) = m + 2 /\ m \in Nat
  BY <1>1, OpticLines, InterfaceTyped
<1>3. /\ h < x => OpticHeld(ps, i, k, h + 1, c, s, o)
      /\ h = x /\ k # m + 2 => OpticHeld(ps, i, k + 1, 1, c, s, o)
      /\ h = x /\ k = m + 2 => OpticReady(ps, i, c, s, o)
  OBVIOUS
<1>4. \A y \in 1..(m + 2) : Len(b[y]) \in Nat /\ Len(b[y]) > 0
  <2>1. /\ Len(b[1]) = HeadSize(p) /\ Len(b[m + 2]) = 1
        /\ \A j \in 1..m : Len(b[j + 1]) = 3
    BY <1>1, OpticLines
  <2>2. HeadSize(p) \in Nat /\ HeadSize(p) > 0
    BY <1>1, InterfaceTyped
  <2> HIDE DEF b, m
  <2>3. TAKE y \in 1..(m + 2)
  <2>4. y = 1 \/ y = m + 2 \/ \E j \in 1..m : j + 1 = y
    <3>1. y = 1 \/ y = m + 2 \/ (y - 1 \in 1..m /\ (y - 1) + 1 = y)
      BY <1>2
    <3>2. QED BY <3>1
  <2>5. CASE y = 1
    BY <2>1, <2>2, <2>5
  <2>6. CASE y = m + 2
    <3>1. Len(b[y]) = 1
      BY <2>1, <2>6
    <3>2. QED BY <3>1
  <2>7. CASE \E j \in 1..m : j + 1 = y
    <3>1. Len(b[y]) = 3
      BY <2>1, <2>7
    <3>2. QED BY <3>1
  <2>8. QED BY <2>4, <2>5, <2>6, <2>7
<1>5. x \in Nat /\ k \in Nat /\ h \in Nat /\ h \in 1..x /\ k \in 1..(m + 2)
  <2>1. h \in 1..x /\ k \in 1..(m + 2)
    OBVIOUS
  <2> HIDE DEF m, b
  <2>2. x \in Nat
    BY <1>4
  <2> HIDE DEF x
  <2>3. QED BY <1>2, <2>1, <2>2
<1>6. /\ h < x => u = LeftBefore(b, k, h + 1, r)
      /\ h = x /\ k # m + 2 => u = LeftBefore(b, k + 1, 1, r)
      /\ h = x /\ k = m + 2 => u = r
  BY OpticTextRead
<1> SUFFICES OpticHolds(ps, u, c, s, o)
  BY DEF u, t, b, r
<1> HIDE DEF u
<1>7. ASSUME NEW z \in Nat, NEW g \in Nat, z \in 1..(m + 2), g \in 1..Len(b[z]), u = LeftBefore(b, z, g, r),
             OpticHeld(ps, i, z, g, c, s, o)
      PROVE  OpticHolds(ps, u, c, s, o)
  <2>1. OpticAt(ps, i, z, g, u, c, s, o)
    BY <1>7 DEF OpticAt
  <2> HIDE DEF m, b, r
  <2>2. QED BY <1>1, <2>1 DEF OpticHolds
<1> HIDE DEF b, r
<1>8. CASE h < x
  <2> DEFINE g == h + 1
  <2>1. g \in 1..x /\ g \in Nat
    <3> HIDE DEF x
    <3> QED BY <1>5, <1>8
  <2>2. u = LeftBefore(b, k, g, r) /\ OpticHeld(ps, i, k, g, c, s, o)
    BY <1>3, <1>6, <1>8
  <2> HIDE DEF g, m
  <2>3. QED BY <1>5, <1>7, <2>1, <2>2
<1>9. CASE h = x /\ k # m + 2
  <2> DEFINE g == k + 1
             y == Len(b[g])
  <2>1. g \in 1..(m + 2) /\ g \in Nat
    <3> HIDE DEF m
    <3> QED BY <1>2, <1>5, <1>9
  <2>2. u = LeftBefore(b, g, 1, r) /\ OpticHeld(ps, i, g, 1, c, s, o)
    BY <1>3, <1>6, <1>9
  <2> HIDE DEF g, m
  <2>3. y \in Nat /\ y > 0
    BY <1>4, <2>1
  <2> HIDE DEF y
  <2>4. 1 \in 1..y /\ 1 \in Nat
    BY <2>3
  <2>5. QED BY <1>7, <2>1, <2>2, <2>4 DEF y
<1>10. CASE h = x /\ k = m + 2
  <2>1. u = r /\ OpticReady(ps, i, c, s, o)
    BY <1>3, <1>6, <1>10
  <2>2. OpticHolds(ps, From(B, i + 1), c, s, o)
    <3>1. i \in 0..Len(ps)
      OBVIOUS
    <3>2. QED BY <2>1, <3>1, BeforeInterface
  <2>3. QED BY <2>1, <2>2 DEF r
<1>11. h < x \/ h = x
  <2> HIDE DEF x
  <2>1. QED BY <1>5
<1>12. QED BY <1>8, <1>9, <1>10, <1>11

-----------------------------------------------------------------------------
(* TransceiverText: entries.                                               *)

LEMMA MixedNotNil ==
  ASSUME NEW g, NEW i, NEW c \in MixedEntry(g, i)
  PROVE  c # Transceiver!Nil
<1>1. DOMAIN Transceiver!Nil = {"kind"}
  BY DEF Transceiver!Nil
<1>2. "name" \in DOMAIN c
  BY DEF MixedEntry
<1>3. QED BY <1>1, <1>2

LEMMA UndiagnosedNotNil ==
  ASSUME NEW n, NEW p, NEW d, NEW l, NEW c, NEW s
  PROVE  Undiagnosed(n, p, d, l, c, s) # Transceiver!Nil
<1>1. DOMAIN Transceiver!Nil = {"kind"}
  BY DEF Transceiver!Nil
<1>2. "name" \in DOMAIN Undiagnosed(n, p, d, l, c, s)
  BY DEF Undiagnosed
<1>3. QED BY <1>1, <1>2

LEMMA UndiagnosedWith ==
  ASSUME NEW n, NEW p, NEW d, NEW l, NEW c, NEW s, NEW x
  PROVE  LET e == Undiagnosed(n, p, d, l, c, s)
         IN  /\ [e EXCEPT !.present = x] = Undiagnosed(n, x, d, l, c, s)
             /\ [e EXCEPT !.domSupported = x] = Undiagnosed(n, p, d, l, c, x)
             /\ [e EXCEPT !.dom = <<>>] = e
<1> DEFINE z == <<>>
           e == Undiagnosed(n, p, d, l, c, s)
<1>1. e = [name |-> n, present |-> p, detail |-> d, length |-> l, cable |-> c,
           domSupported |-> s, dom |-> z, laneNumber |-> 0]
  BY DEF Undiagnosed
<1>2. \A a, b, f, k, y : Undiagnosed(n, a, b, f, k, y) = [name |-> n, present |-> a, detail |-> b, length |-> f,
                               cable |-> k, domSupported |-> y, dom |-> z, laneNumber |-> 0]
  BY DEF Undiagnosed
<1> HIDE DEF z, e
<1>3. [e EXCEPT !.present = x] = Undiagnosed(n, x, d, l, c, s)
  BY <1>1, <1>2
<1>4. [e EXCEPT !.domSupported = x] = Undiagnosed(n, p, d, l, c, x)
  BY <1>1, <1>2
<1>5. [e EXCEPT !.dom = z] = e
  BY <1>1
<1>6. QED BY <1>3, <1>4, <1>5 DEF e, z

\* Lines that change an entry leave it one of the same interfaces.
LEMMA MixedWith ==
  ASSUME NEW g, NEW i, NEW c \in MixedEntry(g, i)
  PROVE  /\ \A b \in BOOLEAN : /\ [c EXCEPT !.present = b] \in MixedEntry(g, i)
                               /\ [c EXCEPT !.domSupported = b] \in MixedEntry(g, i)
         /\ \A v \in Vals(g, i) : /\ [c EXCEPT !["detail"] = v] \in MixedEntry(g, i)
                                  /\ [c EXCEPT !["length"] = v] \in MixedEntry(g, i)
                                  /\ [c EXCEPT !["cable"] = v] \in MixedEntry(g, i)
<1> DEFINE V == Vals(g, i)
<1> HIDE DEF V
<1>1. MixedEntry(g, i) = [name : {<<g>>}, present : BOOLEAN, detail : V, length : V, cable : V,
                          domSupported : BOOLEAN, dom : {<<>>}, laneNumber : {0}]
  BY DEF MixedEntry, V
<1>2. ASSUME NEW b \in BOOLEAN PROVE [c EXCEPT !.present = b] \in MixedEntry(g, i)
  BY <1>1
<1>3. ASSUME NEW b \in BOOLEAN PROVE [c EXCEPT !.domSupported = b] \in MixedEntry(g, i)
  BY <1>1
<1>4. ASSUME NEW v \in V
      PROVE  /\ [c EXCEPT !["detail"] = v] \in MixedEntry(g, i)
             /\ [c EXCEPT !["length"] = v] \in MixedEntry(g, i)
             /\ [c EXCEPT !["cable"] = v] \in MixedEntry(g, i)
  BY <1>1
<1>5. QED BY <1>2, <1>3, <1>4 DEF V

LEMMA ValsGrow ==
  ASSUME NEW g \in Nat, NEW i \in Nat, NEW j \in Nat, i <= j
  PROVE  Vals(g, i) \subseteq Vals(g, j) /\ (g <= j => Vals(j, j) \subseteq Vals(g, j))
<1>1. g..i \subseteq g..j /\ (g <= j => j..j \subseteq g..j)
  OBVIOUS
<1>2. QED BY <1>1 DEF Vals

\* A breakout port begins no entry: its lines may go to the one before.
LEMMA LooseGrows ==
  ASSUME NEW ps \in Seq(Transceiver!Interface), NEW i \in 1..Len(ps), ps[i].breakout, NEW c, NEW s, NEW o,
         Loose(ps, i - 1, c, s, o)
  PROVE  Loose(ps, i, c, s, o)
<1>1. PICK g \in 0..(i - 1) :
        /\ Holder(ps, g, i - 1) /\ SavedUpTo(ps, g, o)
        /\ IF g = 0 THEN c = Transceiver!Nil ELSE c \in MixedEntry(g, i - 1) /\ s \in MixedScratch(g, i - 1)
  BY DEF Loose
<1>2. g \in Nat /\ i - 1 \in Nat /\ i \in Nat /\ i - 1 <= i /\ g \in 0..i
  OBVIOUS
<1>3. Holder(ps, g, i)
  <2>1. \A m \in (g + 1)..i : m \in (g + 1)..(i - 1) \/ m = i
    BY <1>2
  <2>2. QED BY <1>1, <1>2, <2>1 DEF Holder
<1> DEFINE V == Vals(g, i - 1)
           W == Vals(g, i)
           N == {<<g>>}
           E == {<<>>}
           Z == {0}
<1>4. V \subseteq W
  BY <1>2, ValsGrow
<1> HIDE DEF V, W, N, E, Z
<1>5. MixedEntry(g, i - 1) \subseteq MixedEntry(g, i)
  <2>1. MixedEntry(g, i - 1) = [name : N, present : BOOLEAN, detail : V, length : V, cable : V,
                                domSupported : BOOLEAN, dom : E, laneNumber : Z]
    BY DEF MixedEntry, V, N, E, Z
  <2>2. MixedEntry(g, i) = [name : N, present : BOOLEAN, detail : W, length : W, cable : W,
                            domSupported : BOOLEAN, dom : E, laneNumber : Z]
    BY DEF MixedEntry, W, N, E, Z
  <2>3. ASSUME NEW e \in MixedEntry(g, i - 1) PROVE e \in MixedEntry(g, i)
    <3> DEFINE R == [name : N, present : BOOLEAN, detail : V, length : V, cable : V,
                     domSupported : BOOLEAN, dom : E, laneNumber : Z]
    <3>5. e \in R
      BY <2>1
    <3>6. e.detail \in V /\ e.length \in V /\ e.cable \in V
      BY <3>5
    <3>1. e.detail \in W /\ e.length \in W /\ e.cable \in W
      BY <1>4, <3>6
    <3>2. e = [name |-> e.name, present |-> e.present, detail |-> e.detail, length |-> e.length, cable |-> e.cable,
               domSupported |-> e.domSupported, dom |-> e.dom, laneNumber |-> e.laneNumber]
      BY <3>5
    <3>3. e.name \in N /\ e.present \in BOOLEAN /\ e.domSupported \in BOOLEAN /\ e.dom \in E /\ e.laneNumber \in Z
      BY <3>5
    <3>4. QED BY <2>2, <3>1, <3>2, <3>3
  <2>4. QED BY <2>3
<1>6. MixedScratch(g, i - 1) \subseteq MixedScratch(g, i)
  <2>1. Seq(V) \subseteq Seq(W)
    BY <1>4
  <2>2. QED BY <2>1 DEF MixedScratch, V, W
<1>7. QED BY <1>1, <1>2, <1>3, <1>5, <1>6 DEF Loose

-----------------------------------------------------------------------------
(* TransceiverText: the lines.                                             *)

LEMMA OpticKinds ==
  ASSUME text # <<>>, Transceiver!Next
  PROVE  LET k == Head(text).kind
         IN  /\ text' = Tail(text) /\ printed' = printed
             /\ k = "interface" => Transceiver!Name
             /\ k # "interface" => out' = out
             /\ k \in {"blank", "breakout"} => UNCHANGED <<current, scratch, out>>
             /\ current = Transceiver!Nil /\ k # "interface" => UNCHANGED <<current, scratch, out>>
             /\ current # Transceiver!Nil =>
                  /\ k = "presence" => Transceiver!Presence
                  /\ k \in {"detail", "length", "cable"} => Transceiver!Detail
                  /\ k = "noDom" => Transceiver!NotSupported
                  /\ k = "domHeader" => Transceiver!DomHeader
                  /\ k = "dom" => Transceiver!Dom
             /\ k \in OpticKind
<1>1. ~Transceiver!End /\ ~Transceiver!Parsed
  BY DEF Transceiver!End, Transceiver!AtEnd, Transceiver!Parsed
<1>2. \/ Transceiver!Unread \/ Transceiver!Name \/ Transceiver!NoInterface \/ Transceiver!Presence \/ Transceiver!Detail
      \/ Transceiver!NotSupported \/ Transceiver!DomHeader \/ Transceiver!Dom
  BY <1>1 DEF Transceiver!Next
<1>3. CASE Transceiver!Unread
  BY <1>3 DEF Transceiver!Unread, Transceiver!Ignores, Transceiver!Reads, Transceiver!Line, OpticKind
<1>4. CASE Transceiver!Name
  BY <1>4 DEF Transceiver!Name, Transceiver!Reads, Transceiver!Line, OpticKind
<1>5. CASE Transceiver!NoInterface
  BY <1>5 DEF Transceiver!NoInterface, Transceiver!Ignores, Transceiver!Reads, Transceiver!Line, OpticKind
<1>6. CASE Transceiver!Presence
  BY <1>6 DEF Transceiver!Presence, Transceiver!Reads, Transceiver!Line, OpticKind
<1>7. CASE Transceiver!Detail
  BY <1>7 DEF Transceiver!Detail, Transceiver!Reads, Transceiver!Line, OpticKind
<1>8. CASE Transceiver!NotSupported
  BY <1>8 DEF Transceiver!NotSupported, Transceiver!Reads, Transceiver!Line, OpticKind
<1>9. CASE Transceiver!DomHeader
  BY <1>9 DEF Transceiver!DomHeader, Transceiver!Reads, Transceiver!Line, OpticKind
<1>10. CASE Transceiver!Dom
  BY <1>10 DEF Transceiver!Dom, Transceiver!Reads, Transceiver!Line, OpticKind
<1>11. QED BY <1>2, <1>3, <1>4, <1>5, <1>6, <1>7, <1>8, <1>9, <1>10

\* A line below the name of interface i, or of a breakout port.
Below(i, l) ==
  /\ l.kind # "interface"
  /\ l.kind = "presence" => l.val \in BOOLEAN
  /\ l.kind \in {"detail", "length", "cable", "dom"} => l.val \in Vals(i, i)

\* Any of them leaves what is held to the interfaces it belongs to.
LEMMA LooseLine ==
  ASSUME printed \in Seq(Transceiver!Interface), NEW i \in 1..Len(printed),
         Loose(printed, i, current, scratch, out), text # <<>>, Below(i, Head(text)), Transceiver!Next
  PROVE  Loose(printed, i, current', scratch', out')
<1> DEFINE k == Head(text).kind
           v == Head(text).val
<1>1. PICK g \in 0..i :
        /\ Holder(printed, g, i) /\ SavedUpTo(printed, g, out)
        /\ IF g = 0 THEN current = Transceiver!Nil
           ELSE current \in MixedEntry(g, i) /\ scratch \in MixedScratch(g, i)
  BY DEF Loose
<1>2. k # "interface" /\ (k = "presence" => v \in BOOLEAN)
      /\ (k \in {"detail", "length", "cable", "dom"} => v \in Vals(i, i))
  BY DEF Below
<1>3. out' = out
  BY <1>2, OpticKinds
<1>4. CASE g = 0
  <2>1. current' = current
    BY <1>1, <1>2, <1>4, OpticKinds
  <2>2. QED BY <1>1, <1>3, <1>4, <2>1 DEF Loose
<1>5. CASE g # 0
  <2> DEFINE V == Vals(g, i)
  <2>1. current \in MixedEntry(g, i) /\ scratch \in MixedScratch(g, i) /\ current # Transceiver!Nil
    BY <1>1, <1>5, MixedNotNil
  <2>2. k \in {"detail", "length", "cable", "dom"} => v \in V
    <3>1. Vals(i, i) \subseteq V
      <4>1. g \in Nat /\ i \in Nat /\ g <= i
        OBVIOUS
      <4>2. QED BY <4>1, ValsGrow
    <3>2. QED BY <1>2, <3>1
  <2>3. scratch \in [inDom : BOOLEAN, dom : Seq(V)]
    BY <2>1 DEF MixedScratch
  <2>4. ASSUME current' \in MixedEntry(g, i), scratch' \in MixedScratch(g, i)
        PROVE  Loose(printed, i, current', scratch', out')
    BY <1>1, <1>3, <1>5, <2>4 DEF Loose
  <2> HIDE DEF V
  <2>5. CASE k \in {"blank", "breakout"}
    BY <2>1, <2>4, <2>5, OpticKinds
  <2>6. CASE k = "presence"
    <3>1. current' = [current EXCEPT !.present = v] /\ scratch' = scratch
      BY <2>1, <2>6, OpticKinds DEF Transceiver!Presence, Transceiver!Line
    <3>2. v \in BOOLEAN
      BY <1>2, <2>6
    <3> HIDE DEF v
    <3>3. current' \in MixedEntry(g, i)
      BY <2>1, <3>1, <3>2, MixedWith
    <3>4. QED BY <2>1, <2>4, <3>1, <3>3
  <2>7. CASE k \in {"detail", "length", "cable"}
    <3>1. current' = [current EXCEPT ![k] = v] /\ scratch' = scratch
      BY <2>1, <2>7, OpticKinds DEF Transceiver!Detail, Transceiver!Line
    <3>2. v \in Vals(g, i)
      BY <2>2, <2>7 DEF V
    <3> HIDE DEF v, k
    <3>3. current' \in MixedEntry(g, i)
      <4>1. CASE k = "detail"
        BY <2>1, <3>1, <3>2, <4>1, MixedWith
      <4>2. CASE k = "length"
        BY <2>1, <3>1, <3>2, <4>2, MixedWith
      <4>3. CASE k = "cable"
        BY <2>1, <3>1, <3>2, <4>3, MixedWith
      <4>4. QED BY <2>7, <4>1, <4>2, <4>3
    <3>4. QED BY <2>1, <2>4, <3>1, <3>3
  <2>8. CASE k = "noDom"
    <3>1. current' = [current EXCEPT !.domSupported = FALSE] /\ scratch' = scratch
      BY <2>1, <2>8, OpticKinds DEF Transceiver!NotSupported
    <3>2. FALSE \in BOOLEAN
      OBVIOUS
    <3>3. current' \in MixedEntry(g, i)
      BY <2>1, <3>1, <3>2, MixedWith
    <3>4. QED BY <2>1, <2>4, <3>1, <3>3
  <2>9. CASE k = "domHeader"
    <3>1. current' = [current EXCEPT !.domSupported = TRUE] /\ scratch' = [inDom |-> TRUE, dom |-> <<>>]
      BY <2>1, <2>9, OpticKinds DEF Transceiver!DomHeader
    <3>2. TRUE \in BOOLEAN /\ <<>> \in Seq(V)
      OBVIOUS
    <3>3. current' \in MixedEntry(g, i)
      BY <2>1, <3>1, <3>2, MixedWith
    <3>4. scratch' \in MixedScratch(g, i)
      BY <3>1, <3>2 DEF MixedScratch, V
    <3>5. QED BY <2>4, <3>3, <3>4
  <2>10. CASE k = "dom"
    <3>1. current' = current /\ scratch' = [scratch EXCEPT !.dom = Append(scratch.dom, v)]
      BY <2>1, <2>10, OpticKinds DEF Transceiver!Dom, Transceiver!Line
    <3>2. v \in V
      BY <2>2, <2>10
    <3> HIDE DEF v
    <3> DEFINE d == Append(scratch.dom, v)
    <3>3. d \in Seq(V)
      <4>1. scratch.dom \in Seq(V)
        BY <2>3
      <4>2. QED BY <3>2, <4>1, AppendElements
    <3> HIDE DEF d
    <3>4. scratch' \in [inDom : BOOLEAN, dom : Seq(V)]
      BY <2>3, <3>1, <3>3 DEF d
    <3>5. QED BY <2>1, <2>4, <3>1, <3>4 DEF MixedScratch, V
  <2>11. QED BY <1>2, <2>5, <2>6, <2>7, <2>8, <2>9, <2>10, OpticKinds DEF OpticKind
<1>6. QED BY <1>4, <1>5

-----------------------------------------------------------------------------
(* TransceiverText: what is reported.                                      *)

LEMMA BareFacts ==
  ASSUME NEW i, NEW r
  PROVE  /\ Bare(i, r) # Transceiver!Nil
         /\ Lanes(r) = 0 => Whole(i, r) = Bare(i, r)
<1> DEFINE h == HeadSize(r) + 1
           b == HeadEntry(i, r, h, Lanes(r) # 0)
<1>1. b = Undiagnosed(<<i>>, PresentAt(r, h), DetailAt(i, h), LengthAt(i, r, h), CableAt(i, r, h), Lanes(r) # 0)
  BY DEF HeadEntry
<1>2. Bare(i, r) = b
  BY DEF Bare
<1>3. b # Transceiver!Nil /\ [b EXCEPT !.dom = <<>>] = b
  <2> DEFINE n == <<i>>
             p == PresentAt(r, h)
             d == DetailAt(i, h)
             l == LengthAt(i, r, h)
             c == CableAt(i, r, h)
             s == Lanes(r) # 0
  <2>1. b = Undiagnosed(n, p, d, l, c, s)
    BY <1>1
  <2> HIDE DEF n, p, d, l, c, s, b
  <2>2. QED BY <2>1, UndiagnosedNotNil, UndiagnosedWith
<1> HIDE DEF b
<1>4. Lanes(r) = 0 => Whole(i, r) = [b EXCEPT !.dom = <<>>]
  BY <1>2 DEF Whole, LaneRead
<1>5. QED BY <1>2, <1>3, <1>4

LEMMA ValuesAreTyped ==
  ASSUME NEW g, NEW i
  PROVE  Vals(g, i) \subseteq Val /\ <<>> \in Vals(g, i) /\ Seq(Vals(g, i)) \subseteq Seq(Val)
<1>1. Vals(g, i) \subseteq Val /\ <<>> \in Val
  BY DEF Vals, Val
<1>2. <<>> \in Vals(g, i)
  BY <1>1 DEF Vals
<1> DEFINE V == Vals(g, i)
<1> HIDE DEF V
<1>3. ASSUME NEW s \in Seq(V) PROVE s \in Seq(Val)
  <2>1. \A j \in 1..Len(s) : s[j] \in Val
    BY <1>1 DEF V
  <2>2. s \in [1..Len(s) -> Val] /\ Len(s) \in Nat
    BY <2>1
  <2>3. QED BY <2>2
<1>4. QED BY <1>1, <1>2, <1>3 DEF V

\* The diagnostics read last are added to an entry.
LEMMA WithDomFacts ==
  ASSUME NEW g \in Nat, NEW i, current \in MixedEntry(g, i), scratch \in MixedScratch(g, i)
  PROVE  LET w == Transceiver!WithDom
         IN  /\ w \in OpticEntry /\ w.name = <<g>>
             /\ w.detail \in Vals(g, i) /\ w.length \in Vals(g, i) /\ w.cable \in Vals(g, i)
             /\ w.dom \in Seq(Vals(g, i))
<1> DEFINE V == Vals(g, i)
           n == <<g>>
           z == <<>>
           w == Transceiver!WithDom
           d == IF scratch.inDom THEN scratch.dom ELSE z
<1>1. V \subseteq Val /\ z \in Seq(V) /\ Seq(V) \subseteq Seq(Val) /\ n \in Val
  <2>1. V \subseteq Val /\ Seq(V) \subseteq Seq(Val)
    BY ValuesAreTyped
  <2>2. n \in Val
    BY SmallValues
  <2> HIDE DEF V, n
  <2>3. z \in Seq(V)
    OBVIOUS
  <2>4. QED BY <2>1, <2>2, <2>3
<1>2. current \in [name : {n}, present : BOOLEAN, detail : V, length : V, cable : V,
                   domSupported : BOOLEAN, dom : {z}, laneNumber : {0}]
  BY DEF MixedEntry
<1>3. scratch.inDom \in BOOLEAN /\ scratch.dom \in Seq(V)
  BY DEF MixedScratch
<1> HIDE DEF V, n, z
<1>4. d \in Seq(V) /\ d \in Seq(Val)
  BY <1>1, <1>3
<1> DEFINE c == [current EXCEPT !.dom = d]
<1>5. w = c
  <2>1. CASE scratch.inDom
    BY <2>1 DEF Transceiver!WithDom
  <2>2. CASE ~scratch.inDom
    <3>1. w = current /\ d = z
      BY <2>2 DEF Transceiver!WithDom
    <3>2. current.dom = z
      BY <1>2
    <3> HIDE DEF d, w
    <3>3. [current EXCEPT !.dom = z] = current
      BY <1>2, <3>2
    <3>4. QED BY <3>1, <3>3
  <2>3. QED BY <2>1, <2>2
<1> HIDE DEF d, w
<1>6. /\ c.name = n /\ c.detail \in V /\ c.length \in V /\ c.cable \in V /\ c.dom = d
      /\ c.present \in BOOLEAN /\ c.domSupported \in BOOLEAN /\ c.laneNumber \in {0}
  BY <1>2
<1>7. c \in [name : {n}, present : BOOLEAN, detail : V, length : V, cable : V,
             domSupported : BOOLEAN, dom : {d}, laneNumber : {0}]
  BY <1>2
<1> HIDE DEF c
<1>8. c \in OpticEntry
  <2>1. c = [name |-> c.name, present |-> c.present, detail |-> c.detail, length |-> c.length, cable |-> c.cable,
             domSupported |-> c.domSupported, dom |-> c.dom, laneNumber |-> c.laneNumber]
    BY <1>7
  <2>2. c.name \in Val /\ c.detail \in Val /\ c.length \in Val /\ c.cable \in Val /\ c.dom \in Seq(Val)
    BY <1>1, <1>4, <1>6
  <2>3. QED BY <1>6, <2>1, <2>2 DEF OpticEntry
<1>9. QED BY <1>4, <1>5, <1>6, <1>8 DEF w, V, n

LEMMA EntryKept ==
  ASSUME printed \in Seq(Transceiver!Interface), NEW m \in 1..Len(printed), NEW g \in 1..m, Holder(printed, g, m),
         current \in MixedEntry(g, m), scratch \in MixedScratch(g, m),
         ~printed[m].breakout => current = Bare(m, printed[m]) /\ scratch = DomAfter(m, Lanes(printed[m]))
  PROVE  KeptEntry(printed, g, Transceiver!WithDom)
<1> DEFINE w == Transceiver!WithDom
           V == Vals(g, m)
           G == GroupOf(printed, g)
<1>1. g \in Nat /\ m \in Nat /\ g <= m /\ m <= Len(printed) /\ Len(printed) \in Nat
  OBVIOUS
<1>2. ~printed[g].breakout /\ \A l \in (g + 1)..m : printed[l].breakout
  BY <1>1 DEF Holder
<1>3. /\ w \in OpticEntry /\ w.name = <<g>>
      /\ w.detail \in V /\ w.length \in V /\ w.cable \in V /\ w.dom \in Seq(V)
  BY <1>1, WithDomFacts
<1>4. g..m \subseteq G
  <2> SUFFICES ASSUME NEW l \in g..m PROVE l \in G
    OBVIOUS
  <2>1. l \in g..Len(printed) /\ \A x \in (g + 1)..l : x \in (g + 1)..m
    BY <1>1
  <2>2. QED BY <1>2, <2>1 DEF GroupOf
<1>5. \A v \in V : v # <<>> => v[1] \in G
  BY <1>4 DEF Vals
<1> HIDE DEF V, G
<1>6. \A v \in {w.detail, w.length, w.cable} \cup ToSet(w.dom) : v \in V
  BY <1>3 DEF ToSet
<1>7. G = {g} => w = Whole(g, printed[g])
  <2> SUFFICES ASSUME G = {g} PROVE w = Whole(g, printed[g])
    OBVIOUS
  <2>1. g = m
    <3>1. g = m \/ g + 1 \in g..m
      BY <1>1
    <3>2. QED BY <1>1, <1>4, <3>1
  <2> DEFINE r == printed[g]
             n == Lanes(r)
  <2>2. current = Bare(g, r) /\ scratch = DomAfter(g, n)
    BY <1>2, <2>1
  <2> HIDE DEF r
  <2>3. CASE n = 0
    <3>1. scratch.inDom = FALSE
      BY <2>2, <2>3 DEF DomAfter
    <3>2. w = current
      BY <3>1 DEF Transceiver!WithDom
    <3>3. QED BY <2>2, <2>3, <3>2, BareFacts DEF r
  <2>4. CASE n # 0
    <3>1. scratch.inDom = TRUE /\ scratch.dom = LaneRead(g, n)
      BY <2>2, <2>4 DEF DomAfter
    <3>2. w = [current EXCEPT !.dom = LaneRead(g, n)]
      BY <3>1 DEF Transceiver!WithDom
    <3>3. QED BY <2>2, <3>2 DEF Whole, r
  <2>5. QED BY <2>3, <2>4
<1>8. QED BY <1>2, <1>3, <1>5, <1>6, <1>7 DEF KeptEntry, G

LEMMA SavedGrows ==
  ASSUME NEW ps \in Seq(Transceiver!Interface), NEW m \in 1..Len(ps), NEW g \in 1..m, Holder(ps, g, m),
         NEW o, SavedUpTo(ps, g, o), NEW w, KeptEntry(ps, g, w)
  PROVE  SavedUpTo(ps, m + 1, Append(o, w))
<1> DEFINE a == Append(o, w)
           n == Len(o)
<1>1. g \in Nat /\ m \in Nat /\ g <= m /\ (m + 1) - 1 = m /\ g \in 1..m
  OBVIOUS
<1>2. /\ o \in Seq(OpticEntry) /\ n \in Nat
      /\ \A x \in 1..n : \E k \in 1..(g - 1) : KeptEntry(ps, k, o[x])
      /\ \A x, y \in 1..n : x < y => o[x].name[1] < o[y].name[1]
      /\ \A k \in 1..(g - 1) : ~ps[k].breakout => \E x \in 1..n : o[x].name = <<k>>
  <2>1. /\ o \in Seq(OpticEntry)
        /\ \A x \in 1..n : \E k \in 1..(g - 1) : KeptEntry(ps, k, o[x])
        /\ \A k \in 1..(g - 1) : ~ps[k].breakout => \E x \in 1..n : o[x].name = <<k>>
    BY DEF SavedUpTo
  <2>2. \A x, y \in 1..n : x < y => o[x].name[1] < o[y].name[1]
    BY DEF SavedUpTo
  <2>3. n \in Nat
    BY <2>1
  <2>4. QED BY <2>1, <2>2, <2>3
<1>3. w \in OpticEntry /\ w.name = <<g>>
  BY DEF KeptEntry
<1>4. a \in Seq(OpticEntry) /\ Len(a) = n + 1 /\ (\A x \in 1..n : a[x] = o[x]) /\ a[n + 1] = w
  BY <1>2, <1>3, AppendElements
<1> HIDE DEF a, n
<1>5. \A x \in 1..(n + 1) : x \in 1..n \/ x = n + 1
  BY <1>2
<1>6. ASSUME NEW x \in 1..n PROVE \E k \in 1..(g - 1) : KeptEntry(ps, k, a[x]) /\ a[x].name = <<k>>
  <2>1. PICK k \in 1..(g - 1) : KeptEntry(ps, k, o[x])
    BY <1>2
  <2>2. o[x].name = <<k>>
    BY <2>1 DEF KeptEntry
  <2>3. QED BY <1>4, <2>1, <2>2
<1>7. \A x \in 1..(n + 1) : \E k \in 1..m : KeptEntry(ps, k, a[x])
  <2> TAKE x \in 1..(n + 1)
  <2>1. CASE x \in 1..n
    <3>1. PICK k \in 1..(g - 1) : KeptEntry(ps, k, a[x])
      BY <1>6, <2>1
    <3>2. k \in 1..m
      BY <1>1
    <3>3. QED BY <3>1, <3>2
  <2>2. CASE x = n + 1
    BY <1>1, <1>4, <2>2
  <2>3. QED BY <1>5, <2>1, <2>2
<1>8. \A x, y \in 1..(n + 1) : x < y => a[x].name[1] < a[y].name[1]
  <2> TAKE x, y \in 1..(n + 1)
  <2> HAVE x < y
  <2>1. x \in 1..n
    BY <1>2
  <2>2. CASE y \in 1..n
    BY <1>2, <1>4, <2>1, <2>2
  <2>3. CASE y = n + 1
    <3>1. PICK k \in 1..(g - 1) : a[x].name = <<k>>
      BY <1>6, <2>1
    <3>2. a[x].name[1] = k /\ a[y].name[1] = g /\ k < g
      BY <1>1, <1>3, <1>4, <2>3, <3>1
    <3>3. QED BY <3>2
  <2>4. QED BY <1>5, <2>2, <2>3
<1>9. \A k \in 1..m : ~ps[k].breakout => \E x \in 1..(n + 1) : a[x].name = <<k>>
  <2> TAKE k \in 1..m
  <2> HAVE ~ps[k].breakout
  <2>1. k \in 1..(g - 1) \/ k = g \/ k \in (g + 1)..m
    BY <1>1
  <2>2. CASE k \in 1..(g - 1)
    <3>1. PICK x \in 1..n : o[x].name = <<k>>
      BY <1>2, <2>2
    <3>2. x \in 1..(n + 1)
      BY <1>2
    <3>3. QED BY <1>4, <3>1, <3>2
  <2>3. CASE k = g
    <3>1. n + 1 \in 1..(n + 1)
      BY <1>2
    <3>2. QED BY <1>3, <1>4, <2>3, <3>1
  <2>4. CASE k \in (g + 1)..m
    BY <2>4 DEF Holder
  <2>5. QED BY <2>1, <2>2, <2>3, <2>4
<1>10. QED BY <1>1, <1>4, <1>7, <1>8, <1>9 DEF SavedUpTo, a

\* If no interface but breakout ports was printed, nothing is reported.
LEMMA NothingSaved ==
  ASSUME NEW ps \in Seq(Transceiver!Interface), NEW m \in 0..Len(ps), Holder(ps, 0, m), NEW o, SavedUpTo(ps, 0, o)
  PROVE  SavedUpTo(ps, m + 1, o)
<1> DEFINE n == Len(o)
<1>1. o \in Seq(OpticEntry) /\ n \in Nat /\ \A x \in 1..n : \E k \in 1..(0 - 1) : KeptEntry(ps, k, o[x])
  BY DEF SavedUpTo
<1>2. 1..(0 - 1) = {} /\ m \in Nat /\ (m + 1) - 1 = m /\ (0 + 1)..m = 1..m
  OBVIOUS
<1> HIDE DEF n
<1>3. ~(1 \in 1..n)
  BY <1>1, <1>2
<1>4. n = 0
  BY <1>1, <1>3
<1>5. 1..n = {}
  BY <1>4
<1>6. \A k \in 1..m : ps[k].breakout
  BY <1>2 DEF Holder
<1>7. QED BY <1>1, <1>2, <1>5, <1>6 DEF SavedUpTo, n

\* The entry of an interface is reported at the name of the next one that is
\* recognized.
LEMMA OpticSaved ==
  ASSUME printed \in Seq(Transceiver!Interface), NEW m \in 0..Len(printed),
         OpticReady(printed, m, current, scratch, out), Transceiver!SaveWithDom
  PROVE  SavedUpTo(printed, m + 1, out')
<1>1. PICK g \in 0..m :
        /\ Holder(printed, g, m) /\ SavedUpTo(printed, g, out)
        /\ IF g = 0 THEN current = Transceiver!Nil
           ELSE current \in MixedEntry(g, m) /\ scratch \in MixedScratch(g, m)
  BY DEF OpticReady, Loose
<1>2. m # 0 /\ ~printed[m].breakout => current = Bare(m, printed[m]) /\ scratch = DomAfter(m, Lanes(printed[m]))
  BY DEF OpticReady
<1>3. CASE g = 0
  <2>1. out' = out
    BY <1>1, <1>3 DEF Transceiver!SaveWithDom
  <2>2. QED BY <1>1, <1>3, <2>1, NothingSaved
<1>4. CASE g # 0
  <2>1. m \in 1..Len(printed) /\ g \in 1..m /\ m # 0
    BY <1>4
  <2>2. out' = Append(out, Transceiver!WithDom)
    BY <1>1, <1>4, MixedNotNil DEF Transceiver!SaveWithDom
  <2>3. KeptEntry(printed, g, Transceiver!WithDom)
    BY <1>1, <1>2, <1>4, <2>1, EntryKept
  <2>4. QED BY <1>1, <2>1, <2>2, <2>3, SavedGrows
<1>5. QED BY <1>3, <1>4

-----------------------------------------------------------------------------
(* TransceiverText: the lines of an interface.                             *)

\* The name of an interface.
LEMMA InterfaceRead ==
  ASSUME printed \in Seq(Transceiver!Interface), NEW i \in 1..Len(printed), ~printed[i].breakout,
         OpticReady(printed, i - 1, current, scratch, out),
         text # <<>>, Head(text) = NameLine(i, printed[i]), Transceiver!Next
  PROVE  Loose(printed, i, current', scratch', out') /\ InHead(i, printed[i], 2, current', scratch')
<1> DEFINE n == <<i>>
           z == <<>>
           V == Vals(i, i)
           r == printed[i]
<1>1. Head(text).kind = "interface" /\ Head(text).val = n
  BY DEF NameLine, Transceiver!Row
<1>2. Transceiver!Name
  BY <1>1, OpticKinds
<1>3. SavedUpTo(printed, i, out')
  <2>1. i - 1 \in 0..Len(printed) /\ (i - 1) + 1 = i
    OBVIOUS
  <2>2. Transceiver!SaveWithDom
    BY <1>2 DEF Transceiver!Name
  <2>3. SavedUpTo(printed, (i - 1) + 1, out')
    BY <2>1, <2>2, OpticSaved
  <2>4. QED BY <2>1, <2>3
<1>4. current' = Undiagnosed(n, FALSE, z, z, z, FALSE)
  BY <1>1, <1>2 DEF Transceiver!Name, Transceiver!Line, Transceiver!NewEntry, Transceiver!Empty, Undiagnosed
<1>5. scratch' = [inDom |-> FALSE, dom |-> z]
  BY <1>2 DEF Transceiver!Name, Transceiver!NoDom
<1>6. Loose(printed, i, current', scratch', out')
  <2>1. i \in 0..i /\ i # 0
    OBVIOUS
  <2>2. Holder(printed, i, i)
    <3>1. \A m \in (i + 1)..i : FALSE
      OBVIOUS
    <3>2. QED BY <2>1, <3>1 DEF Holder
  <2>3. z \in V
    BY ValuesAreTyped
  <2>4. current' \in MixedEntry(i, i)
    <3> HIDE DEF V
    <3>1. current' = [name |-> n, present |-> FALSE, detail |-> z, length |-> z, cable |-> z,
                      domSupported |-> FALSE, dom |-> z, laneNumber |-> 0]
      BY <1>4 DEF Undiagnosed
    <3>2. MixedEntry(i, i) = [name : {n}, present : BOOLEAN, detail : V, length : V, cable : V,
                              domSupported : BOOLEAN, dom : {z}, laneNumber : {0}]
      BY DEF MixedEntry, V
    <3> HIDE DEF n, z
    <3>3. QED BY <2>3, <3>1, <3>2
  <2>5. scratch' \in MixedScratch(i, i)
    <3>1. z \in Seq(V)
      <4> HIDE DEF V
      <4>1. QED OBVIOUS
    <3>2. QED BY <1>5, <3>1 DEF MixedScratch
  <2>6. QED BY <1>3, <2>1, <2>2, <2>4, <2>5 DEF Loose
<1>7. InHead(i, r, 2, current', scratch')
  <2>1. DetailAt(i, 2) = z /\ LengthAt(i, r, 2) = z /\ PresentAt(r, 2) = FALSE
    BY DEF DetailAt, LengthAt, PresentAt
  <2>2. CableAt(i, r, 2) = z
    <3>1. Len(Lengths(r)) \in Nat
      <4>1. r \in Transceiver!Interface
        OBVIOUS
      <4>2. QED BY <4>1, InterfaceTyped
    <3>2. ~(2 > 4 + Len(Lengths(r)))
      BY <3>1
    <3>3. QED BY <3>2 DEF CableAt
  <2>3. HeadEntry(i, r, 2, FALSE) = Undiagnosed(n, FALSE, z, z, z, FALSE)
    BY <2>1, <2>2 DEF HeadEntry
  <2>4. DomAfter(i, 0) = [inDom |-> FALSE, dom |-> z]
    BY DEF DomAfter, LaneRead
  <2>5. QED BY <1>4, <1>5, <2>3, <2>4 DEF InHead
<1>8. QED BY <1>6, <1>7

\* The name of a breakout port.
LEMMA BreakoutRead ==
  ASSUME printed \in Seq(Transceiver!Interface), NEW i \in 1..Len(printed), printed[i].breakout,
         OpticReady(printed, i - 1, current, scratch, out),
         text # <<>>, Head(text) = NameLine(i, printed[i]), Transceiver!Next
  PROVE  Loose(printed, i, current', scratch', out')
<1>1. Head(text).kind = "breakout"
  BY DEF NameLine, Transceiver!Row
<1>2. current' = current /\ scratch' = scratch /\ out' = out
  BY <1>1, OpticKinds
<1>3. Loose(printed, i - 1, current, scratch, out)
  BY DEF OpticReady
<1>4. Loose(printed, i, current, scratch, out)
  BY <1>3, LooseGrows
<1>5. QED BY <1>2, <1>4

\* What line h of the head adds to the entry.
LEMMA HeadNext ==
  ASSUME NEW i \in Nat, NEW r \in Transceiver!Interface, NEW h \in 2..HeadSize(r)
  PROVE  LET n == Len(Lengths(r))
         IN  /\ PresentAt(r, h + 1) = IF h = 2 THEN r.module # Transceiver!Nil ELSE PresentAt(r, h)
             /\ DetailAt(i, h + 1) = IF h = 3 THEN <<i>> ELSE DetailAt(i, h)
             /\ LengthAt(i, r, h + 1) = IF h \in 4..(3 + n) THEN <<i, Lengths(r)[h - 3]>> ELSE LengthAt(i, r, h)
             /\ CableAt(i, r, h + 1) = IF h = 4 + n /\ HasCable(r) THEN <<i>> ELSE CableAt(i, r, h)
<1> DEFINE n == Len(Lengths(r))
           L == Lengths(r)
<1>1. n \in Nat /\ HeadSize(r) \in Nat /\ h \in Nat /\ h > 1
  BY InterfaceTyped
<1> HIDE DEF n, L
<1>2. PresentAt(r, h + 1) = IF h = 2 THEN r.module # Transceiver!Nil ELSE PresentAt(r, h)
  <2>1. (h + 1 > 2) /\ (h > 2 \/ h = 2) /\ ~(h > 2 /\ h = 2)
    BY <1>1
  <2>2. QED BY <2>1 DEF PresentAt
<1>3. DetailAt(i, h + 1) = IF h = 3 THEN <<i>> ELSE DetailAt(i, h)
  <2>1. h + 1 > 3 <=> h > 3 \/ h = 3
    BY <1>1
  <2>2. h > 3 => h # 3
    BY <1>1
  <2>3. QED BY <2>1, <2>2 DEF DetailAt
<1>4. \A x \in Nat : LengthAt(i, r, x) = IF x > 4 /\ n > 0 THEN <<i, L[IF x > 3 + n THEN n ELSE x - 4]>> ELSE <<>>
  BY DEF LengthAt, n, L
<1>5. LengthAt(i, r, h + 1) = IF h \in 4..(3 + n) THEN <<i, L[h - 3]>> ELSE LengthAt(i, r, h)
  <2>1. h + 1 \in Nat
    BY <1>1
  <2>2. CASE h \in 4..(3 + n)
    <3>1. h + 1 > 4 /\ n > 0 /\ (IF h + 1 > 3 + n THEN n ELSE (h + 1) - 4) = h - 3
      BY <1>1, <2>2
    <3>2. QED BY <1>4, <2>1, <2>2, <3>1
  <2>3. CASE h < 4
    <3>1. ~(h + 1 > 4) /\ ~(h > 4) /\ h \notin 4..(3 + n)
      BY <1>1, <2>3
    <3>2. QED BY <1>1, <1>4, <2>1, <3>1
  <2>4. CASE h > 3 + n
    <3>1. /\ h \notin 4..(3 + n) /\ (n > 0 => h + 1 > 4 /\ h > 4)
          /\ h + 1 > 3 + n
      BY <1>1, <2>4
    <3>2. CASE n > 0
      BY <1>1, <1>4, <2>1, <2>4, <3>1, <3>2
    <3>3. CASE ~(n > 0)
      BY <1>1, <1>4, <2>1, <3>1, <3>3
    <3>4. QED BY <3>2, <3>3
  <2>5. QED BY <1>1, <2>2, <2>3, <2>4
<1>6. CableAt(i, r, h + 1) = IF h = 4 + n /\ HasCable(r) THEN <<i>> ELSE CableAt(i, r, h)
  <2>1. h + 1 > 4 + n <=> h > 4 + n \/ h = 4 + n
    BY <1>1
  <2>2. h > 4 + n => h # 4 + n
    BY <1>1
  <2>3. \A x \in Nat : CableAt(i, r, x) = IF x > 4 + n /\ HasCable(r) THEN <<i>> ELSE <<>>
    BY DEF CableAt, n
  <2>4. h + 1 \in Nat
    BY <1>1
  <2>5. QED BY <1>1, <2>1, <2>2, <2>3, <2>4
<1>7. QED BY <1>2, <1>3, <1>5, <1>6 DEF n, L

\* The other lines of the head.
LEMMA HeadBelow ==
  ASSUME NEW i \in Nat, NEW r \in Transceiver!Interface, NEW h \in 2..HeadSize(r)
  PROVE  Below(i, HeadLine(i, r, h))
<1> DEFINE l == HeadLine(i, r, h)
           n == Len(Lengths(r))
           V == Vals(i, i)
<1>1. n \in Nat /\ HeadSize(r) \in Nat /\ h \in Nat /\ h # 1 /\ Lengths(r) \in Seq(1..4) /\ n = Len(Lengths(r))
  BY InterfaceTyped
<1>2. <<i>> \in V
  <2>1. <<i>> \in Val
    BY SmallValues
  <2>2. <<i>>[1] = i /\ i \in i..i
    OBVIOUS
  <2>3. QED BY <2>1, <2>2 DEF Vals
<1>3. ASSUME NEW x \in Nat PROVE <<i, x>> \in V
  <2>1. <<i, x>> \in Val
    BY SmallValues
  <2>2. <<i, x>>[1] = i /\ i \in i..i
    OBVIOUS
  <2>3. QED BY <2>1, <2>2 DEF Vals
<1>4. CASE h = 2
  <2>1. l.kind = "presence" /\ l.val = (r.module # Transceiver!Nil)
    BY <1>4 DEF HeadLine, PresenceLine, Transceiver!Row
  <2>2. l.val \in BOOLEAN
    BY <2>1
  <2>3. QED BY <2>1, <2>2 DEF Below
<1>5. CASE h = 3
  <2>1. l.kind = "detail" /\ l.val = <<i>>
    BY <1>5 DEF HeadLine, Transceiver!Row
  <2>2. QED BY <1>2, <2>1 DEF Below
<1>6. CASE h > 3 /\ h <= 3 + n
  <2>1. l.kind = "length" /\ l.val = <<i, Lengths(r)[h - 3]>>
    BY <1>1, <1>6 DEF HeadLine, Transceiver!Row
  <2>2. Lengths(r)[h - 3] \in Nat
    <3>1. h - 3 \in 1..n
      BY <1>1, <1>6
    <3> HIDE DEF n
    <3>2. QED BY <1>1, <3>1
  <2>3. l.val \in V
    BY <1>3, <2>1, <2>2
  <2>4. QED BY <2>1, <2>3 DEF Below
<1>7. CASE h > 3 /\ ~(h <= 3 + n)
  <2>1. l = Transceiver!Row("cable", <<i>>) \/ l = Transceiver!Row("noDom", <<>>)
    BY <1>1, <1>7 DEF HeadLine
  <2> HIDE DEF l
  <2>2. (l.kind = "cable" /\ l.val = <<i>>) \/ l.kind = "noDom"
    BY <2>1 DEF Transceiver!Row
  <2>3. QED BY <1>2, <2>2 DEF Below, l
<1>8. QED BY <1>1, <1>4, <1>5, <1>6, <1>7

LEMMA HeadRead ==
  ASSUME NEW i \in Nat, NEW r \in Transceiver!Interface, NEW h \in 2..HeadSize(r),
         InHead(i, r, h, current, scratch),
         text # <<>>, Head(text) = HeadLine(i, r, h), Transceiver!Next
  PROVE  InHead(i, r, h + 1, current', scratch')
<1> DEFINE k == Head(text).kind
           v == Head(text).val
           N == Len(Lengths(r))
           n == <<i>>
           p == PresentAt(r, h)
           d == DetailAt(i, h)
           l == LengthAt(i, r, h)
           c == CableAt(i, r, h)
           P == PresentAt(r, h + 1)
           D == DetailAt(i, h + 1)
           L == LengthAt(i, r, h + 1)
           C == CableAt(i, r, h + 1)
           m == r.module # Transceiver!Nil
           w == <<i, Lengths(r)[h - 3]>>
           q == FALSE
<1>1. N \in Nat /\ HeadSize(r) \in Nat /\ h \in Nat /\ h > 1
  BY InterfaceTyped
<1>2. /\ P = IF h = 2 THEN m ELSE p
      /\ D = IF h = 3 THEN n ELSE d
      /\ L = IF h \in 4..(3 + N) THEN w ELSE l
      /\ C = IF h = 4 + N /\ HasCable(r) THEN n ELSE c
  BY HeadNext
<1>3. current = Undiagnosed(n, p, d, l, c, q) /\ scratch = DomAfter(i, 0)
  BY DEF InHead, HeadEntry
<1>4. ASSUME current' = Undiagnosed(n, P, D, L, C, q), scratch' = scratch
      PROVE  InHead(i, r, h + 1, current', scratch')
  BY <1>3, <1>4 DEF InHead, HeadEntry
<1> HIDE DEF p, d, l, c, P, D, L, C, n, w, m, q
<1>5. current # Transceiver!Nil
  BY <1>3, UndiagnosedNotNil
<1>6. CASE h = 2
  <2>1. k = "presence" /\ v = m
    BY <1>6 DEF HeadLine, PresenceLine, Transceiver!Row, m
  <2>2. current' = [current EXCEPT !.present = m] /\ scratch' = scratch
    BY <1>5, <2>1, OpticKinds DEF Transceiver!Presence, Transceiver!Line
  <2>3. current' = Undiagnosed(n, m, d, l, c, q)
    <3>1. [Undiagnosed(n, p, d, l, c, q) EXCEPT !.present = m] = Undiagnosed(n, m, d, l, c, q)
      BY UndiagnosedWith
    <3>2. QED BY <1>3, <2>2, <3>1
  <2>4. P = m /\ D = d /\ L = l /\ C = c
    BY <1>1, <1>2, <1>6
  <2>5. QED BY <1>4, <2>2, <2>3, <2>4
<1>7. CASE h = 3
  <2>1. k = "detail" /\ v = n
    BY <1>7 DEF HeadLine, Transceiver!Row, n
  <2>2. current' = [current EXCEPT !["detail"] = n] /\ scratch' = scratch
    BY <1>5, <2>1, OpticKinds DEF Transceiver!Detail, Transceiver!Line
  <2>3. current' = Undiagnosed(n, p, n, l, c, q)
    <3>1. [Undiagnosed(n, p, d, l, c, q) EXCEPT !["detail"] = n] = Undiagnosed(n, p, n, l, c, q)
      BY DEF Undiagnosed
    <3>2. QED BY <1>3, <2>2, <3>1
  <2>4. P = p /\ D = n /\ L = l /\ C = c
    BY <1>1, <1>2, <1>7
  <2>5. QED BY <1>4, <2>2, <2>3, <2>4
<1>8. CASE h > 3 /\ h <= 3 + N
  <2>1. k = "length" /\ v = w
    BY <1>1, <1>8 DEF HeadLine, Transceiver!Row, w
  <2>2. current' = [current EXCEPT !["length"] = w] /\ scratch' = scratch
    BY <1>5, <2>1, OpticKinds DEF Transceiver!Detail, Transceiver!Line
  <2>3. current' = Undiagnosed(n, p, d, w, c, q)
    <3>1. [Undiagnosed(n, p, d, l, c, q) EXCEPT !["length"] = w] = Undiagnosed(n, p, d, w, c, q)
      BY DEF Undiagnosed
    <3>2. QED BY <1>3, <2>2, <3>1
  <2>4. P = p /\ D = d /\ L = w /\ C = c
    BY <1>1, <1>2, <1>8
  <2>5. QED BY <1>4, <2>2, <2>3, <2>4
<1>9. CASE h = 4 + N /\ HasCable(r)
  <2>1. k = "cable" /\ v = n
    BY <1>1, <1>9 DEF HeadLine, Transceiver!Row, n
  <2>2. current' = [current EXCEPT !["cable"] = n] /\ scratch' = scratch
    BY <1>5, <2>1, OpticKinds DEF Transceiver!Detail, Transceiver!Line
  <2>3. current' = Undiagnosed(n, p, d, l, n, q)
    <3>1. [Undiagnosed(n, p, d, l, c, q) EXCEPT !["cable"] = n] = Undiagnosed(n, p, d, l, n, q)
      BY DEF Undiagnosed
    <3>2. QED BY <1>3, <2>2, <3>1
  <2>4. P = p /\ D = d /\ L = l /\ C = n
    BY <1>1, <1>2, <1>9
  <2>5. QED BY <1>4, <2>2, <2>3, <2>4
<1>10. CASE h > 3 + N /\ ~(h = 4 + N /\ HasCable(r)) /\ h > 3
  <2>1. k = "noDom"
    BY <1>1, <1>10 DEF HeadLine, Transceiver!Row
  <2>2. current' = [current EXCEPT !.domSupported = q] /\ scratch' = scratch
    BY <1>5, <2>1, OpticKinds DEF Transceiver!NotSupported, q
  <2>3. current' = Undiagnosed(n, p, d, l, c, q)
    <3>1. [Undiagnosed(n, p, d, l, c, q) EXCEPT !.domSupported = q] = Undiagnosed(n, p, d, l, c, q)
      BY DEF Undiagnosed
    <3>2. QED BY <1>3, <2>2, <3>1
  <2>4. P = p /\ D = d /\ L = l /\ C = c
    BY <1>1, <1>2, <1>10
  <2>5. QED BY <1>4, <2>2, <2>3, <2>4
<1>11. QED BY <1>1, <1>6, <1>7, <1>8, <1>9, <1>10

\* What is printed of a lane belongs to its interface.
LEMMA LaneBelow ==
  ASSUME NEW i \in Nat, NEW l \in Nat, NEW h \in 1..3
  PROVE  Below(i, LaneLines(i, l)[h]) /\ Below(i, Transceiver!Row("blank", <<>>))
<1> DEFINE v == <<i, l>>
<1>1. v \in Vals(i, i)
  <2>1. v \in Val
    BY SmallValues
  <2>2. v[1] = i /\ i \in i..i
    OBVIOUS
  <2>3. QED BY <2>1, <2>2 DEF Vals
<1> HIDE DEF v
<1>2. Below(i, Transceiver!Row("blank", <<>>)) /\ Below(i, Transceiver!Row("domHeader", <<>>))
  BY DEF Below, Transceiver!Row
<1>3. Below(i, Transceiver!Row("dom", v))
  BY <1>1 DEF Below, Transceiver!Row
<1>4. LaneLines(i, l)[h] = Transceiver!Row("domHeader", <<>>) \/ LaneLines(i, l)[h] = Transceiver!Row("dom", v)
  <2>1. h = 1 \/ h = 2 \/ h = 3
    OBVIOUS
  <2>2. QED BY <2>1, LaneLinesAre DEF v
<1>5. QED BY <1>2, <1>3, <1>4

LEMMA LaneRows ==
  ASSUME NEW i \in Nat, NEW r \in Transceiver!Interface, NEW l \in 1..Lanes(r)
  PROVE  OpticBlocks(i, r)[l + 1] = LaneLines(i, l) /\ l \in Nat /\ l # 0
<1> DEFINE h == OpticHead(i, r)
           f == LaneBlocks(i, r)
           w == <<Transceiver!Row("blank", <<>>)>>
<1>1. f \in Seq(Seq(OpticLine)) /\ Len(f) = Lanes(r) /\ \A j \in 1..Lanes(r) : f[j] = LaneLines(i, j)
  BY LanesTyped
<1>2. h \in Seq(OpticLine) /\ w \in Seq(OpticLine)
  BY OpticHeadLines, BlankTyped
<1>3. OpticBlocks(i, r) = Framed(h, f, w)
  BY DEF OpticBlocks
<1> HIDE DEF h, f, w
<1>4. \A j \in 1..Len(f) : Framed(h, f, w)[j + 1] = f[j]
  BY <1>1, <1>2, FramedBlocks
<1>5. Lanes(r) \in Nat
  BY InterfaceTyped
<1>6. l \in Nat /\ l # 0
  BY <1>5
<1>7. QED BY <1>1, <1>3, <1>4, <1>6

\* The lines of a lane.
LEMMA LaneStep ==
  ASSUME NEW i \in Nat, NEW r \in Transceiver!Interface, NEW l \in 1..Lanes(r), NEW h \in 1..3,
         InLane(i, r, l + 1, h, current, scratch),
         text # <<>>, Head(text) = LaneLines(i, l)[h], Transceiver!Next
  PROVE  /\ h < 3 => InLane(i, r, l + 1, h + 1, current', scratch')
         /\ h = 3 => InLane(i, r, (l + 1) + 1, 1, current', scratch')
<1> DEFINE v == <<i, l>>
           k == l + 1
           m == HeadSize(r) + 1
           E(q) == HeadEntry(i, r, m, q)
           T(h1) == IF k > 2 \/ h1 > 1 THEN TRUE ELSE FALSE
<1>1. l \in Nat /\ l > 0 /\ l # 0
  <2>1. Lanes(r) \in Nat
    BY InterfaceTyped
  <2>2. QED BY <2>1
<1>2. LaneLines(i, l)[1] = Transceiver!Row("domHeader", <<>>) /\ LaneLines(i, l)[2] = Transceiver!Row("dom", v)
      /\ LaneLines(i, l)[3] = Transceiver!Row("dom", v)
  BY <1>1, LaneLinesAre
<1>3. k > 1 /\ k + 1 > 2 /\ k - 1 = l /\ (k + 1) - 2 = l
  BY <1>1
<1> HIDE DEF k, m
<1>4. /\ scratch = IF h = 1 THEN DomAfter(i, k - 2)
                   ELSE [inDom |-> TRUE, dom |-> IF h = 2 THEN <<>> ELSE <<<<i, k - 1>>>>]
      /\ current = HeadEntry(i, r, m, IF k > 2 \/ h > 1 THEN TRUE ELSE FALSE)
  BY DEF InLane, k, m
<1>5. \A q : E(q) = Undiagnosed(<<i>>, PresentAt(r, m), DetailAt(i, m), LengthAt(i, r, m), CableAt(i, r, m), q)
  BY DEF HeadEntry
<1>6. current # Transceiver!Nil
  BY <1>4, UndiagnosedNotNil DEF HeadEntry
<1>7. ASSUME NEW c, NEW s, NEW g \in {2, 3}, c = HeadEntry(i, r, m, TRUE),
             s = [inDom |-> TRUE, dom |-> IF g = 2 THEN <<>> ELSE <<v>>]
      PROVE  InLane(i, r, k, g, c, s)
  <2>1. g > 1 /\ g # 1
    OBVIOUS
  <2>2. QED BY <1>3, <1>7, <2>1 DEF InLane, m
<1>8. CASE h = 1
  <2>1. Head(text).kind = "domHeader"
    BY <1>2, <1>8 DEF Transceiver!Row
  <2>2. Transceiver!DomHeader
    BY <1>6, <2>1, OpticKinds
  <2>3. /\ current' = [current EXCEPT !.domSupported = TRUE]
        /\ scratch' = [inDom |-> TRUE, dom |-> <<>>]
    BY <2>2 DEF Transceiver!DomHeader
  <2>4. current' = HeadEntry(i, r, m, TRUE)
    <3> DEFINE n == <<i>>
               p == PresentAt(r, m)
               d == DetailAt(i, m)
               e == LengthAt(i, r, m)
               c == CableAt(i, r, m)
               q == IF k > 2 \/ h > 1 THEN TRUE ELSE FALSE
               y == TRUE
    <3>1. current = Undiagnosed(n, p, d, e, c, q) /\ HeadEntry(i, r, m, y) = Undiagnosed(n, p, d, e, c, y)
      BY <1>4 DEF HeadEntry
    <3>2. current' = [current EXCEPT !.domSupported = y]
      BY <2>3
    <3> HIDE DEF n, p, d, e, c, q, y
    <3>3. [Undiagnosed(n, p, d, e, c, q) EXCEPT !.domSupported = y] = Undiagnosed(n, p, d, e, c, y)
      BY DEF Undiagnosed
    <3>4. current' = HeadEntry(i, r, m, y)
      BY <3>1, <3>2, <3>3
    <3>5. QED BY <3>4 DEF y
  <2>5. scratch' = [inDom |-> TRUE, dom |-> IF 2 = 2 THEN <<>> ELSE <<v>>]
    BY <2>3
  <2>6. InLane(i, r, k, 2, current', scratch')
    BY <1>7, <2>4, <2>5
  <2>7. h + 1 = 2 /\ h # 3
    BY <1>8
  <2>8. QED BY <2>6, <2>7 DEF k
<1>9. CASE h = 2 \/ h = 3
  <2>1. Head(text).kind = "dom" /\ Head(text).val = v
    BY <1>2, <1>9 DEF Transceiver!Row
  <2>2. Transceiver!Dom
    BY <1>6, <2>1, OpticKinds
  <2>3. current' = current /\ scratch' = [scratch EXCEPT !.dom = Append(@, v)]
    BY <2>1, <2>2 DEF Transceiver!Dom, Transceiver!Line
  <2>4. current' = HeadEntry(i, r, m, TRUE)
    <3>1. (IF k > 2 \/ h > 1 THEN TRUE ELSE FALSE) = TRUE
      BY <1>9
    <3>2. QED BY <1>4, <2>3, <3>1
  <2>5. CASE h = 2
    <3> DEFINE d == <<>>
               w == Append(d, v)
    <3>1. w = <<v>>
      OBVIOUS
    <3>2. h # 1
      BY <2>5
    <3> HIDE DEF v, d, w
    <3>3. scratch = [inDom |-> TRUE, dom |-> d]
      BY <1>4, <2>5, <3>2 DEF d
    <3>4. scratch' = [inDom |-> TRUE, dom |-> w]
      <4>1. scratch.dom = d
        BY <3>3
      <4>2. scratch' = [scratch EXCEPT !.dom = w]
        BY <2>3, <4>1 DEF w
      <4>3. QED BY <3>3, <4>2
    <3>5. scratch' = [inDom |-> TRUE, dom |-> IF 3 = 2 THEN <<>> ELSE <<v>>]
      <4>1. 3 # 2
        OBVIOUS
      <4>2. QED BY <3>1, <3>4, <4>1
    <3>6. InLane(i, r, k, 3, current', scratch')
      BY <1>7, <2>4, <3>5 DEF v
    <3>7. h + 1 = 3 /\ h # 3
      BY <2>5
    <3>8. QED BY <3>6, <3>7 DEF k
  <2>6. CASE h = 3
    <3> DEFINE d == <<v>>
               w == Append(d, v)
    <3>1. LaneRead(i, l) = <<v, v>> /\ (l # 0) = TRUE
      BY <1>1 DEF LaneRead
    <3>2. <<i, k - 1>> = v /\ h # 1 /\ h # 2
      BY <1>3, <2>6
    <3> HIDE DEF v
    <3>3. w = <<v, v>>
      <4>1. <<v>> \in Seq({v}) /\ Len(<<v>>) = 1 /\ <<v>>[1] = v
        OBVIOUS
      <4>2. w \in Seq({v}) /\ Len(w) = 2 /\ w[1] = v /\ w[2] = v
        BY <4>1
      <4>3. <<v, v>> \in Seq({v}) /\ Len(<<v, v>>) = 2 /\ <<v, v>>[1] = v /\ <<v, v>>[2] = v
        OBVIOUS
      <4>4. 1..2 = {1, 2}
        OBVIOUS
      <4> HIDE DEF w
      <4>5. QED BY <4>2, <4>3, <4>4, SameElements
    <3> HIDE DEF d, w
    <3>4. scratch = [inDom |-> TRUE, dom |-> d]
      BY <1>4, <2>6, <3>2 DEF d
    <3>5. scratch' = [inDom |-> TRUE, dom |-> w]
      <4>1. scratch.dom = d
        BY <3>4
      <4>2. scratch' = [scratch EXCEPT !.dom = w]
        BY <2>3, <4>1 DEF w
      <4>3. QED BY <3>4, <4>2
    <3>6. scratch' = DomAfter(i, l)
      BY <3>1, <3>3, <3>5 DEF DomAfter
    <3>7. InLane(i, r, k + 1, 1, current', scratch')
      BY <1>3, <2>4, <3>6 DEF InLane, m
    <3>8. ~(h < 3)
      BY <2>6
    <3>9. QED BY <3>7, <3>8 DEF k
  <2>7. QED BY <1>9, <2>5, <2>6
<1>10. h = 1 \/ h = 2 \/ h = 3
  OBVIOUS
<1>11. QED BY <1>8, <1>9, <1>10

\* The empty line.
LEMMA OpticBlankRead ==
  ASSUME NEW i \in Nat, NEW r \in Transceiver!Interface, InLane(i, r, Lanes(r) + 2, 1, current, scratch),
         text # <<>>, Head(text) = Transceiver!Row("blank", <<>>), Transceiver!Next
  PROVE  current' = Bare(i, r) /\ scratch' = DomAfter(i, Lanes(r))
<1> DEFINE m == Lanes(r)
           g == HeadSize(r) + 1
<1>1. Head(text).kind = "blank"
  BY DEF Transceiver!Row
<1>2. current' = current /\ scratch' = scratch
  BY <1>1, OpticKinds
<1>3. m \in Nat
  BY InterfaceTyped
<1>4. /\ current = HeadEntry(i, r, g, IF m + 2 > 2 \/ 1 > 1 THEN TRUE ELSE FALSE)
      /\ scratch = DomAfter(i, (m + 2) - 2)
  BY DEF InLane
<1> HIDE DEF m, g
<1>5. (m + 2 > 2 \/ 1 > 1 <=> m # 0) /\ (m + 2) - 2 = m
  BY <1>3
<1>6. (IF m + 2 > 2 \/ 1 > 1 THEN TRUE ELSE FALSE) = (m # 0)
  BY <1>5
<1>7. QED BY <1>2, <1>4, <1>5, <1>6 DEF Bare, m, g

\* The head is read.
LEMMA OpticHeadStep ==
  ASSUME printed \in Seq(Transceiver!Interface), NEW i \in 1..Len(printed), NEW h \in 1..HeadSize(printed[i]),
         OpticHeld(printed, i, 1, h, current, scratch, out),
         text # <<>>, Head(text) = HeadLine(i, printed[i], h), Transceiver!Next
  PROVE  /\ h < HeadSize(printed[i]) => OpticHeld(printed, i, 1, h + 1, current', scratch', out')
         /\ h = HeadSize(printed[i]) => OpticHeld(printed, i, 2, 1, current', scratch', out')
<1> DEFINE r == printed[i]
           n == HeadSize(r)
<1>1. r \in Transceiver!Interface /\ i \in Nat
  OBVIOUS
<1>2. n \in Nat /\ n > 1 /\ h \in Nat /\ h \in 1..n /\ r.breakout \in BOOLEAN
  <2>1. n \in Nat /\ n > 1 /\ r.breakout \in BOOLEAN
    BY <1>1, InterfaceTyped
  <2>2. QED BY <2>1
<1>3. ASSUME Loose(printed, i, current', scratch', out'),
             ~r.breakout => InHead(i, r, h + 1, current', scratch')
      PROVE  /\ h < n => OpticHeld(printed, i, 1, h + 1, current', scratch', out')
             /\ h = n => OpticHeld(printed, i, 2, 1, current', scratch', out')
  <2>1. h + 1 # 1 /\ ~(2 = 1) /\ ~(2 > 2 \/ 1 > 1) /\ 2 - 2 = 0
    BY <1>2
  <2>2. h = n /\ InHead(i, r, h + 1, current', scratch') => InLane(i, r, 2, 1, current', scratch')
    BY <2>1 DEF InHead, InLane
  <2>3. QED BY <1>3, <2>1, <2>2 DEF OpticHeld
<1> SUFFICES /\ h < n => OpticHeld(printed, i, 1, h + 1, current', scratch', out')
             /\ h = n => OpticHeld(printed, i, 2, 1, current', scratch', out')
  OBVIOUS
<1> HIDE DEF n
<1>4. CASE h = 1
  <2>1. OpticReady(printed, i - 1, current, scratch, out) /\ Head(text) = NameLine(i, r)
    BY <1>4 DEF OpticHeld, HeadLine
  <2>2. CASE r.breakout
    BY <1>3, <2>1, <2>2, BreakoutRead
  <2>3. CASE ~r.breakout
    <3>1. Loose(printed, i, current', scratch', out') /\ InHead(i, r, 2, current', scratch')
      BY <2>1, <2>3, InterfaceRead
    <3>2. h + 1 = 2
      BY <1>4
    <3>3. QED BY <1>3, <3>1, <3>2
  <2>4. QED BY <2>2, <2>3
<1>5. CASE h # 1
  <2>1. Loose(printed, i, current, scratch, out) /\ (~r.breakout => InHead(i, r, h, current, scratch))
    BY <1>5 DEF OpticHeld
  <2>2. h \in 2..HeadSize(r)
    BY <1>2, <1>5 DEF n
  <2>3. Loose(printed, i, current', scratch', out')
    <3>1. Below(i, Head(text))
      BY <1>1, <2>2, HeadBelow
    <3>2. QED BY <2>1, <3>1, LooseLine
  <2>4. ~r.breakout => InHead(i, r, h + 1, current', scratch')
    BY <1>1, <2>1, <2>2, HeadRead
  <2>5. QED BY <1>3, <2>3, <2>4
<1>6. QED BY <1>3, <1>4, <1>5 DEF n

LEMMA OpticLineStep ==
  ASSUME printed \in Seq(Transceiver!Interface), NEW i \in Nat, NEW k \in Nat, NEW h \in Nat,
         OpticAt(printed, i, k, h, text, current, scratch, out), Transceiver!Next
  PROVE  OpticHolds(printed, text, current, scratch, out)'
<1> DEFINE r == printed[i]
           b == OpticBlocks(i, r)
           m == Lanes(r)
           x == Len(b[k])
<1>1. /\ i \in 1..Len(printed) /\ k \in 1..(m + 2) /\ h \in 1..x
      /\ text = LeftBefore(b, k, h, From(OpticTexts(printed), i + 1))
      /\ OpticHeld(printed, i, k, h, current, scratch, out)
  BY DEF OpticAt
<1>2. r \in Transceiver!Interface
  BY <1>1
<1>3. m \in Nat /\ i # 0
  <2>1. m \in Nat
    BY <1>2, InterfaceTyped
  <2>2. i # 0
    <3>1. i \in 1..Len(printed)
      BY <1>1
    <3> HIDE DEF r, m, b, x
    <3>2. QED BY <3>1
  <2>3. QED BY <2>1, <2>2
<1>4. /\ Len(b[1]) = HeadSize(r) /\ \A y \in 1..HeadSize(r) : b[1][y] = HeadLine(i, r, y)
      /\ Len(b[m + 2]) = 1 /\ b[m + 2][1] = Transceiver!Row("blank", <<>>)
      /\ \A l \in 1..m : Len(b[l + 1]) = 3
  BY <1>2, OpticLines
<1>5. text # <<>> /\ Head(text) = b[k][h] /\ text' = Tail(text) /\ printed' = printed
  <2>1. text # <<>> /\ Head(text) = b[k][h]
    BY <1>1, OpticTextRead
  <2>2. QED BY <2>1, OpticKinds
<1>6. ASSUME h < x => OpticHeld(printed, i, k, h + 1, current', scratch', out'),
             h = x /\ k # m + 2 => OpticHeld(printed, i, k + 1, 1, current', scratch', out'),
             h = x /\ k = m + 2 => OpticReady(printed, i, current', scratch', out')
      PROVE  OpticHolds(printed, text, current, scratch, out)'
  <2>1. OpticHolds(printed, Tail(text), current', scratch', out')
    BY <1>1, <1>6, OpticReached
  <2>2. QED BY <1>5, <2>1
<1>7. CASE k = 1
  <2>1. x = HeadSize(r) /\ k # m + 2 /\ k + 1 = 2
    BY <1>3, <1>4, <1>7
  <2>2. Head(text) = HeadLine(i, printed[i], h) /\ OpticHeld(printed, i, 1, h, current, scratch, out)
        /\ h \in 1..HeadSize(printed[i])
    BY <1>1, <1>4, <1>5, <1>7, <2>1
  <2>3. /\ h < HeadSize(r) => OpticHeld(printed, i, 1, h + 1, current', scratch', out')
        /\ h = HeadSize(r) => OpticHeld(printed, i, 2, 1, current', scratch', out')
    BY <1>1, <1>5, <2>2, OpticHeadStep
  <2> HIDE DEF x, m
  <2>4. QED BY <1>6, <1>7, <2>1, <2>3
<1>8. ASSUME k # 1
      PROVE  Loose(printed, i, current, scratch, out) /\ (~r.breakout => InLane(i, r, k, h, current, scratch))
  BY <1>1, <1>8 DEF OpticHeld
<1>9. CASE k = m + 2
  <2>1. x = 1 /\ k # 1
    BY <1>3, <1>4, <1>9
  <2>2. h = 1 /\ ~(h < x)
    BY <1>1, <2>1
  <2>3. Head(text) = Transceiver!Row("blank", <<>>)
    BY <1>4, <1>5, <1>9, <2>2
  <2>4. Loose(printed, i, current', scratch', out')
    <3>1. Below(i, Transceiver!Row("blank", <<>>))
      BY DEF Below, Transceiver!Row
    <3>2. QED BY <1>1, <1>5, <1>8, <2>1, <2>3, <3>1, LooseLine
  <2>5. ~r.breakout => current' = Bare(i, r) /\ scratch' = DomAfter(i, Lanes(r))
    <3>1. ~r.breakout => InLane(i, r, Lanes(r) + 2, 1, current, scratch)
      BY <1>8, <1>9, <2>1, <2>2
    <3>2. QED BY <1>2, <1>5, <2>3, <3>1, OpticBlankRead
  <2>6. OpticReady(printed, i, current', scratch', out')
    BY <1>3, <2>4, <2>5 DEF OpticReady
  <2> HIDE DEF x, m
  <2>7. QED BY <1>6, <1>9, <2>2, <2>6
<1>10. CASE k # 1 /\ k # m + 2
  <2> DEFINE l == k - 1
  <2>1. l \in 1..m /\ k = l + 1 /\ (l + 1) + 1 # 1 /\ l + 1 # 1
    BY <1>1, <1>3, <1>10
  <2> HIDE DEF l
  <2>2. x = 3 /\ h \in 1..3
    BY <1>1, <1>4, <2>1
  <2>3. b[l + 1] = LaneLines(i, l) /\ l \in Nat
    BY <1>2, <2>1, LaneRows
  <2>4. Head(text) = LaneLines(i, l)[h]
    BY <1>5, <2>1, <2>3
  <2>5. Loose(printed, i, current', scratch', out')
    <3>1. Below(i, Head(text))
      BY <2>2, <2>3, <2>4, LaneBelow
    <3>2. QED BY <1>1, <1>5, <1>8, <1>10, <3>1, LooseLine
  <2>6. ~r.breakout => /\ h < 3 => InLane(i, r, l + 1, h + 1, current', scratch')
                       /\ h = 3 => InLane(i, r, (l + 1) + 1, 1, current', scratch')
    <3>1. ~r.breakout => InLane(i, r, l + 1, h, current, scratch)
      BY <1>8, <1>10, <2>1
    <3>2. QED BY <1>2, <1>5, <2>1, <2>2, <2>4, <3>1, LaneStep
  <2>7. /\ h < 3 => OpticHeld(printed, i, l + 1, h + 1, current', scratch', out')
        /\ h = 3 => OpticHeld(printed, i, (l + 1) + 1, 1, current', scratch', out')
    BY <2>1, <2>5, <2>6 DEF OpticHeld
  <2>8. /\ h < x => OpticHeld(printed, i, k, h + 1, current', scratch', out')
        /\ h = x => OpticHeld(printed, i, k + 1, 1, current', scratch', out')
    BY <2>1, <2>2, <2>7
  <2> HIDE DEF x, m
  <2>9. QED BY <1>6, <1>10, <2>8
<1>11. QED BY <1>7, <1>9, <1>10

LEMMA OpticInit ==
  ASSUME Transceiver!Init
  PROVE  OpticHolds(printed, text, current, scratch, out)
<1>1. printed \in Seq(Transceiver!Interface)
  <2>1. PICK m \in 0..MaxInterfaces : printed \in [1..m -> Transceiver!Interface]
    BY DEF Transceiver!Init, Transceiver!BoundedSeq, Transceiver!SeqOf
  <2>2. m \in Nat
    BY TransceiverAssumption
  <2>3. QED BY <2>1, <2>2
<1> DEFINE B == OpticTexts(printed)
<1>2. text = FlattenSeq(B)
  BY SameFlatten DEF Transceiver!Init, Transceiver!FlattenSeq, FlattenSeq, OpticTexts
<1>3. current = Transceiver!Nil /\ out = <<>>
  BY DEF Transceiver!Init
<1>4. Blocks(B, OpticLine)
  BY <1>1, OpticTextsTyped
<1> HIDE DEF B
<1>5. From(B, 1) = FlattenSeq(B)
  <2>1. 1 \in 1..(Len(B) + 1)
    BY <1>4 DEF Blocks
  <2>2. QED BY <1>4, <2>1, FromTyped
<1>6. OpticReady(printed, 0, current, scratch, out)
  <2>1. Holder(printed, 0, 0)
    <3>1. \A m \in (0 + 1)..0 : FALSE
      OBVIOUS
    <3>2. QED BY <3>1 DEF Holder
  <2>2. SavedUpTo(printed, 0, out)
    <3>1. out \in Seq(OpticEntry) /\ Len(out) = 0
      BY <1>3
    <3>2. (\A x \in 1..0 : FALSE) /\ (\A k \in 1..(0 - 1) : FALSE)
      OBVIOUS
    <3>3. QED BY <3>1, <3>2 DEF SavedUpTo
  <2>3. 0 \in 0..0
    OBVIOUS
  <2>4. QED BY <1>3, <2>1, <2>2, <2>3 DEF OpticReady, Loose
<1>7. OpticHolds(printed, From(OpticTexts(printed), 0 + 1), current, scratch, out)
  <2>1. 0 \in 0..Len(printed)
    BY <1>1
  <2>2. QED BY <1>1, <1>6, <2>1, BeforeInterface
<1>8. 0 + 1 = 1
  OBVIOUS
<1>9. QED BY <1>2, <1>5, <1>7, <1>8 DEF B

\* The end of the text.
LEMMA OpticEndStep ==
  ASSUME printed \in Seq(Transceiver!Interface), OpticEnd(printed, text, current, scratch, out), Transceiver!Next
  PROVE  OpticHolds(printed, text, current, scratch, out)'
<1> DEFINE N == Len(printed)
<1>1. text = <<>> /\ (OpticReady(printed, N, current, scratch, out)
                      \/ (current = Transceiver!Nil /\ SavedUpTo(printed, N + 1, out)))
  BY DEF OpticEnd
<1>2. Transceiver!End \/ (Transceiver!Parsed /\ UNCHANGED <<printed, text, current, scratch, out>>)
  BY <1>1 DEF Transceiver!Next, Transceiver!Unread, Transceiver!Name, Transceiver!NoInterface, Transceiver!Presence,
     Transceiver!Detail, Transceiver!NotSupported, Transceiver!DomHeader, Transceiver!Dom, Transceiver!Ignores,
     Transceiver!Reads, Transceiver!tvars
<1>3. CASE UNCHANGED <<printed, text, current, scratch, out>>
  <2>1. OpticHolds(printed, text, current, scratch, out)
    BY DEF OpticHolds
  <2>2. QED BY <1>3, <2>1
<1>4. CASE Transceiver!End
  <2>1. /\ current # Transceiver!Nil /\ text' = text /\ printed' = printed
        /\ current' = Transceiver!Nil /\ Transceiver!SaveWithDom
    BY <1>4 DEF Transceiver!End, Transceiver!AtEnd
  <2>2. N \in 0..Len(printed)
    OBVIOUS
  <2>3. SavedUpTo(printed, N + 1, out')
    BY <1>1, <2>1, <2>2, OpticSaved
  <2>4. OpticEnd(printed, text', current', scratch', out')
    BY <1>1, <2>1, <2>3 DEF OpticEnd
  <2>5. OpticHolds(printed, text', current', scratch', out')
    BY <2>4 DEF OpticHolds
  <2>6. QED BY <2>1, <2>5
<1>5. QED BY <1>2, <1>3, <1>4

LEMMA OpticStep ==
  ASSUME OpticHolds(printed, text, current, scratch, out), Transceiver!Next
  PROVE  OpticHolds(printed, text, current, scratch, out)'
<1>1. printed \in Seq(Transceiver!Interface)
  BY DEF OpticHolds
<1>2. \/ \E i, k, h \in Nat : OpticAt(printed, i, k, h, text, current, scratch, out)
      \/ OpticEnd(printed, text, current, scratch, out)
  BY DEF OpticHolds
<1>3. CASE OpticEnd(printed, text, current, scratch, out)
  BY <1>1, <1>3, OpticEndStep
<1>4. CASE \E i, k, h \in Nat : OpticAt(printed, i, k, h, text, current, scratch, out)
  <2>1. PICK i \in Nat, k \in Nat, h \in Nat : OpticAt(printed, i, k, h, text, current, scratch, out)
    BY <1>4
  <2>2. QED BY <1>1, <2>1, OpticLineStep
<1>5. QED BY <1>2, <1>3, <1>4

\* What is reported in any state; when all is read, everything is.
LEMMA OpticSoFar ==
  ASSUME OpticHolds(printed, text, current, scratch, out)
  PROVE  /\ printed \in Seq(Transceiver!Interface)
         /\ \E g \in 0..(Len(printed) + 1) : /\ SavedUpTo(printed, g, out)
                                             /\ Transceiver!Parsed => g = Len(printed) + 1
<1> DEFINE N == Len(printed)
           Found(g) == SavedUpTo(printed, g, out) /\ (Transceiver!Parsed => g = N + 1)
<1>1. printed \in Seq(Transceiver!Interface) /\ N \in Nat
  BY DEF OpticHolds
<1> SUFFICES \E g \in 0..(N + 1) : Found(g)
  BY <1>1
<1>2. ASSUME NEW m \in 0..N, Loose(printed, m, current, scratch, out), Transceiver!Parsed => m = N
      PROVE  \E g \in 0..(N + 1) : Found(g)
  <2>1. PICK g \in 0..m :
          /\ Holder(printed, g, m) /\ SavedUpTo(printed, g, out)
          /\ g # 0 => current \in MixedEntry(g, m)
    BY <1>2 DEF Loose
  <2>2. CASE Transceiver!Parsed
    <3>1. g = 0 /\ m = N
      <4>1. current = Transceiver!Nil
        BY <2>2 DEF Transceiver!Parsed
      <4>2. QED BY <1>2, <2>1, <2>2, <4>1, MixedNotNil
    <3>2. SavedUpTo(printed, N + 1, out)
      <4>1. N \in 0..Len(printed) /\ Holder(printed, 0, N) /\ SavedUpTo(printed, 0, out)
        BY <1>1, <2>1, <3>1
      <4>2. QED BY <1>1, <4>1, NothingSaved
    <3>3. N + 1 \in 0..(N + 1)
      BY <1>1
    <3>4. QED BY <3>2, <3>3
  <2>3. CASE ~Transceiver!Parsed
    <3>1. g \in 0..(N + 1)
      BY <1>1
    <3>2. QED BY <2>1, <2>3, <3>1
  <2>4. QED BY <2>2, <2>3
<1>3. CASE \E i, k, h \in Nat : OpticAt(printed, i, k, h, text, current, scratch, out)
  <2>1. PICK i \in Nat, k \in Nat, h \in Nat : OpticAt(printed, i, k, h, text, current, scratch, out)
    BY <1>3
  <2>2. /\ i \in 1..Len(printed) /\ k \in 1..(Lanes(printed[i]) + 2)
        /\ h \in 1..Len(OpticBlocks(i, printed[i])[k])
        /\ text = LeftBefore(OpticBlocks(i, printed[i]), k, h, From(OpticTexts(printed), i + 1))
        /\ OpticHeld(printed, i, k, h, current, scratch, out)
    BY <2>1 DEF OpticAt
  <2>3. text # <<>>
    BY <1>1, <2>2, OpticTextRead
  <2>4. ~Transceiver!Parsed
    BY <2>3 DEF Transceiver!Parsed
  <2>5. i \in 0..N /\ i - 1 \in 0..N
    BY <1>1, <2>2
  <2>6. Loose(printed, i, current, scratch, out) \/ Loose(printed, i - 1, current, scratch, out)
    BY <2>2 DEF OpticHeld, OpticReady
  <2>7. QED BY <1>1, <1>2, <2>4, <2>5, <2>6
<1>4. CASE OpticEnd(printed, text, current, scratch, out)
  <2>1. N \in 0..N /\ N + 1 \in 0..(N + 1)
    BY <1>1
  <2>2. CASE OpticReady(printed, N, current, scratch, out)
    <3>1. Loose(printed, N, current, scratch, out)
      BY <2>2 DEF OpticReady
    <3> HIDE DEF Found
    <3>2. QED BY <1>2, <2>1, <3>1
  <2>3. CASE SavedUpTo(printed, N + 1, out)
    BY <2>1, <2>3
  <2>4. QED BY <1>4, <2>2, <2>3 DEF OpticEnd
<1>5. QED BY <1>1, <1>3, <1>4 DEF OpticHolds


-----------------------------------------------------------------------------
(* TransceiverText: the output.                                            *)

\* An interface that is reported in full, field by field.
LEMMA WholeRecord ==
  ASSUME NEW i, NEW r
  PROVE  LET h == HeadSize(r) + 1
         IN  Whole(i, r) = [name |-> <<i>>, present |-> PresentAt(r, h), detail |-> DetailAt(i, h),
                            length |-> LengthAt(i, r, h), cable |-> CableAt(i, r, h),
                            domSupported |-> Lanes(r) # 0, dom |-> LaneRead(i, Lanes(r)), laneNumber |-> 0]
<1> DEFINE h == HeadSize(r) + 1
           n == <<i>>
           p == PresentAt(r, h)
           d == DetailAt(i, h)
           l == LengthAt(i, r, h)
           c == CableAt(i, r, h)
           s == Lanes(r) # 0
           z == <<>>
           w == LaneRead(i, Lanes(r))
           b == Bare(i, r)
<1>1. b = [name |-> n, present |-> p, detail |-> d, length |-> l, cable |-> c,
           domSupported |-> s, dom |-> z, laneNumber |-> 0]
  BY DEF Bare, HeadEntry, Undiagnosed
<1>2. Whole(i, r) = [b EXCEPT !.dom = w]
  BY DEF Whole
<1> HIDE DEF h, n, p, d, l, c, s, z, w, b
<1>3. Whole(i, r) = [name |-> n, present |-> p, detail |-> d, length |-> l, cable |-> c,
                     domSupported |-> s, dom |-> w, laneNumber |-> 0]
  BY <1>1, <1>2
<1>4. QED BY <1>3 DEF h, n, p, d, l, c, s, w

\* And their values.
LEMMA WholeValues ==
  ASSUME NEW i \in Nat, NEW r \in Transceiver!Interface
  PROVE  LET h == HeadSize(r) + 1  m == r.module IN
         /\ m = Transceiver!Nil => /\ PresentAt(r, h) = FALSE /\ DetailAt(i, h) = <<>> /\ LengthAt(i, r, h) = <<>>
                                   /\ CableAt(i, r, h) = <<>> /\ Lanes(r) = 0
         /\ m # Transceiver!Nil =>
              /\ PresentAt(r, h) = TRUE /\ DetailAt(i, h) = <<i>> /\ Lanes(r) = m.lanes
              /\ LengthAt(i, r, h) = (IF m.lengths = <<>> THEN <<>> ELSE <<i, m.lengths[Len(m.lengths)]>>)
              /\ CableAt(i, r, h) = (IF m.cable THEN <<i>> ELSE <<>>)
<1> DEFINE h == HeadSize(r) + 1
           m == r.module
           n == Len(Lengths(r))
           e == CableLines(r)
           z == NoDomLines(r)
<1>1. n \in Nat /\ e \in {0, 1} /\ z \in {0, 1}
  BY InterfaceTyped
<1>2. CASE m = Transceiver!Nil
  <2>1. h = 3 /\ Lanes(r) = 0 /\ ~HasCable(r)
    BY <1>2 DEF HeadSize, Lanes, HasCable
  <2>2. ~(h > 3) /\ ~(h > 4) /\ h > 2
    BY <2>1
  <2> HIDE DEF h
  <2>3. QED BY <1>2, <2>1, <2>2 DEF PresentAt, DetailAt, LengthAt, CableAt, h
<1>3. CASE m # Transceiver!Nil
  <2>1. h = 4 + n + e + z
    <3>1. HeadSize(r) = 3 + n + e + z
      BY <1>3 DEF HeadSize
    <3> HIDE DEF n, e, z
    <3>2. QED BY <1>1, <3>1
  <2>2. m \in Modules /\ Lengths(r) = m.lengths /\ HasCable(r) = m.cable /\ Lanes(r) = m.lanes
    BY <1>3, InterfaceTyped DEF Lengths, HasCable, Lanes
  <2>3. m.lengths \in Seq(1..4) /\ m.cable \in BOOLEAN
    BY <2>2, ModuleTyped
  <2>4. m.cable => e = 1
    BY <2>2 DEF CableLines
  <2>5. n = Len(m.lengths) /\ (n > 0 <=> m.lengths # <<>>)
    BY <2>2, <2>3
  <2> HIDE DEF h, n, e, z
  <2>6. h > 2 /\ h > 3 /\ h > 3 + n /\ (n > 0 => h > 4) /\ (m.cable => h > 4 + n)
    BY <1>1, <2>1, <2>4
  <2>7. PresentAt(r, h) = TRUE /\ DetailAt(i, h) = <<i>>
    BY <1>3, <2>6 DEF PresentAt, DetailAt
  <2>8. LengthAt(i, r, h) = (IF m.lengths = <<>> THEN <<>> ELSE <<i, m.lengths[Len(m.lengths)]>>)
    BY <1>1, <2>2, <2>5, <2>6 DEF LengthAt, n
  <2>9. CableAt(i, r, h) = (IF m.cable THEN <<i>> ELSE <<>>)
    BY <2>2, <2>3, <2>6 DEF CableAt, n
  <2>10. QED BY <1>3, <2>2, <2>7, <2>8, <2>9 DEF h
<1>4. QED BY <1>2, <1>3

\* An interface that is reported in full as it was printed.
LEMMA WholeReported ==
  ASSUME NEW i \in Nat, NEW r \in Transceiver!Interface
  PROVE  LET e == Whole(i, r)  m == r.module IN
         /\ e.present = (m # Transceiver!Nil)
         /\ m = Transceiver!Nil => e = Transceiver!NewEntry(<<i>>)
         /\ m # Transceiver!Nil =>
              /\ e.detail = <<i>> /\ e.cable = (IF m.cable THEN <<i>> ELSE Transceiver!Empty)
              /\ e.length = (IF m.lengths = <<>> THEN Transceiver!Empty ELSE <<i, Transceiver!Last(m.lengths)>>)
              /\ e.domSupported = (m.lanes > 0)
              /\ e.dom = (IF m.lanes = 0 THEN <<>> ELSE <<<<i, m.lanes>>, <<i, m.lanes>>>>)
<1> DEFINE h == HeadSize(r) + 1
           e == Whole(i, r)
           m == r.module
           n == <<i>>
           p == PresentAt(r, h)
           d == DetailAt(i, h)
           l == LengthAt(i, r, h)
           c == CableAt(i, r, h)
           s == Lanes(r) # 0
           w == LaneRead(i, Lanes(r))
<1>1. e = [name |-> n, present |-> p, detail |-> d, length |-> l, cable |-> c,
           domSupported |-> s, dom |-> w, laneNumber |-> 0]
  BY WholeRecord
<1>2. CASE m = Transceiver!Nil
  <2>1. p = FALSE /\ d = <<>> /\ l = <<>> /\ c = <<>> /\ s = FALSE /\ w = <<>>
    BY <1>2, WholeValues DEF LaneRead
  <2>2. Transceiver!NewEntry(n) = [name |-> n, present |-> FALSE, detail |-> <<>>, length |-> <<>>, cable |-> <<>>,
                                   domSupported |-> FALSE, dom |-> <<>>, laneNumber |-> 0]
    BY DEF Transceiver!NewEntry, Transceiver!Empty
  <2> HIDE DEF e, p, d, l, c, s, w
  <2>3. e = Transceiver!NewEntry(n)
    BY <1>1, <2>1, <2>2
  <2>4. e.present = FALSE
    BY <1>1, <2>1
  <2>5. QED BY <1>2, <2>3, <2>4 DEF e
<1>3. CASE m # Transceiver!Nil
  <2>1. /\ p = TRUE /\ d = n /\ Lanes(r) = m.lanes
        /\ l = (IF m.lengths = <<>> THEN <<>> ELSE <<i, m.lengths[Len(m.lengths)]>>)
        /\ c = (IF m.cable THEN n ELSE <<>>)
    BY <1>3, WholeValues
  <2>2. Lanes(r) \in Nat
    BY InterfaceTyped
  <2>3. s = (m.lanes > 0)
    BY <2>1, <2>2
  <2>4. w = IF m.lanes = 0 THEN <<>> ELSE <<<<i, m.lanes>>, <<i, m.lanes>>>>
    BY <2>1 DEF LaneRead
  <2>5. /\ e.present = p /\ e.detail = d /\ e.length = l /\ e.cable = c /\ e.domSupported = s /\ e.dom = w
    <3> HIDE DEF e, n, p, d, l, c, s, w
    <3>1. QED BY <1>1
  <2>6. Transceiver!Last(m.lengths) = m.lengths[Len(m.lengths)] /\ Transceiver!Empty = <<>>
    BY DEF Transceiver!Last, Transceiver!Empty
  <2> HIDE DEF e, p, d, l, c, s, w
  <2>7. QED BY <1>3, <2>1, <2>3, <2>4, <2>5, <2>6 DEF e, n
<1>4. QED BY <1>2, <1>3

LEMMA LeastOfOne ==
  ASSUME NEW x \in Nat
  PROVE  Transceiver!Min({x}) = x
<1>1. \A y \in {x} : x =< y
  OBVIOUS
<1>2. QED BY <1>1 DEF Transceiver!Min

\* And as the JSON form of the command gives it.
LEMMA WholeAgrees ==
  ASSUME NEW i \in Nat, NEW r \in Transceiver!Interface
  PROVE  LET e == Whole(i, r)  m == r.module  json == Transceiver!JSONEntry(i, m) IN
         /\ <<e.name, e.present, e.detail, e.domSupported>>
              = <<json.name, json.present, json.detail, json.domSupported>>
         /\ m = Transceiver!Nil => e = json
         /\ m # Transceiver!Nil => /\ Len(m.lengths) <= 1 => e.length = json.length
                                   /\ m.lanes <= 1 => e.dom = json.dom
<1> DEFINE e == Whole(i, r)
           m == r.module
           json == Transceiver!JSONEntry(i, m)
<1>1. /\ e.present = (m # Transceiver!Nil)
      /\ m = Transceiver!Nil => e = Transceiver!NewEntry(<<i>>)
      /\ m # Transceiver!Nil =>
           /\ e.detail = <<i>>
           /\ e.length = (IF m.lengths = <<>> THEN Transceiver!Empty ELSE <<i, Transceiver!Last(m.lengths)>>)
           /\ e.domSupported = (m.lanes > 0)
           /\ e.dom = (IF m.lanes = 0 THEN <<>> ELSE <<<<i, m.lanes>>, <<i, m.lanes>>>>)
  BY WholeReported
<1>2. e.name = <<i>>
  BY WholeRecord
<1> HIDE DEF e
<1>3. CASE m = Transceiver!Nil
  <2>1. json = Transceiver!NewEntry(<<i>>)
    BY <1>3 DEF Transceiver!JSONEntry
  <2> HIDE DEF json, m
  <2>2. QED BY <1>1, <1>3, <2>1 DEF e, json, m
<1>4. CASE m # Transceiver!Nil
  <2> DEFINE n == <<i>>
             s == m.lanes > 0
             l == IF m.lengths = <<>> THEN Transceiver!Empty ELSE <<i, Transceiver!Min(Transceiver!ToSet(m.lengths))>>
             w == IF m.lanes = 0 THEN <<>> ELSE <<<<i, 1>>, <<i, 1>>>>
             z == Transceiver!Empty
             k == IF m.lanes = 0 THEN 0 ELSE 1
  <2>1. json = [name |-> n, present |-> TRUE, detail |-> n, length |-> l, cable |-> z,
                domSupported |-> s, dom |-> w, laneNumber |-> k]
    BY <1>4 DEF Transceiver!JSONEntry
  <2>2. /\ json.name = n /\ json.present = TRUE /\ json.detail = n /\ json.length = l
        /\ json.domSupported = s /\ json.dom = w
    <3> HIDE DEF json, n, s, l, w, z, k
    <3>1. QED BY <2>1
  <2>3. m.lengths \in Seq(1..4) /\ m.lanes \in Nat
    BY <1>4, InterfaceTyped, ModuleTyped
  <2>4. Len(m.lengths) <= 1 => e.length = l
    <3>1. CASE m.lengths = <<>>
      BY <1>1, <1>4, <3>1
    <3>2. CASE m.lengths # <<>> /\ Len(m.lengths) <= 1
      <4>1. Len(m.lengths) = 1 /\ m.lengths[1] \in Nat
        <5> DEFINE q == m.lengths
        <5>1. q \in Seq(1..4) /\ q # <<>> /\ Len(q) <= 1
          BY <2>3, <3>2
        <5> HIDE DEF q
        <5>2. Len(q) = 1
          <6>1. Len(q) \in Nat /\ Len(q) > 0
            BY <5>1
          <6>2. \A a \in Nat : a > 0 /\ a <= 1 => a = 1
            OBVIOUS
          <6>3. QED BY <5>1, <6>1, <6>2
        <5>3. q[1] \in 1..4
          BY <5>1, <5>2
        <5>4. QED BY <5>2, <5>3 DEF q
      <4>2. Transceiver!ToSet(m.lengths) = {m.lengths[1]}
        <5>1. DOMAIN m.lengths = {1}
          BY <2>3, <4>1
        <5>2. QED BY <5>1 DEF Transceiver!ToSet
      <4>3. Transceiver!Min(Transceiver!ToSet(m.lengths)) = m.lengths[1]
        BY <4>1, <4>2, LeastOfOne
      <4>4. Transceiver!Last(m.lengths) = m.lengths[1]
        BY <4>1 DEF Transceiver!Last
      <4>5. QED BY <1>1, <1>4, <3>2, <4>3, <4>4
    <3>3. QED BY <3>1, <3>2
  <2>5. m.lanes <= 1 => e.dom = w
    <3>1. m.lanes <= 1 => m.lanes = 0 \/ m.lanes = 1
      BY <2>3
    <3>2. QED BY <1>1, <1>4, <3>1
  <2>6. e.name = n /\ e.present = TRUE /\ e.detail = n /\ e.domSupported = s
    BY <1>1, <1>2, <1>4
  <2> HIDE DEF json, m, n, s, l, w
  <2>7. QED BY <1>4, <2>2, <2>4, <2>5, <2>6 DEF e, json, m
<1>5. QED BY <1>3, <1>4


\* Nothing is lost or foreign, and the two forms agree.
LEMMA OpticReported ==
  ASSUME OpticHolds(printed, text, current, scratch, out)
  PROVE  Transceiver!TransceiversKept /\ Transceiver!FormatsAgree
<1> DEFINE N == Len(printed)
<1>1. printed \in Seq(Transceiver!Interface) /\ N \in Nat /\ DOMAIN printed = 1..N
  BY OpticSoFar
<1>2. PICK g \in 0..(N + 1) : SavedUpTo(printed, g, out) /\ (Transceiver!Parsed => g = N + 1)
  BY OpticSoFar
<1>3. out \in Seq(OpticEntry) /\ DOMAIN out = 1..Len(out)
  BY <1>2 DEF SavedUpTo
<1> HIDE DEF N
<1>4. ASSUME NEW x \in DOMAIN out
      PROVE  \E k \in 1..N : KeptEntry(printed, k, out[x])
  <2>1. PICK k \in 1..(g - 1) : KeptEntry(printed, k, out[x])
    BY <1>2, <1>3, <1>4 DEF SavedUpTo
  <2>2. k \in 1..N
    BY <1>1, <1>2
  <2>3. QED BY <2>1, <2>2
<1>5. \A k : Transceiver!Group(k) = GroupOf(printed, k)
  BY DEF Transceiver!Group, GroupOf
<1>6. ASSUME NEW e, NEW k \in 1..N, KeptEntry(printed, k, e)
      PROVE  /\ Transceiver!Owner(e) = k /\ k \in DOMAIN printed /\ ~printed[k].breakout /\ e.name = <<k>>
             /\ \A v \in {e.detail, e.length, e.cable} \cup Transceiver!ToSet(e.dom) :
                  v # Transceiver!Empty => v[1] \in Transceiver!Group(k)
             /\ Transceiver!Group(k) = {k} => e = Whole(k, printed[k])
  <2>1. e.name = <<k>> /\ ~printed[k].breakout
    BY <1>6 DEF KeptEntry
  <2>2. Transceiver!Owner(e) = k
    BY <2>1 DEF Transceiver!Owner
  <2>3. \A v \in {e.detail, e.length, e.cable} \cup ToSet(e.dom) : v # <<>> => v[1] \in GroupOf(printed, k)
    BY <1>6 DEF KeptEntry
  <2>4. Transceiver!ToSet(e.dom) = ToSet(e.dom) /\ Transceiver!Empty = <<>>
    BY DEF Transceiver!ToSet, ToSet, Transceiver!Empty
  <2>5. GroupOf(printed, k) = {k} => e = Whole(k, printed[k])
    BY <1>6 DEF KeptEntry
  <2>6. QED BY <1>1, <1>5, <2>1, <2>2, <2>3, <2>4, <2>5
<1>7. ASSUME NEW x \in DOMAIN out, NEW k \in 1..N, KeptEntry(printed, k, out[x])
      PROVE  LET e == out[x]  i == Transceiver!Owner(e) IN
             /\ i \in DOMAIN printed /\ ~printed[i].breakout /\ e.name = <<i>>
             /\ \A v \in {e.detail, e.length, e.cable} \cup Transceiver!ToSet(e.dom) :
                  v # Transceiver!Empty => v[1] \in Transceiver!Group(i)
             /\ Transceiver!Group(i) = {i} => LET m == printed[i].module IN
                  /\ e.present = (m # Transceiver!Nil)
                  /\ m = Transceiver!Nil => e = Transceiver!NewEntry(<<i>>)
                  /\ m # Transceiver!Nil =>
                       /\ e.detail = <<i>> /\ e.cable = (IF m.cable THEN <<i>> ELSE Transceiver!Empty)
                       /\ e.length = (IF m.lengths = <<>> THEN Transceiver!Empty
                                      ELSE <<i, Transceiver!Last(m.lengths)>>)
                       /\ e.domSupported = (m.lanes > 0)
                       /\ e.dom = (IF m.lanes = 0 THEN <<>> ELSE <<<<i, m.lanes>>, <<i, m.lanes>>>>)
  <2> DEFINE e == out[x]
             m == printed[k].module
  <2>1. /\ Transceiver!Owner(e) = k /\ k \in DOMAIN printed /\ ~printed[k].breakout /\ e.name = <<k>>
        /\ \A v \in {e.detail, e.length, e.cable} \cup Transceiver!ToSet(e.dom) :
             v # Transceiver!Empty => v[1] \in Transceiver!Group(k)
        /\ Transceiver!Group(k) = {k} => e = Whole(k, printed[k])
    BY <1>6, <1>7
  <2>2. k \in Nat /\ printed[k] \in Transceiver!Interface
    BY <1>1
  <2>3. Transceiver!Group(k) = {k} =>
          /\ e.present = (m # Transceiver!Nil)
          /\ m = Transceiver!Nil => e = Transceiver!NewEntry(<<k>>)
          /\ m # Transceiver!Nil =>
               /\ e.detail = <<k>> /\ e.cable = (IF m.cable THEN <<k>> ELSE Transceiver!Empty)
               /\ e.length = (IF m.lengths = <<>> THEN Transceiver!Empty ELSE <<k, Transceiver!Last(m.lengths)>>)
               /\ e.domSupported = (m.lanes > 0)
               /\ e.dom = (IF m.lanes = 0 THEN <<>> ELSE <<<<k, m.lanes>>, <<k, m.lanes>>>>)
    BY <2>1, <2>2, WholeReported
  <2> HIDE DEF m
  <2>4. QED BY <2>1, <2>3 DEF m
<1>8. Transceiver!TransceiversKept
  <2>1. ASSUME NEW x \in DOMAIN out, NEW y \in DOMAIN out, x < y
        PROVE  Transceiver!Owner(out[x]) < Transceiver!Owner(out[y])
    BY <1>2, <1>3, <2>1 DEF SavedUpTo, Transceiver!Owner
  <2>2. ASSUME Transceiver!Parsed, NEW i \in DOMAIN printed, ~printed[i].breakout
        PROVE  \E x \in DOMAIN out : out[x].name = <<i>>
    <3>1. g = N + 1 /\ i \in 1..N
      BY <1>1, <1>2, <2>2
    <3>2. i \in 1..(g - 1)
      BY <1>1, <3>1
    <3>3. QED BY <1>2, <1>3, <2>2, <3>2 DEF SavedUpTo
  <2>3. QED BY <1>4, <1>7, <2>1, <2>2 DEF Transceiver!TransceiversKept
<1>9. ASSUME NEW x \in DOMAIN out, NEW k \in 1..N, KeptEntry(printed, k, out[x])
      PROVE  LET e == out[x]  json == Transceiver!parseJSON(printed)[Transceiver!Owner(e)]
                 m == printed[Transceiver!Owner(e)].module IN
             Transceiver!Group(Transceiver!Owner(e)) = {Transceiver!Owner(e)} =>
               /\ <<e.name, e.present, e.detail, e.domSupported>>
                    = <<json.name, json.present, json.detail, json.domSupported>>
               /\ m = Transceiver!Nil => e = json
               /\ m # Transceiver!Nil => /\ Len(m.lengths) <= 1 => e.length = json.length
                                         /\ m.lanes <= 1 => e.dom = json.dom
  <2> DEFINE e == out[x]
             m == printed[k].module
             json == Transceiver!JSONEntry(k, m)
  <2>1. Transceiver!Owner(e) = k /\ (Transceiver!Group(k) = {k} => e = Whole(k, printed[k]))
    BY <1>6, <1>9
  <2>2. k \in Nat /\ k \in DOMAIN printed /\ printed[k] \in Transceiver!Interface
    BY <1>1
  <2>3. Transceiver!parseJSON(printed)[k] = json
    BY <2>2 DEF Transceiver!parseJSON
  <2>4. Transceiver!Group(k) = {k} =>
          /\ <<e.name, e.present, e.detail, e.domSupported>>
               = <<json.name, json.present, json.detail, json.domSupported>>
          /\ m = Transceiver!Nil => e = json
          /\ m # Transceiver!Nil => /\ Len(m.lengths) <= 1 => e.length = json.length
                                    /\ m.lanes <= 1 => e.dom = json.dom
    BY <2>1, <2>2, WholeAgrees
  <2> HIDE DEF m, json
  <2>5. QED BY <2>1, <2>3, <2>4 DEF m
<1>10. Transceiver!FormatsAgree
  BY <1>4, <1>9 DEF Transceiver!FormatsAgree
<1>11. QED BY <1>8, <1>10

\* Of any text one entry is reported per interface but the breakout ports, of
\* what was printed below its name and those of the breakout ports that
\* follow; where none does, in full, with the last of its link lengths and
\* lanes, and the same in the text and the JSON form of the command but for
\* the fields FormatsAgree names: parseTransceivers and parseJSON.
THEOREM TransceiversReportedAlways == NexusSpec => []TransceiversReported
<1>1. NexusInit => OpticInv
  <2> SUFFICES ASSUME NexusInit, parser = "transceiver"
               PROVE  OpticHolds(printed, text, current, scratch, out)
    BY DEF OpticInv
  <2>1. Transceiver!Init
    BY DEF NexusInit
  <2>2. QED BY <2>1, OpticInit
<1>2. OpticInv /\ [NexusNext]_vars => OpticInv'
  <2> SUFFICES ASSUME OpticInv, [NexusNext]_vars, parser' = "transceiver"
               PROVE  OpticHolds(printed, text, current, scratch, out)'
    BY DEF OpticInv
  <2>1. parser = "transceiver"
    BY DEF NexusNext, vars
  <2>2. OpticHolds(printed, text, current, scratch, out)
    BY <2>1 DEF OpticInv
  <2>3. CASE NexusNext
    <3>1. Transceiver!Next
      BY <2>1, <2>3 DEF NexusNext
    <3>2. QED BY <2>2, <3>1, OpticStep
  <2>4. CASE UNCHANGED vars
    BY <2>2, <2>4 DEF vars
  <2>5. QED BY <2>3, <2>4
<1>3. OpticInv => TransceiversReported
  BY OpticReported DEF OpticInv, TransceiversReported
<1>4. QED BY <1>1, <1>2, <1>3, PTL DEF NexusSpec
=============================================================================
