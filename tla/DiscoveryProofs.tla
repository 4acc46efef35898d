---------------------------- MODULE DiscoveryProofs ----------------------------
(***************************************************************************)
(* Proofs about Discovery, for every switch and every configuration: what  *)
(* is asked of whom is complete and in order when collection starts,       *)
(* however the requests fail.                                              *)
(***************************************************************************)
EXTENDS Discovery, FiniteSetTheorems, TLAPS

-----------------------------------------------------------------------------
(* The names of an answer.                                                 *)

\* What the loop over names, begun with base, has collected of the first k
\* elements of s.
CollectedNames(base, s, k, ns) ==
  /\ base = <<>>
  /\ ns \in Seq(Instance)
  /\ \A i, j \in DOMAIN ns : i # j => ns[i] # ns[j]
  /\ \A i \in 1..k : s[i] # NoName => \E j \in DOMAIN ns : ns[j] = s[i]
  /\ \A j \in DOMAIN ns : \E i \in 1..k : s[i] = ns[j]

NameLoop == INSTANCE Loops WITH Op <- AddName, Inv <- CollectedNames

\* Of a sequence of names Distinct keeps each but the empty one, once.
LEMMA DistinctEffect ==
  ASSUME NEW s \in Seq(Instance \cup {NoName})
  PROVE  CollectedNames(<<>>, s, Len(s), Distinct(s))
<1>1. CollectedNames(<<>>, s, 0, <<>>)
  BY DEF CollectedNames
<1>2. ASSUME NEW k \in 1..Len(s), NEW ns, CollectedNames(<<>>, s, k - 1, ns)
      PROVE  CollectedNames(<<>>, s, k, AddName(ns, s[k]))
  <2>1. /\ 1..k = (1..(k - 1)) \cup {k} /\ s[k] \in Instance \cup {NoName}
        /\ ns \in Seq(Instance)
    BY <1>2 DEF CollectedNames
  <2>2. CASE s[k] = NoName \/ Contains(ns, s[k])
    <3>1. s[k] # NoName => \E j \in DOMAIN ns : ns[j] = s[k]
      BY <2>1, <2>2 DEF Contains
    <3>2. AddName(ns, s[k]) = ns
      BY <2>2 DEF AddName
    <3>3. QED BY <1>2, <2>1, <3>1, <3>2 DEF CollectedNames
  <2>3. CASE ~(s[k] = NoName \/ Contains(ns, s[k]))
    <3> DEFINE ms == Append(ns, s[k])
    <3>1. AddName(ns, s[k]) = ms
      BY <2>3 DEF AddName
    <3>2. /\ s[k] \in Instance /\ ms \in Seq(Instance) /\ DOMAIN ms = DOMAIN ns \cup {Len(ns) + 1}
          /\ ms[Len(ns) + 1] = s[k] /\ \A j \in DOMAIN ns : ms[j] = ns[j]
      BY <2>1, <2>3
    <3>3. \A j \in DOMAIN ns : ns[j] # s[k]
      BY <2>1, <2>3 DEF Contains
    <3> HIDE DEF ms
    <3>4. \A i, j \in DOMAIN ms : i # j => ms[i] # ms[j]
      BY <1>2, <3>2, <3>3 DEF CollectedNames
    <3>5. \A i \in 1..k : s[i] # NoName => \E j \in DOMAIN ms : ms[j] = s[i]
      BY <1>2, <2>1, <3>2 DEF CollectedNames
    <3>6. \A j \in DOMAIN ms : \E i \in 1..k : s[i] = ms[j]
      BY <1>2, <2>1, <3>2 DEF CollectedNames
    <3>7. QED BY <3>1, <3>2, <3>4, <3>5, <3>6 DEF CollectedNames
  <2>4. QED BY <2>2, <2>3
<1>3. Len(s) \in Nat /\ DOMAIN s = 1..Len(s)
  OBVIOUS
<1>4. CollectedNames(<<>>, s, Len(s), NameLoop!FoldLeft(AddName, <<>>, s))
  BY <1>1, <1>2, <1>3, NameLoop!FoldInvariant
<1>5. NameLoop!FoldLeft(AddName, <<>>, s) = FoldLeft(AddName, <<>>, s)
  BY DEF NameLoop!FoldLeft, NameLoop!MapThenFoldSet, NameLoop!Max, FoldLeft, MapThenFoldSet, Max
<1>6. QED BY <1>4, <1>5 DEF Distinct

Answers == Nothing \cup Blank \cup Keyed \cup Listed \cup Folded

\* Every instance of the switch, once.
Complete(ns) ==
  /\ ns \in Seq(Instance)
  /\ \A i, j \in DOMAIN ns : i # j => ns[i] # ns[j]
  /\ \A n \in Instance : \E j \in DOMAIN ns : ns[j] = n

\* The instances in one list are all of them.
LEMMA ListIsComplete ==
  ASSUME NEW s \in SetToSeqs(Instance)
  PROVE  s \in Seq(Instance) /\ \A n \in Instance : \E i \in DOMAIN s : s[i] = n
<1> DEFINE c == Cardinality(Instance)
<1>1. c \in Nat
  BY DiscoveryAssumption, FS_CardinalityType
<1>2. s \in [1..c -> Instance] /\ \A i, j \in 1..c : i # j => s[i] # s[j]
  BY DEF SetToSeqs
<1> HIDE DEF c
<1>3. s \in Injection(1..c, Instance)
  BY <1>2 DEF Injection, IsInjective
<1>4. Cardinality(1..c) = c
  BY <1>1, FS_Interval
<1>5. s \in Surjection(1..c, Instance)
  BY <1>3, <1>4, DiscoveryAssumption, FS_Injection DEF c
<1>6. \A n \in Instance : \E i \in 1..c : s[i] = n
  BY <1>5 DEF Surjection
<1>7. QED BY <1>1, <1>2, <1>6

\* A sequence with every instance loses none to Distinct.
LEMMA DistinctIsComplete ==
  ASSUME NEW s \in Seq(Instance), \A n \in Instance : \E i \in DOMAIN s : s[i] = n
  PROVE  Complete(Distinct(s))
<1>1. s \in Seq(Instance \cup {NoName}) /\ DOMAIN s = 1..Len(s)
  OBVIOUS
<1>2. CollectedNames(<<>>, s, Len(s), Distinct(s))
  BY <1>1, DistinctEffect
<1>3. \A n \in Instance : \E i \in 1..Len(s) : s[i] = n /\ s[i] # NoName
  BY <1>1, DiscoveryAssumption
<1>4. QED BY <1>2, <1>3 DEF CollectedNames, Complete

\* No name is made of empty ones.
LEMMA DistinctOfNothing ==
  ASSUME NEW s \in Seq({NoName})
  PROVE  Distinct(s) = <<>>
<1>1. s \in Seq(Instance \cup {NoName}) /\ \A i \in 1..Len(s) : s[i] = NoName
  OBVIOUS
<1>2. CollectedNames(<<>>, s, Len(s), Distinct(s))
  BY <1>1, DistinctEffect
<1>3. Distinct(s) \in Seq(Instance) /\ DOMAIN Distinct(s) = {}
  BY <1>1, <1>2, DiscoveryAssumption DEF CollectedNames
<1>4. QED BY <1>3

\* A single sequence is flat.
LEMMA FlattenOne ==
  ASSUME NEW s
  PROVE  FlattenSeq(<<s>>) = s
<1> DEFINE f == [i \in 1..1 |-> s]
           IsFlat(g) == g = [i \in 1..Len(<<s>>) |-> IF i = 1 THEN <<s>>[i] ELSE g[i - 1] \o <<s>>[i]]
<1>1. IsFlat(f)
  OBVIOUS
<1>2. \A g : IsFlat(g) => g[1] = s
  OBVIOUS
<1>3. FlattenSeq(<<s>>) = (CHOOSE g : IsFlat(g))[1]
  BY DEF FlattenSeq
<1> HIDE DEF IsFlat, f
<1>4. QED BY <1>1, <1>2, <1>3

\* An answer names every instance or none.
LEMMA NamesEffect ==
  ASSUME NEW us \in Answers
  PROVE  NamesOf(us) = <<>> \/ Complete(NamesOf(us))
<1> DEFINE ks == [i \in DOMAIN us |-> us[i].key]
           vs == [i \in DOMAIN us |-> us[i].in]
<1>1. CASE us \in Keyed
  <2>1. PICK q \in SeqOf(Instance, MaxUpdates) :
           ToSet(q) = Instance /\ us = [i \in DOMAIN q |-> Update(q[i], <<>>)]
    BY <1>1 DEF Keyed
  <2>2. q \in Seq(Instance)
    BY <2>1, DiscoveryAssumption DEF SeqOf
  <2>3. ks = q
    BY <2>1, <2>2 DEF Update
  <2>4. \A n \in Instance : \E i \in DOMAIN q : q[i] = n
    BY <2>1 DEF ToSet
  <2>5. Complete(Distinct(q))
    BY <2>2, <2>4, DistinctIsComplete
  <2>6. CASE Distinct(ks) # <<>>
    BY <2>3, <2>5, <2>6 DEF NamesOf
  <2>7. CASE Distinct(ks) = <<>>
    <3>1. Instance = {}
      BY <2>3, <2>5, <2>7 DEF Complete
    <3>2. q = <<>>
      BY <2>2, <3>1
    <3>3. us = <<>>
      BY <2>1, <3>2
    <3>4. FlattenSeq(vs) = <<>>
      BY <3>3 DEF FlattenSeq
    <3>5. NamesOf(us) = Distinct(<<>>)
      BY <2>7, <3>4 DEF NamesOf
    <3>6. QED BY <2>3, <2>7, <3>2, <3>5
  <2>8. QED BY <2>6, <2>7
<1>2. CASE us = <<>>
  <2>1. ks = <<>> /\ FlattenSeq(vs) = <<>> /\ <<>> \in Seq({NoName})
    BY <1>2 DEF FlattenSeq
  <2>2. QED BY <2>1, DistinctOfNothing DEF NamesOf
<1>3. ASSUME NEW u, us = <<u>>, u.key = NoName, u.in = <<>> \/ u.in \in SetToSeqs(Instance)
      PROVE  NamesOf(us) = <<>> \/ Complete(NamesOf(us))
  <2>1. ks = <<NoName>> /\ vs = <<u.in>>
    BY <1>3
  <2>2. Distinct(ks) = <<>> /\ FlattenSeq(vs) = u.in
    <3>1. <<NoName>> \in Seq({NoName})
      OBVIOUS
    <3> HIDE DEF ks, vs
    <3>2. QED BY <2>1, <3>1, DistinctOfNothing, FlattenOne
  <2>3. NamesOf(us) = Distinct(u.in)
    BY <2>2 DEF NamesOf
  <2>4. CASE u.in = <<>>
    <3>1. <<>> \in Seq({NoName})
      OBVIOUS
    <3>2. QED BY <2>3, <2>4, <3>1, DistinctOfNothing
  <2>5. CASE u.in \in SetToSeqs(Instance)
    <3>1. u.in \in Seq(Instance) /\ \A n \in Instance : \E i \in DOMAIN u.in : u.in[i] = n
      BY <2>5, ListIsComplete
    <3>2. QED BY <2>3, <3>1, DistinctIsComplete
  <2>6. QED BY <1>3, <2>4, <2>5
<1>4. CASE us \in Blank \cup Listed \cup Folded
  BY <1>3, <1>4 DEF Blank, Listed, Folded, Update
<1>5. QED BY <1>1, <1>2, <1>4 DEF Answers, Nothing

-----------------------------------------------------------------------------
(* The inductive invariant.                                                *)

Probing   == {"probe", "probeOnce"}
Expanding == {"expand"} \cup Probing

Pairs   == [path : DOMAIN Path, ni : Instance \cup {NoName}]
Pair(i, n) == [path |-> i, ni |-> n]

\* Types, and where the process may be in the expansion.
PlaceOK ==
  /\ pc \in {"start", "get", "once", "blank", "extract", "collecting", "failed"} \cup Expanding
  /\ notifs \in Answers
  /\ at \in 1..(Len(Path) + 1) /\ ni \in Nat \ {0}
  /\ expanded \in Seq(Pairs) /\ unprobed \subseteq Pairs
  /\ pc \in {"start", "get", "once", "blank", "extract"} => at = 1 /\ expanded = <<>> /\ unprobed = {}
  /\ pc \in Expanding => Complete(names) /\ names # <<>>
  /\ pc \in Probing => /\ at <= Len(Path) /\ IsTemplate(at) /\ Path[at].bgp
                       /\ ni \in DOMAIN names

\* Instance n of path i has been dealt with.
Passed(i, n) == i < at \/ (pc \in Probing /\ i = at /\ \E j \in 1..(ni - 1) : names[j] = n)

Without(w) == Path[w.path].bgp /\ w.ni \notin HasBGP

\* What has been dealt with is accounted for, and nothing else is.
AccountOK ==
  pc \in Expanding =>
    /\ \A x \in ToSet(expanded) : IF x.ni = NoName THEN ~IsTemplate(x.path) /\ x.path < at
                                  ELSE IsTemplate(x.path) /\ Passed(x.path, x.ni)
    /\ \A u \in unprobed : u.ni \in Instance /\ Passed(u.path, u.ni)
    /\ \A w \in Wanted :
         /\ Passed(w.path, w.ni) => w \in ToSet(expanded) \/ Without(w) \/ w \in unprobed
         /\ ~(w \in ToSet(expanded) /\ (Without(w) \/ w \in unprobed))
    /\ \A i \in DOMAIN Path : i < at /\ ~IsTemplate(i) => Pair(i, NoName) \in ToSet(expanded)

\* Paths come in order and no pair comes twice.
Ordered(s) == \A j, k \in DOMAIN s : j < k => s[j].path <= s[k].path /\ s[j] # s[k]

DiscoveryInv == PlaceOK /\ AccountOK /\ ConfigOrder /\ InstancesAccounted

\* One step, action by action.
LEMMA DiscoverySteps ==
  ASSUME [Next]_vars
  PROVE  \/ Begin \/ GetNames \/ GetNothing \/ GetFails \/ OnceAnswers \/ OnceFails
         \/ BlankOnceAnswers \/ BlankOnceFails \/ Extract
         \/ PassThrough \/ ExpandAll \/ StartProbes \/ ProbeAnswers \/ ProbeFails
         \/ ProbeOnceAnswers \/ ProbeOnceFails \/ Check \/ Restart \/ UNCHANGED vars
BY DEF Next, Discover, Expand, Collecting

\* Elements of a sequence with another one behind it.
LEMMA ConcatPairs ==
  ASSUME NEW s \in Seq(Pairs), NEW t \in Seq(Pairs)
  PROVE  /\ s \o t \in Seq(Pairs)
         /\ \A e : e \in ToSet(s \o t) <=> e \in ToSet(s) \/ e \in ToSet(t)
<1>1. \A e : e \in NameLoop!ToSet(s \o t) <=> e \in NameLoop!ToSet(s) \/ e \in NameLoop!ToSet(t)
  BY NameLoop!ConcatElements
<1>2. \A q : NameLoop!ToSet(q) = ToSet(q)
  BY DEF NameLoop!ToSet, ToSet
<1>3. s \o t \in Seq(Pairs)
  OBVIOUS
<1>4. QED BY <1>1, <1>2, <1>3

\* An element of a sequence is of the set its elements are taken from.
LEMMA ElementOfPairs ==
  ASSUME NEW s \in Seq(Pairs), NEW x \in ToSet(s)
  PROVE  x \in Pairs
BY DEF ToSet

\* Order is kept by adding pairs that are new and not of an earlier path.
LEMMA ConcatOrder ==
  ASSUME NEW s \in Seq(Pairs), NEW t \in Seq(Pairs), Ordered(s), Ordered(t),
         \A x \in ToSet(s), y \in ToSet(t) : x.path <= y.path /\ x # y
  PROVE  Ordered(s \o t)
<1> SUFFICES ASSUME NEW j \in DOMAIN (s \o t), NEW k \in DOMAIN (s \o t), j < k
             PROVE  (s \o t)[j].path <= (s \o t)[k].path /\ (s \o t)[j] # (s \o t)[k]
  BY DEF Ordered
<1>1. j \in 1..(Len(s) + Len(t)) /\ k \in 1..(Len(s) + Len(t)) /\ Len(s) \in Nat /\ Len(t) \in Nat
  OBVIOUS
<1>2. CASE k <= Len(s)
  <2>1. /\ j \in DOMAIN s /\ k \in DOMAIN s
        /\ (s \o t)[j] = s[j] /\ (s \o t)[k] = s[k]
    BY <1>1, <1>2
  <2>2. QED BY <2>1 DEF Ordered
<1>3. CASE j > Len(s)
  <2>1. /\ j - Len(s) \in DOMAIN t /\ k - Len(s) \in DOMAIN t /\ j - Len(s) < k - Len(s)
        /\ (s \o t)[j] = t[j - Len(s)] /\ (s \o t)[k] = t[k - Len(s)]
    BY <1>1, <1>3
  <2>2. QED BY <2>1 DEF Ordered
<1>4. CASE j <= Len(s) /\ k > Len(s)
  <2>1. /\ j \in DOMAIN s /\ (s \o t)[j] = s[j]
        /\ k - Len(s) \in DOMAIN t /\ (s \o t)[k] = t[k - Len(s)]
    BY <1>1, <1>4
  <2>2. s[j] \in ToSet(s) /\ t[k - Len(s)] \in ToSet(t)
    BY <2>1 DEF ToSet
  <2>3. QED BY <2>1, <2>2
<1>5. QED BY <1>1, <1>2, <1>3, <1>4

\* A step of the expansion that deals with the instances ns of path at, and adds
\* the pairs t to the result.
LEMMA StepOfExpansion ==
  ASSUME PlaceOK, AccountOK, Ordered(expanded), PlaceOK',
         pc \in Expanding, at <= Len(Path),
         NEW t \in Seq(Pairs), Ordered(t), expanded' = expanded \o t,
         NEW ns \in SUBSET Instance,
         \A i \in DOMAIN Path : \A n \in Instance :
            Passed(i, n)' <=> Passed(i, n) \/ (i = at /\ n \in ns),
         \A n \in ns : ~Passed(at, n),
         at' \in {at, at + 1},
         \A x \in ToSet(t) : /\ x.path = at
                             /\ IF x.ni = NoName THEN ~IsTemplate(at) /\ at' = at + 1
                                ELSE IsTemplate(at) /\ x.ni \in ns /\ ~Without(x),
         unprobed \subseteq unprobed',
         \A u \in unprobed' : u \in unprobed \/ (u.path = at /\ u.ni \in ns /\ u \notin ToSet(t)),
         \A n \in ns : IsTemplate(at) => \/ Pair(at, n) \in ToSet(t)
                                         \/ Without(Pair(at, n))
                                         \/ Pair(at, n) \in unprobed',
         at' = at + 1 /\ ~IsTemplate(at) => Pair(at, NoName) \in ToSet(t)
  PROVE  AccountOK' /\ Ordered(expanded')
<1> USE DEF Pairs
<1>1. /\ expanded \in Seq(Pairs) /\ at \in Nat
      /\ \A x \in ToSet(expanded) : x \in Pairs
      /\ \A x \in ToSet(t) : x \in Pairs
      /\ \A e : e \in ToSet(expanded') <=> e \in ToSet(expanded) \/ e \in ToSet(t)
  <2>1. expanded \in Seq(Pairs) /\ at \in Nat
    BY DEF PlaceOK
  <2> HIDE DEF Pairs
  <2>2. QED BY <2>1, ConcatPairs, ElementOfPairs
<1>2. \A x \in ToSet(expanded) : IF x.ni = NoName THEN ~IsTemplate(x.path) /\ x.path < at
                                 ELSE IsTemplate(x.path) /\ Passed(x.path, x.ni)
  BY DEF AccountOK
<1>3. \A x \in ToSet(expanded), y \in ToSet(t) : x.path <= y.path /\ x # y
  <2> SUFFICES ASSUME NEW x \in ToSet(expanded), NEW y \in ToSet(t)
               PROVE  x.path <= y.path /\ x # y
    OBVIOUS
  <2>1. x.path \in Nat /\ y.path = at /\ x.ni \in Instance \cup {NoName}
    BY <1>1
  <2>2. CASE x.path < at
    BY <1>1, <2>1, <2>2
  <2>3. CASE ~(x.path < at)
    <3>1. x.ni # NoName /\ IsTemplate(x.path) /\ Passed(x.path, x.ni)
      BY <1>2, <2>3
    <3>2. x.path = at
      BY <2>3, <3>1 DEF Passed
    <3>3. x # y
      BY <2>1, <3>1, <3>2
    <3>4. QED BY <1>1, <2>1, <3>2, <3>3
  <2>4. QED BY <2>2, <2>3
<1>4. Ordered(expanded')
  BY <1>1, <1>3, ConcatOrder
<1>5. \A x \in ToSet(expanded') : IF x.ni = NoName THEN ~IsTemplate(x.path) /\ x.path < at'
                                  ELSE IsTemplate(x.path) /\ Passed(x.path, x.ni)'
  BY <1>1, <1>2
<1>6. \A u \in unprobed' : u.ni \in Instance /\ Passed(u.path, u.ni)'
  BY <1>1 DEF AccountOK, PlaceOK
<1>7. ASSUME NEW w \in Wanted
      PROVE  /\ Passed(w.path, w.ni)' => w \in ToSet(expanded') \/ Without(w) \/ w \in unprobed'
             /\ ~(w \in ToSet(expanded') /\ (Without(w) \/ w \in unprobed'))
  <2>1. w.path \in DOMAIN Path /\ IsTemplate(w.path) /\ w.ni \in Instance /\ w.ni # NoName
        /\ w = Pair(w.path, w.ni)
    BY DiscoveryAssumption DEF Wanted, Pair
  <2>2. /\ Passed(w.path, w.ni) => w \in ToSet(expanded) \/ Without(w) \/ w \in unprobed
        /\ ~(w \in ToSet(expanded) /\ (Without(w) \/ w \in unprobed))
    BY DEF AccountOK
  <2>3. Passed(w.path, w.ni)' => w \in ToSet(expanded') \/ Without(w) \/ w \in unprobed'
    BY <1>1, <2>1, <2>2
  <2>4. CASE w \in ToSet(expanded)
    <3>1. Passed(w.path, w.ni)
      BY <1>2, <2>1, <2>4
    <3>2. w \notin unprobed'
      BY <2>2, <2>4, <3>1
    <3>3. QED BY <2>2, <2>3, <2>4, <3>2
  <2>5. CASE w \in ToSet(t)
    <3>1. w.path = at /\ w.ni \in ns /\ ~Without(w)
      BY <2>1, <2>5
    <3>2. w \notin unprobed
      BY <3>1 DEF AccountOK
    <3>3. QED BY <2>3, <2>5, <3>1, <3>2
  <2>6. QED BY <1>1, <2>3, <2>4, <2>5
<1>8. \A i \in DOMAIN Path : i < at' /\ ~IsTemplate(i) => Pair(i, NoName) \in ToSet(expanded')
  BY <1>1 DEF AccountOK
<1>9. AccountOK'
  BY <1>5, <1>6, <1>7, <1>8 DEF AccountOK, Without, IsTemplate, Wanted, Pair
<1>10. QED BY <1>4, <1>9

-----------------------------------------------------------------------------
(* Every step keeps the types and the place.                               *)

LEMMA PathType == Path \in Seq([template : BOOLEAN, bgp : BOOLEAN, enabled : BOOLEAN])
                  /\ Len(Path) \in Nat /\ DOMAIN Path = 1..Len(Path)
BY DiscoveryAssumption

\* The pairs a step may add.
LEMMA AddedPairs ==
  ASSUME PlaceOK
  PROVE  /\ \A i \in DOMAIN Path : Pair(i, NoName) \in Pairs
         /\ \A i \in DOMAIN Path, n \in Instance : Pair(i, n) \in Pairs
         /\ \A p \in Pairs : Append(expanded, p) \in Seq(Pairs) /\ Append(expanded, p) = expanded \o <<p>>
<1>1. expanded \in Seq(Pairs)
  BY DEF PlaceOK
<1>2. \A p \in Pairs : Append(expanded, p) \in Seq(Pairs) /\ Append(expanded, p) = expanded \o <<p>>
  BY <1>1
<1>3. QED BY <1>2 DEF Pairs, Pair

LEMMA PairsOfPath ==
  ASSUME Complete(names), NEW i \in DOMAIN Path
  PROVE  [k \in DOMAIN names |-> Pair(i, names[k])] \in Seq(Pairs)
<1>1. Len(names) \in Nat /\ DOMAIN names = 1..Len(names) /\ \A k \in 1..Len(names) : names[k] \in Instance
  BY DEF Complete
<1>2. \A k \in 1..Len(names) : Pair(i, names[k]) \in Pairs
  BY <1>1 DEF Pairs, Pair
<1> HIDE DEF Pairs, Pair
<1>3. QED BY <1>1, <1>2

LEMMA InitPlaceOK == Init => PlaceOK
BY PathType DEF Init, PlaceOK, Answers, Nothing, Expanding, Probing

\* The steps of the request for the instances.
LEMMA RequestPlaceOK ==
  ASSUME PlaceOK, Begin \/ GetNames \/ GetNothing \/ GetFails \/ OnceAnswers \/ OnceFails
                  \/ BlankOnceAnswers \/ BlankOnceFails \/ Extract
  PROVE  PlaceOK'
<1> USE PathType
<1>1. ASSUME Begin PROVE PlaceOK'
  <2>1. [i \in DOMAIN Path |-> [path |-> i, ni |-> NoName]] \in Seq(Pairs)
    BY DEF Pairs
  <2>2. QED BY <1>1, <2>1 DEF Begin, PlaceOK, Expanding, Probing
<1>2. ASSUME NEW us \in Answers, pc \in {"get", "once"}, Take(us),
             UNCHANGED <<names, at, ni, expanded, failure, unprobed>>
      PROVE  PlaceOK'
  BY <1>2 DEF Take, PlaceOK, Expanding, Probing
<1>3. CASE GetNames \/ GetNothing \/ OnceAnswers
  BY <1>2, <1>3 DEF GetNames, GetNothing, GetAnswers, OnceAnswers, OnceAnswer, Answers
<1>4. CASE GetFails \/ BlankOnceFails
  BY <1>4 DEF GetFails, BlankOnceFails, PlaceOK, Expanding, Probing
<1>5. CASE OnceFails
  BY <1>5 DEF OnceFails, Fatal, PlaceOK, Expanding, Probing
<1>6. CASE BlankOnceAnswers
  <2>1. notifs' \in Answers
    BY <1>6 DEF BlankOnceAnswers, OnceAnswer, Answers, PlaceOK
  <2>2. QED BY <1>6, <2>1 DEF BlankOnceAnswers, PlaceOK, Expanding, Probing
<1>7. CASE Extract
  <2>1. notifs' \in Answers
    BY <1>7 DEF Extract, Answers, Nothing
  <2>2. NamesOf(notifs) = <<>> \/ Complete(NamesOf(notifs))
    BY NamesEffect DEF PlaceOK
  <2>3. QED BY <1>7, <2>1, <2>2 DEF Extract, Fatal, PlaceOK, Expanding, Probing
<1>8. QED BY <1>1, <1>3, <1>4, <1>5, <1>6, <1>7

\* After the last of the instances of a path comes the next path.
LEMMA NextInstanceEffect ==
  ASSUME PlaceOK, pc \in Probing, NextInstance, UNCHANGED names
  PROVE  /\ at' \in 1..(Len(Path) + 1) /\ ni' \in Nat \ {0} /\ pc' \in Expanding /\ at' \in {at, at + 1}
         /\ pc' \in Probing => at' = at /\ ni' \in DOMAIN names
         /\ \A i \in DOMAIN Path, n \in Instance :
              Passed(i, n)' <=> Passed(i, n) \/ (i = at /\ n = names[ni])
         /\ names[ni] \in Instance /\ ~Passed(at, names[ni])
<1>1. /\ at \in 1..Len(Path) /\ ni \in 1..Len(names) /\ names \in Seq(Instance)
      /\ Len(names) \in Nat /\ DOMAIN names = 1..Len(names)
      /\ \A i, j \in DOMAIN names : i # j => names[i] # names[j]
      /\ \A n \in Instance : \E j \in DOMAIN names : names[j] = n
  BY PathType DEF PlaceOK, Complete, Expanding
<1>2. names[ni] \in Instance /\ ~Passed(at, names[ni])
  BY <1>1 DEF Passed
<1>3. CASE ni = Len(names)
  <2>1. pc' = "expand" /\ at' = at + 1 /\ ni' = 1
    BY <1>3 DEF NextInstance
  <2>2. ASSUME NEW i \in DOMAIN Path, NEW n \in Instance
        PROVE  Passed(i, n)' <=> Passed(i, n) \/ (i = at /\ n = names[ni])
    <3>1. Passed(i, n)' <=> i < at + 1
      BY <2>1 DEF Passed, Probing
    <3>2. i = at => Passed(i, n) \/ n = names[ni]
      BY <1>1, <1>3 DEF Passed
    <3>3. Passed(i, n) => i <= at
      BY <1>1, PathType DEF Passed
    <3>4. i \in Nat /\ (i < at => Passed(i, n))
      BY PathType DEF Passed
    <3>5. QED BY <1>1, <3>1, <3>2, <3>3, <3>4
  <2>3. QED BY <1>1, <1>2, <2>1, <2>2, PathType DEF Expanding, Probing
<1>4. CASE ni # Len(names)
  <2>1. pc' = "probe" /\ at' = at /\ ni' = ni + 1
    BY <1>4 DEF NextInstance
  <2>2. 1..(ni' - 1) = 1..(ni - 1) \cup {ni}
    BY <1>1, <2>1
  <2>3. ASSUME NEW i \in DOMAIN Path, NEW n \in Instance
        PROVE  Passed(i, n)' <=> Passed(i, n) \/ (i = at /\ n = names[ni])
    BY <2>1, <2>2 DEF Passed, Probing
  <2>4. ni' \in 1..Len(names)
    <3> DEFINE l == Len(names)
    <3>1. l \in Nat /\ ni \in 1..l /\ ni # l
      BY <1>1, <1>4
    <3> HIDE DEF l
    <3>2. ni + 1 \in 1..l
      BY <3>1
    <3>3. QED BY <2>1, <3>2 DEF l
  <2>5. QED BY <1>1, <1>2, <2>1, <2>3, <2>4, PathType DEF Expanding, Probing
<1>5. QED BY <1>3, <1>4

\* The steps of the expansion, and a new start.
LEMMA ExpansionPlaceOK ==
  ASSUME PlaceOK, PassThrough \/ ExpandAll \/ StartProbes \/ ProbeAnswers \/ ProbeFails
                  \/ ProbeOnceAnswers \/ ProbeOnceFails \/ Check \/ Restart
  PROVE  PlaceOK'
<1> USE PathType
<1>1. at \in Nat /\ expanded \in Seq(Pairs) /\ unprobed \subseteq Pairs /\ notifs \in Answers
  BY DEF PlaceOK
<1>2. CASE PassThrough
  <2>1. at \in DOMAIN Path /\ at + 1 \in 1..(Len(Path) + 1)
    BY <1>1, <1>2 DEF PassThrough, PlaceOK
  <2>2. expanded' \in Seq(Pairs)
    BY <1>2, <2>1, AddedPairs DEF PassThrough, Pair
  <2>3. QED BY <1>2, <2>1, <2>2 DEF PassThrough, PlaceOK, Expanding, Probing
<1>3. CASE ExpandAll
  <2>1. /\ at \in DOMAIN Path /\ at + 1 \in 1..(Len(Path) + 1)
        /\ Complete(names) /\ names # <<>>
    BY <1>1, <1>3 DEF ExpandAll, PlaceOK, Expanding
  <2>2. [k \in DOMAIN names |-> [path |-> at, ni |-> names[k]]] \in Seq(Pairs)
    BY <2>1, PairsOfPath DEF Pair
  <2>3. expanded' \in Seq(Pairs)
    BY <1>1, <1>3, <2>2 DEF ExpandAll
  <2>4. QED BY <1>3, <2>1, <2>3 DEF ExpandAll, PlaceOK, Expanding, Probing
<1>4. CASE StartProbes
  <2>1. 1 \in DOMAIN names
    BY <1>4 DEF StartProbes, PlaceOK, Expanding, Complete
  <2>2. QED BY <1>1, <1>4, <2>1 DEF StartProbes, PlaceOK, Expanding, Probing
<1>5. CASE ProbeFails
  BY <1>5 DEF ProbeFails, PlaceOK, Expanding, Probing
<1>6. CASE ProbeAnswers \/ ProbeOnceAnswers
  <2>1. pc \in Probing /\ NextInstance /\ UNCHANGED <<names, notifs, unprobed>>
    BY <1>6 DEF ProbeAnswers, ProbeOnceAnswers, ProbeAnswered, Probing
  <2>2. at \in DOMAIN Path /\ names[ni] \in Instance /\ Complete(names) /\ IsTemplate(at) /\ Path[at].bgp
    BY <2>1, NextInstanceEffect DEF PlaceOK, Expanding
  <2>3. expanded' \in Seq(Pairs)
    BY <1>1, <1>6, <2>2, AddedPairs DEF ProbeAnswers, ProbeOnceAnswers, ProbeAnswered, Pair
  <2>4. QED BY <1>1, <2>1, <2>2, <2>3, NextInstanceEffect DEF PlaceOK, Expanding, Probing
<1>7. CASE ProbeOnceFails
  <2>1. pc \in Probing /\ NextInstance /\ UNCHANGED <<names, notifs, expanded>>
    BY <1>7 DEF ProbeOnceFails, Probing
  <2>2. at \in DOMAIN Path /\ names[ni] \in Instance /\ Complete(names) /\ IsTemplate(at) /\ Path[at].bgp
    BY <2>1, NextInstanceEffect DEF PlaceOK, Expanding
  <2>3. unprobed' \subseteq Pairs
    BY <1>1, <1>7, <2>2, AddedPairs DEF ProbeOnceFails, Pair
  <2>4. QED BY <1>1, <2>1, <2>2, <2>3, NextInstanceEffect DEF PlaceOK, Expanding, Probing
<1>8. CASE Check
  BY <1>8 DEF Check, Fatal, PlaceOK, Expanding, Probing
<1>9. CASE Restart
  BY <1>9 DEF Restart, PlaceOK, Expanding, Probing, Answers, Nothing
<1>10. QED BY <1>2, <1>3, <1>4, <1>5, <1>6, <1>7, <1>8, <1>9

-----------------------------------------------------------------------------
(* Every step keeps the account.                                           *)

\* What a step may add: nothing, one pair, or the pairs of all the instances.
LEMMA OrderedAdditions ==
  /\ <<>> \in Seq(Pairs) /\ Ordered(<<>>) /\ ToSet(<<>>) = {}
  /\ \A p \in Pairs : <<p>> \in Seq(Pairs) /\ Ordered(<<p>>) /\ ToSet(<<p>>) = {p}
  /\ Complete(names) =>
       \A i \in DOMAIN Path :
         LET t == [k \in DOMAIN names |-> Pair(i, names[k])]
         IN  t \in Seq(Pairs) /\ Ordered(t) /\ ToSet(t) = {Pair(i, n) : n \in Instance}
<1>1. <<>> \in Seq(Pairs) /\ Ordered(<<>>) /\ ToSet(<<>>) = {}
  BY DEF Ordered, ToSet
<1>2. ASSUME NEW p \in Pairs
      PROVE  <<p>> \in Seq(Pairs) /\ Ordered(<<p>>) /\ ToSet(<<p>>) = {p}
  BY DEF Ordered, ToSet
<1>3. ASSUME Complete(names), NEW i \in DOMAIN Path
      PROVE  LET t == [k \in DOMAIN names |-> Pair(i, names[k])]
             IN  t \in Seq(Pairs) /\ Ordered(t) /\ ToSet(t) = {Pair(i, n) : n \in Instance}
  <2> DEFINE t == [k \in DOMAIN names |-> Pair(i, names[k])]
  <2>1. t \in Seq(Pairs)
    BY <1>3, PairsOfPath
  <2>2. Ordered(t)
    <3>1. i \in Nat
      BY PathType
    <3>2. QED BY <1>3, <3>1 DEF Ordered, Complete, Pair
  <2>3. ToSet(t) = {Pair(i, n) : n \in Instance}
    BY <1>3 DEF ToSet, Complete
  <2>4. QED BY <2>1, <2>2, <2>3
<1>4. QED BY <1>1, <1>2, <1>3

\* A path without a template is passed through with all it might stand for.
LEMMA PassThroughKeepsAccount ==
  ASSUME PlaceOK, AccountOK, Ordered(expanded), PlaceOK', PassThrough
  PROVE  AccountOK' /\ Ordered(expanded')
<1> DEFINE t == << Pair(at, NoName) >>
<1>1. /\ pc = "expand" /\ at <= Len(Path) /\ ~IsTemplate(at) /\ at' = at + 1
      /\ UNCHANGED <<pc, unprobed>> /\ pc \in Expanding /\ pc \notin Probing
      /\ at \in Nat /\ at \in DOMAIN Path
  BY PathType DEF PassThrough, PlaceOK, Expanding, Probing
<1>2. Pair(at, NoName) \in Pairs /\ t \in Seq(Pairs) /\ Ordered(t) /\ ToSet(t) = {Pair(at, NoName)}
  BY <1>1, AddedPairs, OrderedAdditions
<1>3. expanded' = expanded \o t
  BY <1>2, AddedPairs DEF PassThrough, Pair
<1> HIDE DEF t
<1>4. /\ \A i \in DOMAIN Path : \A n \in Instance :
           Passed(i, n)' <=> Passed(i, n) \/ (i = at /\ n \in Instance)
      /\ \A n \in Instance : ~Passed(at, n)
  BY <1>1, PathType DEF Passed
<1>5. \A x \in ToSet(t) : /\ x.path = at
                          /\ IF x.ni = NoName THEN ~IsTemplate(at) /\ at' = at + 1
                             ELSE IsTemplate(at) /\ x.ni \in Instance /\ ~Without(x)
  BY <1>1, <1>2 DEF Pair
<1>6. QED
  BY <1>1, <1>2, <1>3, <1>4, <1>5, StepOfExpansion

\* A template that is not about BGP is expanded for every instance.
LEMMA ExpandAllKeepsAccount ==
  ASSUME PlaceOK, AccountOK, Ordered(expanded), PlaceOK', ExpandAll
  PROVE  AccountOK' /\ Ordered(expanded')
<1> DEFINE t == [k \in DOMAIN names |-> Pair(at, names[k])]
<1>1. /\ pc = "expand" /\ at <= Len(Path) /\ IsTemplate(at) /\ ~Path[at].bgp /\ at' = at + 1
      /\ UNCHANGED <<pc, unprobed>> /\ pc \in Expanding /\ pc \notin Probing
      /\ at \in Nat /\ at \in DOMAIN Path /\ Complete(names)
  BY PathType DEF ExpandAll, PlaceOK, Expanding, Probing
<1>2. t \in Seq(Pairs) /\ Ordered(t) /\ ToSet(t) = {Pair(at, n) : n \in Instance}
  BY <1>1, OrderedAdditions
<1>3. expanded' = expanded \o t
  BY DEF ExpandAll, Pair
<1> HIDE DEF t
<1>4. /\ \A i \in DOMAIN Path : \A n \in Instance :
           Passed(i, n)' <=> Passed(i, n) \/ (i = at /\ n \in Instance)
      /\ \A n \in Instance : ~Passed(at, n)
  BY <1>1, PathType DEF Passed
<1>5. \A x \in ToSet(t) : /\ x.path = at
                          /\ IF x.ni = NoName THEN ~IsTemplate(at) /\ at' = at + 1
                             ELSE IsTemplate(at) /\ x.ni \in Instance /\ ~Without(x)
  BY <1>1, <1>2, DiscoveryAssumption DEF Pair, Without
<1>6. \A n \in Instance : Pair(at, n) \in ToSet(t)
  BY <1>2
<1>7. QED
  BY <1>1, <1>2, <1>3, <1>4, <1>5, <1>6, StepOfExpansion

\* An answered probe adds the instance, or finds that it has no BGP.
LEMMA ProbeAnsweredKeepsAccount ==
  ASSUME PlaceOK, AccountOK, Ordered(expanded), PlaceOK', pc \in Probing, ProbeAnswered
  PROVE  AccountOK' /\ Ordered(expanded')
<1> DEFINE n0 == names[ni]
           t == IF n0 \in HasBGP THEN << Pair(at, n0) >> ELSE <<>>
<1>1. /\ NextInstance /\ UNCHANGED <<names, unprobed>> /\ pc \in Expanding
      /\ at <= Len(Path) /\ at \in DOMAIN Path /\ IsTemplate(at) /\ Path[at].bgp
  BY PathType DEF ProbeAnswered, PlaceOK, Expanding
<1>2. /\ at' \in {at, at + 1} /\ n0 \in Instance /\ {n0} \in SUBSET Instance /\ n0 # NoName
      /\ \A i \in DOMAIN Path : \A n \in Instance :
           Passed(i, n)' <=> Passed(i, n) \/ (i = at /\ n \in {n0})
      /\ \A n \in {n0} : ~Passed(at, n)
  BY <1>1, NextInstanceEffect, DiscoveryAssumption
<1> HIDE DEF n0
<1>3. /\ t \in Seq(Pairs) /\ Ordered(t)
      /\ ToSet(t) = IF n0 \in HasBGP THEN {Pair(at, n0)} ELSE {}
  <2>1. Pair(at, n0) \in Pairs
    BY <1>1, <1>2, AddedPairs
  <2>2. QED BY <2>1, OrderedAdditions
<1>4. expanded' = expanded \o t
  <2>1. CASE n0 \in HasBGP
    <3>1. expanded' = Append(expanded, Pair(at, n0))
      BY <2>1 DEF ProbeAnswered, Pair, n0
    <3>2. QED BY <1>1, <1>2, <2>1, <3>1, AddedPairs
  <2>2. CASE n0 \notin HasBGP
    <3>1. expanded' = expanded /\ expanded \in Seq(Pairs)
      BY <2>2 DEF ProbeAnswered, PlaceOK, n0
    <3>2. QED BY <2>2, <3>1
  <2>3. QED BY <2>1, <2>2
<1> HIDE DEF t
<1>5. \A x \in ToSet(t) : /\ x.path = at
                          /\ IF x.ni = NoName THEN ~IsTemplate(at) /\ at' = at + 1
                             ELSE IsTemplate(at) /\ x.ni \in {n0} /\ ~Without(x)
  BY <1>1, <1>2, <1>3 DEF Pair, Without
<1>6. \A n \in {n0} : Pair(at, n) \in ToSet(t) \/ Without(Pair(at, n))
  BY <1>1, <1>3 DEF Pair, Without
<1>7. QED
  BY <1>1, <1>2, <1>3, <1>4, <1>5, <1>6, StepOfExpansion

\* A failed probe drops the instance from the path and records that.
LEMMA ProbeOnceFailsKeepsAccount ==
  ASSUME PlaceOK, AccountOK, Ordered(expanded), PlaceOK', ProbeOnceFails
  PROVE  AccountOK' /\ Ordered(expanded')
<1> DEFINE n0 == names[ni]
<1>1. /\ NextInstance /\ UNCHANGED names /\ pc \in Expanding /\ pc \in Probing
      /\ at <= Len(Path) /\ at \in DOMAIN Path /\ IsTemplate(at)
      /\ unprobed' = unprobed \cup {Pair(at, n0)}
  BY PathType DEF ProbeOnceFails, PlaceOK, Expanding, Probing, Pair
<1>2. /\ at' \in {at, at + 1} /\ n0 \in Instance /\ {n0} \in SUBSET Instance /\ n0 # NoName
      /\ \A i \in DOMAIN Path : \A n \in Instance :
           Passed(i, n)' <=> Passed(i, n) \/ (i = at /\ n \in {n0})
      /\ \A n \in {n0} : ~Passed(at, n)
  BY <1>1, NextInstanceEffect, DiscoveryAssumption
<1> HIDE DEF n0
<1>3. <<>> \in Seq(Pairs) /\ Ordered(<<>>) /\ ToSet(<<>>) = {}
  BY OrderedAdditions
<1>4. expanded' = expanded \o <<>>
  <2>1. expanded' = expanded /\ expanded \in Seq(Pairs)
    BY DEF ProbeOnceFails, PlaceOK
  <2>2. QED BY <2>1
<1>5. \A u \in unprobed' : u \in unprobed \/ (u.path = at /\ u.ni \in {n0} /\ u \notin ToSet(<<>>))
  BY <1>1, <1>3 DEF Pair
<1>6. \A n \in {n0} : Pair(at, n) \in unprobed'
  BY <1>1
<1>7. QED
  BY <1>1, <1>2, <1>3, <1>4, <1>5, <1>6, StepOfExpansion

\* Nothing is dealt with where probing starts or turns to Subscribe ONCE.
LEMMA ProbingKeepsAccount ==
  ASSUME PlaceOK, AccountOK, Ordered(expanded), StartProbes \/ ProbeFails
  PROVE  AccountOK' /\ Ordered(expanded')
<1>1. /\ pc \in Expanding /\ pc' \in Expanding /\ UNCHANGED <<at, names, expanded, unprobed>>
  BY DEF StartProbes, ProbeFails, Expanding, Probing
<1>2. ASSUME NEW i, NEW n PROVE Passed(i, n)' <=> Passed(i, n)
  <2>1. CASE StartProbes
    <3>1. pc = "expand" /\ ni' = 1 /\ 1..(1 - 1) = {}
      BY <2>1 DEF StartProbes
    <3>2. QED BY <1>1, <3>1 DEF Passed, Probing
  <2>2. CASE ProbeFails
    BY <1>1, <2>2 DEF ProbeFails, Passed, Probing
  <2>3. QED BY <2>1, <2>2
<1>3. AccountOK'
  BY <1>1, <1>2 DEF AccountOK, Without, IsTemplate, Wanted, Pair
<1>4. QED BY <1>1, <1>3

-----------------------------------------------------------------------------
(* The inductive invariant is one.                                         *)

LEMMA InitDiscovery == Init => DiscoveryInv
<1> SUFFICES ASSUME Init PROVE DiscoveryInv
  OBVIOUS
<1>1. PlaceOK
  BY InitPlaceOK
<1>2. AccountOK /\ ConfigOrder /\ InstancesAccounted
  BY DEF Init, AccountOK, ConfigOrder, InstancesAccounted, Expanding, Probing
<1>3. QED BY <1>1, <1>2 DEF DiscoveryInv

\* While the instances are asked for nothing is dealt with, and with none asked
\* for the configured paths are the result.
LEMMA RequestKeepsAccount ==
  ASSUME DiscoveryInv, Begin \/ GetNames \/ GetNothing \/ GetFails \/ OnceAnswers \/ OnceFails
                       \/ BlankOnceAnswers \/ BlankOnceFails \/ Extract
  PROVE  AccountOK' /\ ConfigOrder' /\ InstancesAccounted'
<1>1. PlaceOK /\ expanded = <<>> /\ unprobed = {} /\ at = 1
  BY DEF DiscoveryInv, PlaceOK, Begin, GetNames, GetNothing, GetAnswers, GetFails, OnceAnswers,
         OnceFails, BlankOnceAnswers, BlankOnceFails, Extract
<1>2. CASE Begin
  <2>1. CASE \E i \in DOMAIN Path : IsTemplate(i)
    <3>1. pc' = "get" /\ expanded' = <<>>
      BY <1>1, <1>2, <2>1 DEF Begin
    <3>2. QED BY <3>1 DEF AccountOK, ConfigOrder, InstancesAccounted, Expanding, Probing
  <2>2. CASE \A i \in DOMAIN Path : ~IsTemplate(i)
    <3>1. /\ pc' = "collecting"
          /\ expanded' = [i \in DOMAIN Path |-> Pair(i, NoName)]
      BY <1>2, <2>2 DEF Begin, Pair
    <3>2. AccountOK'
      BY <3>1 DEF AccountOK, Expanding, Probing
    <3>3. InstancesAccounted'
      BY <2>2 DEF InstancesAccounted, Wanted, IsTemplate
    <3>4. \A j, k \in DOMAIN expanded' : j < k => /\ expanded'[j].path <= expanded'[k].path
                                                  /\ expanded'[j] # expanded'[k]
      BY <3>1, PathType DEF Pair
    <3>5. \A i \in DOMAIN Path : Pair(i, NoName) \in ToSet(expanded')
      BY <3>1 DEF ToSet
    <3>6. QED BY <3>2, <3>3, <3>4, <3>5 DEF ConfigOrder, Pair
  <2>3. QED BY <2>1, <2>2
<1>3. CASE GetNames \/ GetNothing \/ GetFails \/ OnceAnswers \/ OnceFails
           \/ BlankOnceAnswers \/ BlankOnceFails
  <2>1. expanded' = <<>> /\ pc' \in {"once", "blank", "extract", "failed"}
    BY <1>1, <1>3 DEF GetNames, GetNothing, GetAnswers, GetFails, OnceAnswers, OnceFails,
                      BlankOnceAnswers, BlankOnceFails, Take, Fatal
  <2>2. QED BY <2>1 DEF AccountOK, ConfigOrder, InstancesAccounted, Expanding, Probing
<1>4. CASE Extract
  <2>1. expanded' = <<>> /\ unprobed' = {} /\ at' = 1 /\ pc' \in {"expand", "failed"}
    BY <1>1, <1>4 DEF Extract, Fatal
  <2>2. ToSet(expanded') = {}
    BY <2>1, OrderedAdditions
  <2>3. ConfigOrder' /\ InstancesAccounted'
    BY <2>1 DEF ConfigOrder, InstancesAccounted
  <2>4. \A i \in DOMAIN Path : ~(i < at')
    BY <2>1, PathType
  <2>5. \A w \in Wanted : ~Passed(w.path, w.ni)'
    BY <2>1, <2>4 DEF Passed, Probing, Wanted
  <2>6. AccountOK'
    BY <2>1, <2>2, <2>4, <2>5 DEF AccountOK, Wanted, IsTemplate
  <2>7. QED BY <2>3, <2>6
<1>5. QED BY <1>2, <1>3, <1>4

\* With the last path everything has been dealt with.
LEMMA CheckKeepsAccount ==
  ASSUME DiscoveryInv, Check
  PROVE  AccountOK' /\ ConfigOrder' /\ InstancesAccounted'
<1>1. /\ pc \in Expanding /\ at > Len(Path) /\ at \in Nat
      /\ pc' \in {"failed", "collecting"} /\ UNCHANGED <<expanded, unprobed>>
  BY PathType DEF Check, Fatal, Expanding, Probing, DiscoveryInv, PlaceOK
<1>2. \A i \in DOMAIN Path : i < at
  BY <1>1, PathType
<1>3. AccountOK'
  BY <1>1 DEF AccountOK, Expanding, Probing
<1>4. \A w \in Wanted : Passed(w.path, w.ni)
  BY <1>2 DEF Passed, Wanted
<1>5. InstancesAccounted'
  BY <1>1, <1>4 DEF DiscoveryInv, AccountOK, InstancesAccounted, Without, Wanted, IsTemplate
<1>6. \A i \in DOMAIN Path : ~IsTemplate(i) => Pair(i, NoName) \in ToSet(expanded)
  BY <1>1, <1>2 DEF DiscoveryInv, AccountOK
<1>7. ConfigOrder'
  BY <1>1, <1>6 DEF DiscoveryInv, ConfigOrder, Pair, IsTemplate
<1>8. QED BY <1>3, <1>5, <1>7

LEMMA StepDiscovery == DiscoveryInv /\ [Next]_vars => DiscoveryInv'
<1> SUFFICES ASSUME DiscoveryInv, [Next]_vars PROVE DiscoveryInv'
  OBVIOUS
<1>1. PlaceOK /\ AccountOK /\ Ordered(expanded)
  BY DEF DiscoveryInv, ConfigOrder, Ordered
<1>2. CASE Begin \/ GetNames \/ GetNothing \/ GetFails \/ OnceAnswers \/ OnceFails
           \/ BlankOnceAnswers \/ BlankOnceFails \/ Extract
  BY <1>1, <1>2, RequestPlaceOK, RequestKeepsAccount DEF DiscoveryInv
<1>3. CASE PassThrough \/ ExpandAll \/ StartProbes \/ ProbeAnswers \/ ProbeFails
           \/ ProbeOnceAnswers \/ ProbeOnceFails
  <2>1. PlaceOK' /\ pc \in Expanding
    BY <1>1, <1>3, ExpansionPlaceOK
       DEF Expanding, Probing, PassThrough, ExpandAll, StartProbes, ProbeAnswers, ProbeFails,
           ProbeOnceAnswers, ProbeOnceFails
  <2>2. AccountOK' /\ Ordered(expanded')
    BY <1>1, <1>3, <2>1, PassThroughKeepsAccount, ExpandAllKeepsAccount, ProbeAnsweredKeepsAccount,
       ProbeOnceFailsKeepsAccount, ProbingKeepsAccount
       DEF ProbeAnswers, ProbeOnceAnswers, Probing
  <2>3. pc' # "collecting"
    BY <1>3 DEF PassThrough, ExpandAll, StartProbes, ProbeAnswers, ProbeFails,
                ProbeOnceAnswers, ProbeOnceFails, ProbeAnswered, NextInstance
  <2>4. QED BY <2>1, <2>2, <2>3 DEF DiscoveryInv, ConfigOrder, InstancesAccounted, Ordered
<1>4. CASE Check
  BY <1>1, <1>4, ExpansionPlaceOK, CheckKeepsAccount DEF DiscoveryInv
<1>5. CASE Restart
  <2>1. AccountOK' /\ ConfigOrder' /\ InstancesAccounted'
    BY <1>5 DEF Restart, AccountOK, ConfigOrder, InstancesAccounted, Expanding, Probing
  <2>2. QED BY <1>1, <1>5, <2>1, ExpansionPlaceOK DEF DiscoveryInv
<1>6. CASE UNCHANGED vars
  BY <1>6 DEF vars, DiscoveryInv, PlaceOK, AccountOK, ConfigOrder, InstancesAccounted, Passed,
              Complete, Without, Wanted, IsTemplate
<1>7. QED BY <1>2, <1>3, <1>4, <1>5, <1>6, DiscoverySteps

\* Whatever the switch answers and whichever requests fail, what has been dealt
\* with is accounted for: a lost or a repeated pair cannot come of any order of
\* failing probes.
THEOREM DiscoveryInvariant == Spec => []DiscoveryInv
<1>1. Init => DiscoveryInv
  BY InitDiscovery
<1>2. DiscoveryInv /\ [Next]_vars => DiscoveryInv'
  BY StepDiscovery
<1>3. QED BY <1>1, <1>2, PTL DEF Spec

\* When collection starts every pair of an enabled template and an instance is
\* collected, or is about BGP where there is none, or its probe has failed; and
\* only one of these (DiscoverAndExpand).
THEOREM AllInstancesAccounted == Spec => []InstancesAccounted
<1>1. DiscoveryInv => InstancesAccounted
  BY DEF DiscoveryInv
<1>2. QED BY <1>1, DiscoveryInvariant, PTL

\* The result has the paths in the order of the configuration and none twice,
\* and keeps every path that needs no expansion.
THEOREM ResultInConfigOrder == Spec => []ConfigOrder
<1>1. DiscoveryInv => ConfigOrder
  BY DEF DiscoveryInv
<1>2. QED BY <1>1, DiscoveryInvariant, PTL
=============================================================================
