------------------------------- MODULE Normalize -------------------------------
(***************************************************************************)
(* What internal/gnmi/client.go does to a Subscribe response before a      *)
(* transformer sees it: the paths of its updates are printed               *)
(* (pathToString, joinPaths), and its leaf updates are folded into one     *)
(* tree below their common prefix (NormalizeSubscribeNotifications).       *)
(*                                                                         *)
(* A path of the switch is a sequence of elements, each a name and a set   *)
(* of keys.  Its text is a sequence of segments: the name, and the keys in *)
(* the order in which they were printed, which is that of a Go map.  Only  *)
(* the number of slashes in the text of a key value matters here.          *)
(*                                                                         *)
(* A tree is a function from the positions of its scalars to their values. *)
(* A position is a sequence of steps: <<name, 0>> enters the value of a    *)
(* map key, <<name, i>> the i-th element of the array that is its value.   *)
(***************************************************************************)
EXTENDS Naturals, SequencesExt

\* An element of a path of the switch.
Element == [name : STRING, keys : SUBSET (STRING \X STRING)]

CONSTANTS Leaves,     \* what the switch may report: [path, below, val]; val is
                      \* a scalar, wrapped in maps with the keys of below
          Slashes,    \* Slashes[v]: number of "/" in the key value v
          MaxUpdates  \* bound on the updates of a response

\* A list entry is a container: what is reported at its path is a map.
ASSUME NormalizeAssumption ==
  /\ MaxUpdates \in Nat
  /\ \A l \in Leaves :
       /\ l.path \in Seq(Element) /\ l.path # <<>> /\ l.below \in Seq(STRING)
       /\ \A i \in DOMAIN l.path : IsFiniteSet(l.path[i].keys)
       /\ Last(l.path).keys # {} => l.below # <<>>

VARIABLES sent,       \* leaves of the response, in order
          text        \* text[i]: printed path of the i-th

Names(p) == [i \in DOMAIN p |-> p[i].name]
Plain(names) == [i \in DOMAIN names |-> <<names[i], 0>>]
StepNames(at) == [i \in DOMAIN at |-> at[i][1]]

-----------------------------------------------------------------------------
(* pathToString and decodeSubscribeResponseWithPrefix.                     *)

\* The texts a path may be printed as.
pathToString(path) ==
  LET orders == UNION {SetToSeqs(path[i].keys) : i \in DOMAIN path}
  IN  {[i \in DOMAIN path |-> [name |-> path[i].name, sel |-> o[i]]] :
         o \in {f \in [DOMAIN path -> orders] : \A i \in DOMAIN path : ToSet(f[i]) = path[i].keys}}

\* The prefix of the notification is printed once, each update on its own.
Printed(ls, n) ==
  LET pre  == pathToString(SubSeq(ls[1].path, 1, n))
      rest == [i \in DOMAIN ls |-> pathToString(SubSeq(ls[i].path, n + 1, Len(ls[i].path)))]
  IN  {[i \in DOMAIN ls |-> p \o r[i]] :
         p \in pre, r \in {f \in [DOMAIN ls -> UNION {rest[i] : i \in DOMAIN ls}] :
                              \A i \in DOMAIN ls : f[i] \in rest[i]}}

Shared(ls) == Len(LongestCommonPrefix({Front(ls[i].path) : i \in DOMAIN ls}))

Updates == [i \in DOMAIN sent |-> [path |-> text[i], below |-> sent[i].below, val |-> sent[i].val]]

-----------------------------------------------------------------------------
(* setNestedValue.                                                         *)

\* Positions at or below key name of the map at position at.
Under(tree, at, name) ==
  {p \in DOMAIN tree : Len(p) > Len(at) /\ IsPrefix(at, p) /\ p[Len(at) + 1][1] = name}

IsMap(tree, at, name) ==
  \E p \in Under(tree, at, name) : Len(p) > Len(at) + 1 /\ p[Len(at) + 1][2] = 0

Elements(tree, at, name) == {p[Len(at) + 1][2] : p \in Under(tree, at, name)} \ {0}

Without(tree, positions) == Restrict(tree, DOMAIN tree \ positions)

\* m[name] = value, for a value with one scalar val under the keys below.
Assign(tree, at, name, below, val) ==
  LET place == Append(at, <<name, 0>>) \o Plain(below)
  IN  [p \in {place} \cup (DOMAIN tree \ Under(tree, at, name)) |->
         IF p = place THEN val ELSE tree[p]]

\* A plain segment on the way down: a value that is no map gives way to one.
EnterMap(pos, seg) ==
  [tree |-> IF IsMap(pos.tree, pos.at, seg.name) THEN pos.tree
            ELSE Without(pos.tree, Under(pos.tree, pos.at, seg.name)),
   at   |-> Append(pos.at, <<seg.name, 0>>)]

\* A list segment: the element whose first printed key has this value is
\* found or appended; a value that is no array gives way to one.
\* Seeded fault: the value of the key is not compared.
EnterFirstElement(pos, seg) ==
  LET none == Elements(pos.tree, pos.at, seg.name) = {}
      at   == Append(pos.at, <<seg.name, 1>>)
  IN  [at |-> at, tree |-> IF none THEN Assign(pos.tree, at, seg.sel[1][1], <<>>, seg.sel[1][2])
                                   ELSE pos.tree]

EnterElement(pos, seg) ==
  LET k     == seg.sel[1][1]
      v     == seg.sel[1][2]
      elems == Elements(pos.tree, pos.at, seg.name)
      key(i) == pos.at \o << <<seg.name, i>>, <<k, 0>> >>
      found == {i \in elems : key(i) \in DOMAIN pos.tree /\ pos.tree[key(i)] = v}
      base  == IF elems # {} THEN pos.tree
               ELSE Without(pos.tree, Under(pos.tree, pos.at, seg.name))
      i     == IF found # {} THEN Min(found) ELSE Cardinality(elems) + 1
      at    == Append(pos.at, <<seg.name, i>>)
  IN  [at |-> at, tree |-> IF found # {} THEN base ELSE Assign(base, at, k, <<>>, v)]

Enter(pos, seg) == IF seg.sel = <<>> THEN EnterMap(pos, seg) ELSE EnterElement(pos, seg)

\* The last segment: at a list element a map is merged into it, a scalar
\* takes the place of its key.
setNestedValue(tree, parts, below, val) ==
  LET here == FoldLeft(Enter, [tree |-> tree, at |-> <<>>], Front(parts))
      last == Last(parts)
      elem == EnterElement(here, last)
  IN  IF last.sel = <<>> THEN Assign(here.tree, here.at, last.name, below, val)
      ELSE IF below # <<>> THEN Assign(elem.tree, elem.at, Head(below), Tail(below), val)
      ELSE Assign(elem.tree, elem.at, last.sel[1][1], <<>>, val)

-----------------------------------------------------------------------------
(* NormalizeSubscribeNotifications.                                        *)

commonPathPrefix(us) == LongestCommonPrefix({us[i].path : i \in DOMAIN us})

\* Pieces of a segment when its text is split at every slash.
Pieces(seg) == 1 + FoldLeft(LAMBDA n, kv : n + Slashes[kv[2]], 0, seg.sel)

\* Seeded fault: the last segment of the prefix is kept.
prefixLenShort(prefix) == IF prefix = <<>> THEN 0 ELSE Len(prefix) - 1

AddPieces(n, seg) == n + Pieces(seg)

prefixLen(prefix) == FoldLeft(AddPieces, 0, prefix)

\* The part of an update below a prefix of n segments, empty if it has no more.
Relative(u, n) == [u EXCEPT !.path = SubSeq(@, n + 1, Len(@))]

AddUpdate(tree, u) ==
  IF u.path = <<>> THEN tree ELSE setNestedValue(tree, u.path, u.below, u.val)

buildTreeFromUpdates(us) ==
  LET n == prefixLen(commonPathPrefix(us))
  IN  FoldLeft(AddUpdate, <<>>, [i \in DOMAIN us |-> Relative(us[i], n)])

hasLeafUpdates(us) ==
  Len(us) > 1 /\ 2 * Cardinality({i \in DOMAIN us : us[i].below = <<>>}) > Len(us)

NormalizeSubscribeNotifications(us) ==
  IF hasLeafUpdates(us)
  THEN <<[path |-> commonPathPrefix(us), tree |-> buildTreeFromUpdates(us)]>>
  ELSE [i \in DOMAIN us |-> [path |-> us[i].path, tree |-> [at \in {Plain(us[i].below)} |-> us[i].val]]]

Normalized == ToSet(NormalizeSubscribeNotifications(Updates))

-----------------------------------------------------------------------------
Init == sent = <<>> /\ text = <<>>

\* The switch reports any of its leaves, with or without a prefix.
Receive ==
  sent = <<>> /\ \E ls \in UNION {TupleOf(Leaves, n) : n \in 1..MaxUpdates} :
    /\ \A i, j \in DOMAIN ls : i # j => ls[i] # ls[j]
    /\ \E n \in {0, Shared(ls)} : text' \in Printed(ls, n)
    /\ sent' = ls

\* The handler returns; nothing is kept from one response to the next.
Return == sent # <<>> /\ sent' = <<>> /\ text' = <<>>

Next == Receive \/ Return

Spec == Init /\ [][Next]_<<sent, text>>

-----------------------------------------------------------------------------
(* Properties.                                                             *)

FullNames(l) == Names(l.path) \o l.below

\* Update u holds the value of leaf l at the place of l.
Carries(u, l) == {at \in DOMAIN u.tree : /\ u.tree[at] = l.val
                                         /\ Names(u.path) \o StepNames(at) = FullNames(l)}

\* The keys on the place of a scalar can be read off the path of u, or the list
\* elements that lead to its position.
Tells(u, at, place) ==
  \A i \in DOMAIN place : \A kv \in place[i].keys :
    IF i <= Len(u.path) THEN kv \in ToSet(u.path[i].sel)
    ELSE LET q == Append(SubSeq(at, 1, i - Len(u.path)), <<kv[1], 0>>)
         IN  q \in DOMAIN u.tree /\ u.tree[q] = kv[2]

Identified(u, at, l) == Tells(u, at, l.path)

\* Position at of u holds a key of leaf l, in the list entry it belongs to.
HoldsKey(u, at, l) ==
  \E j \in DOMAIN l.path : \E kv \in l.path[j].keys :
    /\ Names(u.path) \o StepNames(at) = Append(Names(SubSeq(l.path, 1, j)), kv[1])
    /\ u.tree[at] = kv[2]

\* The scalars below the root that the leaves stand for: their own, and the
\* keys of the list entries on their paths.
Place(l) == l.path \o [i \in DOMAIN l.below |-> [name |-> l.below[i], keys |-> {}]]

KeyPlace(entry, kv) == Append(entry, [name |-> kv[1], keys |-> {}])

FactsOf(l) ==
  {[at |-> Place(l), val |-> l.val]} \cup
  UNION {{[at |-> KeyPlace(SubSeq(l.path, 1, i), kv), val |-> kv[2]] : kv \in l.path[i].keys} :
           i \in DOMAIN l.path}

Facts == UNION {FactsOf(l) : l \in Leaves}

\* The leaves are those of a tree: a list entry has one key (the code reads the
\* first that was printed), no update is at or above the place of another, a
\* key that is reported as a leaf too has the same value there, and what has
\* one name in one place is one list, or none.
WellFormed ==
  /\ \A l \in Leaves : \A i \in DOMAIN l.path : \A kv, kw \in l.path[i].keys : kv = kw
  /\ \A l, m \in Leaves : IsPrefix(l.path, Place(m)) => l = m
  /\ \A f, g \in Facts : IsPrefix(f.at, g.at) => f = g
  /\ \A f, g \in Facts : \A i \in DOMAIN f.at \cap DOMAIN g.at :
       SubSeq(f.at, 1, i - 1) = SubSeq(g.at, 1, i - 1) /\ f.at[i].name = g.at[i].name =>
         {kv[1] : kv \in f.at[i].keys} = {kv[1] : kv \in g.at[i].keys}

\* The segments of the common prefix are counted right if no key value in it
\* has a slash; a slash in any other segment does no harm.
SlashFree == hasLeafUpdates(Updates) => \A seg \in ToSet(commonPathPrefix(Updates)) : Pieces(seg) = 1

\* Every leaf of a response is in the normalized notification, at its place
\* and with the entity it belongs to, whatever the order of the updates.
FactsPreserved ==
  SlashFree => \A i \in DOMAIN sent : \E u \in Normalized : \E at \in Carries(u, sent[i]) :
    Identified(u, at, sent[i])

\* Every value of the normalized notification is that of a leaf of the
\* response, or of a key of one: no value moves to another place.
NothingInvented ==
  SlashFree => \A u \in Normalized : \A at \in DOMAIN u.tree :
    \E i \in DOMAIN sent :
      at \in Carries(u, sent[i]) \/ HoldsKey(u, at, sent[i])
=============================================================================
