-------------------------------- MODULE Routing --------------------------------
(***************************************************************************)
(* How RunStream hands a normalized notification to the transformers: one  *)
(* subscription per enabled path, and drillDownToSubscribedPath for each.  *)
(***************************************************************************)
EXTENDS Normalize

CONSTANTS Sub   \* the enabled paths, parsed

Unkeyed(p) == [i \in DOMAIN p |-> [name |-> p[i].name, sel |-> <<>>]]

-----------------------------------------------------------------------------
(* drillDownToSubscribedPath and drillIntoMap.  The path of the update is  *)
(* compared without its keys, the subscribed path with its own.            *)

AtPath(u, sp) == IF Unkeyed(u.path) = sp THEN {u} ELSE {}

\* The value is wrapped in the segments that are missing.
BelowPath(u, sp) ==
  IF ~IsStrictPrefix(sp, Unkeyed(u.path)) THEN {} ELSE
  LET missing == Plain(Names(SubSeq(u.path, Len(sp) + 1, Len(u.path))))
  IN  {[path |-> sp, tree |-> [at \in {missing \o p : p \in DOMAIN u.tree} |->
                                 u.tree[SubSeq(at, Len(missing) + 1, Len(at))]]]}

\* Seeded fault: the most common of the three is not looked for.
EntityKeysNameless == <<"id", "index">>

EntityKeys == <<"name", "id", "index">>

\* getEntityName: the element at a position names itself by one of three keys.
EntityName(tree, at) ==
  LET own == {k \in DOMAIN EntityKeys : Append(at, <<EntityKeys[k], 0>>) \in DOMAIN tree}
  IN  IF own = {} THEN <<>> ELSE << <<"name", tree[Append(at, <<EntityKeys[Min(own)], 0>>)]>> >>

\* Every position the remaining segments lead to is an update of its own.
AbovePath(u, sp) ==
  IF ~IsStrictPrefix(Unkeyed(u.path), sp) \/ <<>> \in DOMAIN u.tree THEN {} ELSE
  LET rest  == SubSeq(sp, Len(u.path) + 1, Len(sp))
      sel(at, j) == IF at[j][2] = 0 THEN <<>> ELSE EntityName(u.tree, SubSeq(at, 1, j))
      found == {at \in UNION {Prefixes(p) : p \in DOMAIN u.tree} :
                  /\ Len(at) = Len(rest)
                  /\ \A j \in DOMAIN at : rest[j] = [name |-> at[j][1], sel |-> <<>>]}
  IN  {[path |-> u.path \o [j \in DOMAIN at |-> [name |-> at[j][1], sel |-> sel(at, j)]],
        tree |-> [p \in {SubSeq(q, Len(at) + 1, Len(q)) : q \in {r \in DOMAIN u.tree : IsPrefix(at, r)}}
                    |-> u.tree[at \o p]]] : at \in found}

\* Seeded fault: an update above the subscribed path is not drilled into.
drillDownShallow(us, sp) == UNION {AtPath(u, sp) \cup BelowPath(u, sp) : u \in us}

\* What of the updates us a subscribed path sp is given.
drillDownToSubscribedPath(us, sp) ==
  UNION {AtPath(u, sp) \cup BelowPath(u, sp) \cup AbovePath(u, sp) : u \in us}

Delivered(i) == drillDownToSubscribedPath(Normalized, Sub[i])

-----------------------------------------------------------------------------
(* Properties.                                                             *)

\* The subscribed paths have no keys: a path with one is never delivered.
PlainSubs == \A i \in DOMAIN Sub : Sub[i] \in Seq([name : STRING, sel : {<<>>}])

\* Every list is keyed by the name of its entries: EntityName calls the first
\* key it finds "name".
NameKeyed == \A l \in Leaves : \A i \in DOMAIN l.path : \A kv \in l.path[i].keys : kv[1] = "name"

Wanted(l, i) == IsPrefix(Names(Sub[i]), FullNames(l))

\* A transformer gets the leaves below its path, at their places, and nothing
\* else but keys of list entries: as one tree, as single leaves, or from a
\* response about all paths.
RoutedExactly ==
  SlashFree => \A i \in DOMAIN Sub :
    /\ \A j \in DOMAIN sent : Wanted(sent[j], i) => \E d \in Delivered(i) : Carries(d, sent[j]) # {}
    /\ \A d \in Delivered(i) : \A at \in DOMAIN d.tree :
         \E j \in DOMAIN sent : \/ Wanted(sent[j], i) /\ at \in Carries(d, sent[j])
                                \/ HoldsKey(d, at, sent[j])

\* What is delivered at or above a subscribed path, a leaf or a key, is under the
\* keys it was reported with, after they were stripped to compare the paths and
\* put back from the list elements that were entered.
EntityKept ==
  SlashFree => \A i \in DOMAIN Sub : \A u \in Normalized :
    \A d \in AtPath(u, Sub[i]) \cup AbovePath(u, Sub[i]) : \A at \in DOMAIN d.tree :
      \E j \in DOMAIN sent : \E f \in FactsOf(sent[j]) :
        /\ d.tree[at] = f.val /\ Names(d.path) \o StepNames(at) = Names(f.at)
        /\ Tells(d, at, f.at)
=============================================================================
