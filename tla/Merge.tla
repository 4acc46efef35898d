--------------------------------- MODULE Merge ---------------------------------
(***************************************************************************)
(* mergeByDataType of internal/collector/collector.go, and the flush       *)
(* window it is applied to in subscribe mode (flushBatch) and, with a      *)
(* window that is a whole poll, in RunOnce.                                *)
(*                                                                         *)
(* An entry is what one transformer made of one update of one source: its  *)
(* data type and, unless the message is not a map, the fields it carries.  *)
(* A field holds the number of the sample it comes from, which is all it   *)
(* takes to see one sample overwrite another.                              *)
(***************************************************************************)
EXTENDS Integers, SequencesExt

CONSTANTS Source,      \* enabled paths whose entries go to the same table
          TypeOf,      \* TypeOf[s]: data type of the entries of s
          FieldsOf,    \* FieldsOf[s]: keys of their message maps
          StructSource,\* sources whose message is not a map
          Repeats,     \* sources with several entries per window (list paths,
                       \* or a sample interval below the flush interval)
          MaxWindow,   \* bound on the entries of a window
          MaxSample    \* bound on the samples of a behaviour

ASSUME MergeAssumption == /\ StructSource \subseteq Source /\ Repeats \subseteq Source
                          /\ {MaxWindow, MaxSample} \subseteq Nat

VARIABLES window,      \* entries of the batch, in order of arrival
          sample,      \* number of entries so far
          flushed      \* the last window flushed and the rows made of it

mergeVars == <<window, sample, flushed>>

Entry(s, n) == [type |-> TypeOf[s], src |-> s, n |-> n, map |-> s \notin StructSource,
                msg |-> [f \in FieldsOf[s] |-> n]]

-----------------------------------------------------------------------------
(* mergeByDataType.                                                        *)

\* The loop that groups: of[t] are the entries of data type t, order the data
\* types in order of first appearance.
AddEntry(g, e) ==
  IF e.type \in DOMAIN g.of
  THEN [g EXCEPT !.of[e.type] = Append(@, e)]
  ELSE [order |-> Append(g.order, e.type),
        of    |-> [t \in DOMAIN g.of \cup {e.type} |-> IF t = e.type THEN <<e>> ELSE g.of[t]]]

Groups(entries) == FoldLeft(AddEntry, [order |-> <<>>, of |-> <<>>], entries)

\* Seeded fault: entries that share fields are merged all the same.
NeverOverlap(group) == FALSE

\* Only the first two entries are compared.
MapsOverlap(group) == /\ Len(group) >= 2
                      /\ DOMAIN group[1].msg \cap DOMAIN group[2].msg # {}

AllMaps(group) == \A i \in DOMAIN group : group[i].map

\* Later entries write over the fields of the first.
Over(f, g) == [k \in DOMAIN f \cup DOMAIN g |-> IF k \in DOMAIN g THEN g[k] ELSE f[k]]

OverEntry(m, e) == Over(m, e.msg)

Combine(group) == [Head(group) EXCEPT !.msg = FoldLeft(OverEntry, @, Tail(group))]

Rows(group) ==
  IF Len(group) > 1 /\ AllMaps(group) /\ ~MapsOverlap(group) THEN <<Combine(group)>> ELSE group

mergeByDataType(entries) ==
  LET g == Groups(entries)
  IN  FlattenSeq([i \in DOMAIN g.order |-> Rows(g.of[g.order[i]])])

-----------------------------------------------------------------------------
MergeInit == window = <<>> /\ sample = 0 /\ flushed = [in |-> <<>>, out |-> <<>>]

\* The handler adds an entry to the batch.
Arrive(s) ==
  /\ Len(window) < MaxWindow /\ sample < MaxSample
  /\ s \in Repeats \/ \A i \in DOMAIN window : window[i].src # s
  /\ sample' = sample + 1
  /\ window' = Append(window, Entry(s, sample'))
  /\ UNCHANGED flushed

\* The batch is drained, merged and posted, at any moment.
Flush ==
  /\ window # <<>>
  /\ flushed' = [in |-> window, out |-> mergeByDataType(window)]
  /\ window' = <<>>
  /\ UNCHANGED sample

\* The bound on the samples is reached and the last batch is flushed.
Done == sample = MaxSample /\ window = <<>> /\ UNCHANGED mergeVars

MergeNext == (\E s \in Source : Arrive(s)) \/ Flush \/ Done

MergeSpec == MergeInit /\ [][MergeNext]_mergeVars

-----------------------------------------------------------------------------
(* Properties.                                                             *)

\* What the comment of mergeByDataType assumes of a data type: its maps are
\* fragments of one row, each once in a window, or they are about entities, and
\* share a key.
Maps(t)      == {s \in Source \ StructSource : TypeOf[s] = t}
Fragments(t) == \A s, u \in Maps(t) : FieldsOf[s] \cap FieldsOf[u] # {} => s = u /\ s \notin Repeats
Entities(t)  == \A s, u \in Maps(t) : FieldsOf[s] \cap FieldsOf[u] # {}

OneKind == \A s \in Source : Fragments(TypeOf[s]) \/ Entities(TypeOf[s])

In  == flushed.in
Out == flushed.out

\* No sampled value is overwritten by the merge: each field of each entry is
\* in a row of its type, with its own value.  (In a window in which a source of
\* a row of several sources repeats it may be: see the README.)
NoFieldLost ==
  \A e \in ToSet(In) : \A f \in DOMAIN e.msg :
    \E r \in ToSet(Out) : r.type = e.type /\ f \in DOMAIN r.msg /\ r.msg[f] = e.msg[f]

\* "If any pair of maps shares a key, the entries represent separate entities
\* and must be kept apart" (collector.go:189): both come out as they came in.  This
\* needs OneKind, or the entries of a group to be compared pair by pair.
KeptApart ==
  \A i, j \in DOMAIN In :
    i # j /\ In[i].type = In[j].type /\ DOMAIN In[i].msg \cap DOMAIN In[j].msg # {}
      => In[i] \in ToSet(Out) /\ In[j] \in ToSet(Out)
=============================================================================
