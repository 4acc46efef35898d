-------------------------------- MODULE Values --------------------------------
(***************************************************************************)
(* The decoded values the transformers work on, and the accessors of       *)
(* internal/transform/common.go that read them.                            *)
(*                                                                         *)
(* A value is a record with a field is: a map, a list, a leaf, a Boolean   *)
(* leaf, or a float that NX-OS encodes in base64.  A reading is a tuple,   *)
(* and Zero stands for the zero value of every type: "", 0 and false look  *)
(* alike in a row.  The path of an update is the sequence of the keys that *)
(* are printed in it, each with its value.                                 *)
(***************************************************************************)
EXTENDS Naturals, SequencesExt

Zero == <<>>
Nil  == [is |-> "nil"]     \* a nil map or slice

Map(f)     == [is |-> "map", at |-> f]
List(s)    == [is |-> "list", of |-> s]
Leaf(v)    == [is |-> "leaf", v |-> v]
Flag(v)    == [is |-> "bool", v |-> v]      \* true if v is not Zero
Encoded(v) == [is |-> "base64", v |-> v]

IsMap(v)  == v.is = "map"
IsList(v) == v.is = "list"

Has(m, k) == IsMap(m) /\ k \in DOMAIN m.at

-----------------------------------------------------------------------------
(* Accessors.                                                              *)

\* A float is not decoded, a map or list is formatted.
GetString(m, k) ==
  IF ~Has(m, k) THEN Zero
  ELSE IF m.at[k].is \in {"leaf", "bool"} THEN m.at[k].v ELSE <<m.at[k].is>>

GetFirstString(m, keys) ==
  LET hits == SelectSeq(keys, LAMBDA k : GetString(m, k) # Zero)
  IN  IF hits = <<>> THEN Zero ELSE GetString(m, Head(hits))

GetInt64(m, k) == IF Has(m, k) /\ m.at[k].is = "leaf" THEN m.at[k].v ELSE Zero

GetFloat(m, k) == IF Has(m, k) /\ m.at[k].is \in {"leaf", "base64"} THEN m.at[k].v ELSE Zero

GetBool(m, k) == IF Has(m, k) /\ m.at[k].is = "bool" THEN m.at[k].v ELSE Zero

GetMap(m, k) == IF Has(m, k) /\ IsMap(m.at[k]) THEN m.at[k] ELSE Nil

GetSlice(m, k) == IF Has(m, k) /\ IsList(m.at[k]) THEN m.at[k] ELSE Nil

\* The state container if there is one, or the map itself.
StateOr(m) == IF GetMap(m, "state") = Nil THEN m ELSE GetMap(m, "state")

\* A list node comes as an array of maps, a container as a map.
AsMapSlice(v) == IF IsMap(v) THEN <<v>> ELSE IF IsList(v) THEN SelectSeq(v.of, IsMap) ELSE <<>>

At(m, k) == IF Has(m, k) THEN m.at[k] ELSE Nil

\* The first key of that name, whichever list it belongs to.
extractKey(path, key) ==
  LET hits == SelectSeq(path, LAMBDA k : k[1] = key) IN IF hits = <<>> THEN Zero ELSE Head(hits)[2]

-----------------------------------------------------------------------------
(* Interface names: a prefix and the rest.                                 *)

NormalizeInterfaceName(name) ==
  IF name = Zero THEN Zero
  ELSE << CASE name[1] = "eth"          -> "Eth"
            [] name[1] = "vlan"         -> "Vlan"
            [] name[1] = "port-channel" -> "Po"
            [] OTHER                    -> name[1], name[2] >>

InterfaceType(name) ==
  IF name = Zero THEN "other"
  ELSE CASE name[1] \in {"eth", "Eth", "Ethernet"}             -> "ethernet"
         [] name[1] \in {"port-channel", "Po", "PortChannel"}  -> "port-channel"
         [] name[1] \in {"vlan", "Vlan"}                       -> "vlan"
         [] name[1] = "lo"                                     -> "loopback"
         [] OTHER                                              -> "other"

-----------------------------------------------------------------------------
(* The loops every Transform has.                                          *)

\* What Msgs makes of the value of an update, if it is a map.
OfMap(v, Msgs(_)) == IF IsMap(v) THEN Msgs(v) ELSE <<>>

\* What Msgs makes of the maps of a sequence.
OfEach(maps, Msgs(_)) == FlattenSeq([i \in DOMAIN maps |-> Msgs(maps[i])])

OfSlice(v, Msgs(_)) == IF IsList(v) THEN OfEach(SelectSeq(v.of, IsMap), Msgs) ELSE <<>>

\* A row for each message made of an update, with the time of its notification.
EachUpdate(ns, Msgs(_)) ==
  OfEach(ns, LAMBDA n : OfEach(n.updates, LAMBDA u :
    LET ms == Msgs(u) IN [i \in DOMAIN ms |-> [time |-> n.time, msg |-> ms[i]]]))

\* One row for the call: Assign adds what it finds in a map to the message.
OneMessage(ns, Assign(_, _)) ==
  LET updates == OfEach(ns, LAMBDA n : n.updates)
      msg == FoldLeft(LAMBDA m, u : IF IsMap(u.val) THEN Assign(m, u.val) ELSE m, <<>>, updates)
  IN  << [time |-> IF ns = <<>> THEN 0 ELSE Last(ns).time, msg |-> msg] >>
=============================================================================
