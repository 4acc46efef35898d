------------------------------- MODULE MCRouting -------------------------------
(* Instances of Routing, and with it of Normalize, for TLC.                 *)
EXTENDS Routing

El(n) == [name |-> n, keys |-> {}]
Item(n, ks) == [name |-> n, keys |-> ks]
Leaf(p, b, v) == [path |-> p, below |-> b, val |-> v]
Seg(n) == [name |-> n, sel |-> <<>>]
Keyed(n, ks) == [name |-> n, sel |-> ks]

MCSlashes == [v \in {"e0", "psu", "default", "eth1/1"} |-> IF v = "eth1/1" THEN 1 ELSE 0]

If(n) == <<El("interfaces"), Item("interface", {<<"name", n>>})>>

\* Two interfaces with counters, one of them numbered by module and port,
\* a leaf that repeats the key of its entry,
\* subtrees the switch reports as maps, one of them a list entry, and leaves
\* outside of any list.
MCSwitch == {Leaf(If("e0") \o <<El("state"), El("counters"), El("in")>>, <<>>, "1"),
             Leaf(If("e0") \o <<El("state"), El("counters"), El("out")>>, <<>>, "2"),
             Leaf(If("e0") \o <<El("state"), El("status")>>, <<>>, "3"),
             Leaf(If("eth1/1") \o <<El("state"), El("counters"), El("in")>>, <<>>, "4"),
             Leaf(If("eth1/1") \o <<El("name")>>, <<>>, "eth1/1"),
             Leaf(<<El("components"), Item("component", {<<"name", "psu">>})>>, <<"power">>, "6"),
             Leaf(<<El("system"), El("memory"), El("state")>>, <<"used">>, "7"),
             Leaf(<<El("system"), El("memory"), El("total")>>, <<>>, "8")}

State    == <<Seg("interfaces"), Seg("interface"), Seg("state")>>
Counters == State \o <<Seg("counters")>>
Memory   == <<Seg("system"), Seg("memory")>>
Components == <<Seg("components"), Seg("component")>>

MCSubs == <<Counters, State, Memory, Components>>

\* A path with the key of a network instance, as discovery makes them.
Default == Item("network-instance", {<<"name", "default">>})
MCBgp == {Leaf(<<Default, El("bgp"), El("as")>>, <<>>, "1"),
          Leaf(<<Default, El("bgp"), El("router-id")>>, <<>>, "2")}
MCKeyedSub == << <<Keyed("network-instance", << <<"name", "default">> >>), Seg("bgp")>> >>

ASSUME MCRoutingAssumption == WellFormed /\ (Sub = MCSubs => PlainSubs /\ NameKeyed)
=============================================================================
