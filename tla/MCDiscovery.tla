------------------------------ MODULE MCDiscovery ------------------------------
(* Instances of Discovery for TLC: a plain path, BGP and MAC templates, and *)
(* three instances of which one has no BGP.                                 *)
EXTENDS Discovery

CONSTANTS i1, i2, i3

MCInstance == {i1, i2, i3}
MCBGP == {i1, i2}

Plain(on) == [template |-> FALSE, bgp |-> FALSE, enabled |-> on]
Bgp(on)   == [template |-> TRUE, bgp |-> TRUE, enabled |-> on]
Mac(on)   == [template |-> TRUE, bgp |-> FALSE, enabled |-> on]

MCPath == <<Bgp(TRUE), Plain(TRUE), Mac(TRUE), Plain(FALSE), Bgp(TRUE)>>
=============================================================================
