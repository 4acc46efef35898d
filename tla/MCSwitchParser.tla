---------------------------- MODULE MCSwitchParser ---------------------------
(* Small texts for each parser. *)
EXTENDS SwitchParser

\* None; one line and a label as Dell switches send; an empty line inside of a
\* description; two of them; lines that look like those of the command, inside
\* the description and behind an empty line; a first line that is empty.
MCDescriptions == {<<>>, <<"text", "label">>, <<"text", "blank", "label", "text">>,
                   <<"text", "blank", "text", "blank", "text">>,
                   <<"text", "chassis", "label", "late">>, <<"text", "name", "vlans", "time", "late">>,
                   <<"text", "blank", "vlans", "aggId", "colon", "linkAgg">>,
                   <<"blank", "command", "blank", "chassis", "aggId", "number">>}

MCVlanLists == {<<>>, <<"number", "number">>, <<"number", "colon">>}

\* A copper cable; fiber with three lengths; two lanes with diagnostics.
MCModules == {[cable |-> TRUE, lengths |-> <<1>>, lanes |-> 0],
              [cable |-> FALSE, lengths |-> <<3, 2, 4>>, lanes |-> 1],
              [cable |-> TRUE, lengths |-> <<>>, lanes |-> 2]}

MCLocalAS == [default |-> 65001, tenant |-> 65002]

InternalPeer == [as |-> 65001, wrapped |-> FALSE]
ExternalPeer == [as |-> 65002, wrapped |-> FALSE]
WrappedPeer  == [as |-> 65002, wrapped |-> TRUE]
MCPeerLists == {<<>>, <<InternalPeer, ExternalPeer>>, <<WrappedPeer, InternalPeer>>, <<ExternalPeer, WrappedPeer>>}

Of(what, known, lettered, name) == [what |-> what, known |-> known, lettered |-> lettered, name |-> name]
Vlan  == Of("interface", TRUE, FALSE, "Vlan7")
Mgmt  == Of("interface", FALSE, FALSE, "mgmt0")
Pref  == Of("preference", TRUE, FALSE, "[20/0]")
Old   == Of("age", TRUE, TRUE, "14w1d")
Young == Of("age", FALSE, FALSE, "00:12:34")

MCHopKinds == {<<Vlan, Pref, Old, Of("protocol", TRUE, TRUE, "direct")>>,
               <<Vlan, Pref, Young, Of("protocol", TRUE, FALSE, "local")>>,
               <<Pref, Old, Of("protocol", TRUE, FALSE, "bgp-65238"), Of("attribute", TRUE, FALSE, "external"),
                 Of("attribute", TRUE, FALSE, "tag 64846")>>,
               <<Mgmt, Pref, Old, Of("protocol", FALSE, FALSE, "static")>>}
=============================================================================
