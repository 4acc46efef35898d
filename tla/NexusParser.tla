------------------------------ MODULE NexusParser -----------------------------
(***************************************************************************)
(* cisco-parser, when it is asked for the neighbors of a switch (show lldp *)
(* neighbors detail), its BGP peers (show bgp all summary) or its          *)
(* transceivers (show interface transceiver details): the parsers that     *)
(* read a section of many lines for each thing.  SwitchParser adds the     *)
(* other parsers.                                                          *)
(***************************************************************************)
EXTENDS Naturals, Sequences

CONSTANTS Descriptions, VlanLists, MaxNeighbors,         \* of LldpText
          VRF, Family, LocalAS, PeerLists, MaxSections,  \* of BgpText
          Modules, MaxInterfaces                         \* of TransceiverText

ASSUME LldpAssumption == /\ Descriptions \subseteq
                              Seq({"text", "label", "blank", "command", "chassis", "name", "time", "late",
                                   "vlans", "number", "colon", "linkAgg", "agg", "aggId"})
                         /\ VlanLists \subseteq Seq({"number", "colon"})
                         /\ MaxNeighbors \in Nat
ASSUME BgpAssumption == /\ LocalAS \in [VRF -> Nat \ {0}]
                        /\ PeerLists \subseteq Seq([as : Nat, wrapped : BOOLEAN])
                        /\ MaxSections \in Nat
ASSUME TransceiverAssumption ==
  /\ Modules \subseteq [cable : BOOLEAN, lengths : Seq(1..4), lanes : Nat]
  /\ MaxInterfaces \in Nat

VARIABLES parser,   \* the -parser flag
          printed, text, current, scratch, out

vars == <<parser, printed, text, current, scratch, out>>

Lldp        == INSTANCE LldpText
Bgp         == INSTANCE BgpText
Transceiver == INSTANCE TransceiverText

NexusInit == \/ parser = "lldp-neighbor" /\ Lldp!Init
             \/ parser = "bgp-all-summary" /\ Bgp!Init
             \/ parser = "transceiver" /\ Transceiver!Init

NexusNext == /\ UNCHANGED parser
             /\ \/ parser = "lldp-neighbor" /\ Lldp!Next
                \/ parser = "bgp-all-summary" /\ Bgp!Next
                \/ parser = "transceiver" /\ Transceiver!Next

NexusSpec == NexusInit /\ [][NexusNext]_vars

-----------------------------------------------------------------------------
(* What each parser promises; the definitions are in its own module.       *)

\* One entry per neighbor, in full if its description has no line that the loop
\* acts on, and without a word of another neighbor whatever it wrote into it; a
\* second entry only if it wrote a chassis id.
NeighborsReported == parser = "lldp-neighbor" => Lldp!Unmixed /\ Lldp!Complete

\* Every section is reported under its VRF, with the peers that have a line of
\* their own; sections of one VRF that follow each other are one entry.
SectionsReported == parser = "bgp-all-summary" => Bgp!SectionsKept /\ Bgp!PeersKept

\* One entry per interface but the breakout ports, of what was printed below
\* its name and those of the breakout ports that follow; where none does, in
\* full, and the same in the text and the JSON form of the command but for the
\* fields that FormatsAgree names.
TransceiversReported ==
  parser = "transceiver" => Transceiver!TransceiversKept /\ Transceiver!FormatsAgree
=============================================================================
