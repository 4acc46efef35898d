-------------------------------- MODULE BgpText -------------------------------
(***************************************************************************)
(* parseBGPTextOutput of the Cisco Nexus BGP parser: show bgp all summary. *)
(* The switch prints a section per VRF and address family; the parser      *)
(* makes one entry of neighboring sections of one VRF.                     *)
(***************************************************************************)
EXTENDS TextParser

CONSTANTS VRF,          \* VRFs with BGP
          Family,       \* address families
          LocalAS,      \* the AS of each VRF
          PeerLists,    \* peers of a section: sequences of [as, wrapped]
          MaxSections   \* bound on the sections of a text

Section == [vrf : VRF, family : Family, peers : PeerLists]

-----------------------------------------------------------------------------
(* What the switch prints.  A peer takes one line of ten columns, or two   *)
(* when its address is too long for its column.                            *)

PeerLines(i, j, p) ==
  LET full == [kind |-> "row", columns |-> 10, peer |-> <<i, j>>, as |-> p.as]
  IN  IF p.wrapped THEN << [full EXCEPT !.columns = 1], [full EXCEPT !.columns = 9] >> ELSE << full >>

Printout(i, s) ==
  << [kind |-> "vrf", vrf |-> s.vrf, family |-> s.family], [kind |-> "router", as |-> LocalAS[s.vrf]],
     [kind |-> "count", val |-> <<i>>], [kind |-> "header"] >>
  \o FlattenSeq([j \in DOMAIN s.peers |-> PeerLines(i, j, s.peers[j])]) \o << [kind |-> "blank"] >>

-----------------------------------------------------------------------------
(* The loop.  scratch is currentAF, or Nil, and inNeighborTable.           *)

Init ==
  /\ printed \in BoundedSeq(Section, MaxSections)
  /\ text = FlattenSeq([i \in DOMAIN printed |-> Printout(i, printed[i])])
  /\ current = Nil /\ scratch = [af |-> Nil, inTable |-> FALSE] /\ out = <<>>

NewSummary(vrf) == [vrf |-> vrf, as |-> 0, families |-> <<>>]

NewFamily(f) == [family |-> f, count |-> Empty, peers |-> <<>>]

\* The summary with the address family that is being read.
WithFamily == IF current = Nil \/ scratch.af = Nil THEN current
              ELSE [current EXCEPT !.families = Append(@, scratch.af)]

Emit(summary) == out' = IF summary # Nil /\ summary.families # <<>> THEN Append(out, summary) ELSE out

Blank == Ignores({"blank"})

\* A header of a VRF and an address family.
\* Seeded fault: the summary is kept when the VRF changes.
VrfKeeps ==
  /\ Reads({"vrf"})
  /\ current' = IF WithFamily = Nil THEN NewSummary(Line.vrf) ELSE WithFamily
  /\ scratch' = [af |-> NewFamily(Line.family), inTable |-> FALSE]
  /\ UNCHANGED out

Vrf ==
  /\ Reads({"vrf"})
  /\ IF current # Nil /\ current.vrf = Line.vrf
     THEN current' = WithFamily /\ UNCHANGED out
     ELSE Emit(WithFamily) /\ current' = NewSummary(Line.vrf)
  /\ scratch' = [af |-> NewFamily(Line.family), inTable |-> FALSE]

Router ==
  /\ current # Nil /\ Reads({"router"})
  /\ current' = [current EXCEPT !.as = Line.as] /\ UNCHANGED <<scratch, out>>

\* Table version, networks, attributes, communities.
Count ==
  /\ scratch.af # Nil /\ Reads({"count"})
  /\ scratch' = [scratch EXCEPT !.af.count = Line.val] /\ UNCHANGED <<current, out>>

Header == /\ Reads({"header"})
          /\ scratch' = [scratch EXCEPT !.inTable = TRUE] /\ UNCHANGED <<current, out>>

determineSessionType(as, local) == IF as = local THEN "iBGP" ELSE "eBGP"

\* Peers whose lines do not have all columns are passed over.
Peer ==
  /\ scratch.inTable /\ scratch.af # Nil /\ current # Nil /\ Reads({"row"})
  /\ scratch' = IF Line.columns < 10 THEN scratch
                ELSE [scratch EXCEPT !.af.peers = Append(@,
                       [peer |-> Line.peer, as |-> Line.as,
                        session |-> determineSessionType(Line.as, current.as)])]
  /\ UNCHANGED <<current, out>>

End == /\ AtEnd /\ current # Nil
       /\ Emit(WithFamily) /\ current' = Nil /\ scratch' = [af |-> Nil, inTable |-> FALSE]

Next == Blank \/ Vrf \/ Router \/ Count \/ Header \/ Peer \/ End \/ (Parsed /\ UNCHANGED tvars)

Spec == Init /\ [][Next]_tvars

-----------------------------------------------------------------------------
(* Properties.                                                             *)

Reported == FlattenSeq([i \in DOMAIN out |->
              [j \in DOMAIN out[i].families |-> [vrf |-> out[i].vrf, af |-> out[i].families[j]]]])

\* Every section is reported in order, under its own VRF and with its own
\* counts; sections of one VRF that follow each other are one entry.
SectionsKept ==
  Parsed => /\ Len(Reported) = Len(printed)
            /\ \A i \in DOMAIN Reported : /\ Reported[i].vrf = printed[i].vrf
                                          /\ Reported[i].af.family = printed[i].family
                                          /\ Reported[i].af.count = <<i>>
            /\ \A i \in 1..Len(out) - 1 : out[i].vrf # out[i+1].vrf

\* Every peer with a line of its own is reported in its section, in order and
\* with its session type told from the AS of its VRF; a peer that is printed
\* over two lines is missing, and spoils none of the others.
PeersKept ==
  Parsed => \A i \in DOMAIN Reported :
    LET ps  == printed[i].peers
        got == Reported[i].af.peers
    IN  /\ {got[k].peer : k \in DOMAIN got} = {<<i, j>> : j \in {l \in DOMAIN ps : ~ps[l].wrapped}}
        /\ \A k, l \in DOMAIN got : k < l => got[k].peer[2] < got[l].peer[2]
        /\ \A k \in DOMAIN got :
             got[k].session = "iBGP" <=> ps[got[k].peer[2]].as = LocalAS[printed[i].vrf]
=============================================================================
