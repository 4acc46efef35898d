------------------------------- MODULE DellText -------------------------------
(***************************************************************************)
(* The Dell OS10 parsers of show lldp neighbors detail, show system and    *)
(* show ip bgp summary.                                                    *)
(***************************************************************************)
EXTENDS TextParser

CONSTANT MaxParts    \* bound on the neighbors, units and trays, or summaries

\* A neighbor sends a description, which may have a line of dashes in it.
Neighbor == [dashed : BOOLEAN]

\* A unit, or a fan tray with one or two fans; a tray whose state is none of
\* up, down and absent, or that leaves columns out, is not recognized.
Part == [unit : {TRUE}] \cup [unit : {FALSE}, known : BOOLEAN, fans : 1..2]

\* The router of one VRF, with some peers.
Summary == [peers : 0..2]

Block == ("lldp" :> Neighbor) @@ ("system" :> Part) @@ ("bgp-summary" :> Summary)
Command == DOMAIN Block

-----------------------------------------------------------------------------
(* What the switch prints.  Units come before trays, each under a head of  *)
(* its own; the trays have one head together.                              *)

Row(k, v) == [kind |-> k, val |-> v]
When(c, rows) == IF c THEN rows ELSE <<>>

NeighborRows(i) == << Row("port", <<i>>) >> \o When(printed.blocks[i].dashed, <<Row("dashes", Empty)>>)
                   \o << Row("late", <<i>>), Row("dashes", Empty) >>

PartRows(i) == LET p == printed.blocks[i] IN
  IF p.unit THEN <<Row("unit", <<i>>), Row("type", <<i>>)>>
  ELSE When(i = 1 \/ printed.blocks[i - 1].unit, <<Row("fans", Empty), Row("frame", Empty)>>)
       \o << Row(IF p.known THEN "tray" ELSE "frame", <<i, 1>>) >> \o When(p.fans = 2, <<Row("fan", <<i, 2>>)>>)

SummaryRows(i) == << Row("router", <<i>>), Row("header", Empty) >>
                  \o [j \in 1..printed.blocks[i].peers |-> Row("peer", <<i, j>>)]

Rows(c, i) == CASE c = "lldp" -> NeighborRows(i) [] c = "system" -> PartRows(i) [] c = "bgp-summary" -> SummaryRows(i)

-----------------------------------------------------------------------------
(* The loops.  current is the neighbor, unit, tray or summary that is      *)
(* being read; scratch is the section, or tells that peers are being read. *)

Init(c) ==
  /\ \E bs \in BoundedSeq(Block[c], MaxParts) :
       /\ c = "system" => \A i, j \in DOMAIN bs : i < j /\ bs[j].unit => bs[i].unit
       /\ printed = [command |-> c, blocks |-> bs]
  /\ text = << Row("frame", Empty) >> \o FlattenSeq([i \in DOMAIN printed.blocks |-> Rows(c, i)])
  /\ current = Nil /\ scratch = "top" /\ out = <<>>

\* Empty lines, heads of columns, and what no expression matches.
Frame == Ignores({"frame"})

\* lldp: any line with a key and a value begins a neighbor if there is none.
Field(f) ==
  /\ Reads({f})
  /\ current' = LET n == IF current = Nil THEN [port |-> Empty, late |-> Empty] ELSE current IN [n EXCEPT ![f] = Line.val]
  /\ UNCHANGED <<scratch, out>>

LocalPort == Field("port")
FrameSize == Field("late")

\* Seeded fault: the neighbor is stored and goes on.
DashesKeep == Reads({"dashes"}) /\ Save /\ UNCHANGED <<current, scratch>>

Dashes == Reads({"dashes"}) /\ Save /\ current' = Nil /\ UNCHANGED scratch

\* system: a head closes the unit or the tray that is open.
UnitHead == Reads({"unit"}) /\ Save /\ current' = [unit |-> Line.val, type |-> Empty] /\ scratch' = "unit"

UnitLine == Reads({"type"}) /\ scratch = "unit" /\ current' = [current EXCEPT !.type = Line.val] /\ UNCHANGED <<scratch, out>>

FansHead == Reads({"fans"}) /\ Save /\ current' = Nil /\ scratch' = "fan"

Tray == Reads({"tray"}) /\ scratch = "fan" /\ Save /\ current' = [fans |-> <<Line.val>>] /\ UNCHANGED scratch

\* Another fan of the tray that is open.
Fan ==
  /\ Reads({"fan"}) /\ scratch = "fan"
  /\ current' = (IF current = Nil THEN Nil ELSE [current EXCEPT !.fans = Append(@, Line.val)])
  /\ UNCHANGED <<scratch, out>>

\* bgp-summary: a summary without peers is dropped by the next one.
Router ==
  /\ Reads({"router"})
  /\ out' = IF current = Nil \/ current.peers = <<>> THEN out ELSE Append(out, current)
  /\ current' = [router |-> Line.val, peers |-> <<>>] /\ scratch' = "top"

PeersHead == Reads({"header"}) /\ scratch' = "peers" /\ UNCHANGED <<current, out>>

Peer == /\ Reads({"peer"}) /\ scratch = "peers"
        /\ current' = [current EXCEPT !.peers = Append(@, Line.val)] /\ UNCHANGED <<scratch, out>>

End == AtEnd /\ current # Nil /\ Save /\ current' = Nil /\ UNCHANGED scratch

Next == \/ Frame \/ LocalPort \/ FrameSize \/ Dashes \/ UnitHead \/ UnitLine \/ FansHead \/ Tray \/ Fan
        \/ Router \/ PeersHead \/ Peer \/ End \/ (Parsed /\ UNCHANGED tvars)

Spec == (\E c \in Command : Init(c)) /\ [][Next]_tvars

-----------------------------------------------------------------------------
(* Properties.                                                             *)

Numbers(P(_)) == SelectSeq([i \in DOMAIN printed.blocks |-> i], LAMBDA i : P(printed.blocks[i]))

\* A neighbor is one entry; a line of dashes in its description makes it two,
\* of which only the first says whose it is; and no entry is of two neighbors.
NeighborsSeparate ==
  printed.command = "lldp" =>
    out = FlattenSeq([i \in DOMAIN printed.blocks |->
            IF printed.blocks[i].dashed THEN <<[port |-> <<i>>, late |-> Empty], [port |-> Empty, late |-> <<i>>]>>
            ELSE <<[port |-> <<i>>, late |-> <<i>>]>>])

\* Every unit and every recognized tray is one entry, with all its fans; only
\* the fans of trays that are not recognized are taken for another's.
PartsReported ==
  printed.command = "system" =>
    LET units == Numbers(LAMBDA p : p.unit)
        trays == Numbers(LAMBDA p : ~p.unit /\ p.known)
        Own(i) == [j \in 1..printed.blocks[i].fans |-> <<i, j>>]
    IN  /\ Len(out) = Len(units) + Len(trays)
        /\ \A k \in DOMAIN units : out[k] = [unit |-> <<units[k]>>, type |-> <<units[k]>>]
        /\ \A k \in DOMAIN trays : LET fans == out[Len(units) + k].fans IN
             /\ IsPrefix(Own(trays[k]), fans)
             /\ \A f \in ToSet(fans) \ ToSet(Own(trays[k])) : ~printed.blocks[f[1]].known

\* Every router with peers is reported with its peers and no others; one
\* without only if it is the last.
RoutersReported ==
  printed.command = "bgp-summary" =>
    LET seen == SelectSeq([i \in DOMAIN printed.blocks |-> i],
                          LAMBDA i : printed.blocks[i].peers > 0 \/ i = Len(printed.blocks))
    IN  out = [k \in DOMAIN seen |-> [router |-> <<seen[k]>>,
                                      peers |-> [j \in 1..printed.blocks[seen[k]].peers |-> <<seen[k], j>>]]]

PartsSeparate == Parsed => NeighborsSeparate /\ PartsReported /\ RoutersReported
=============================================================================
