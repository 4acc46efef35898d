------------------------------- MODULE LldpText -------------------------------
(***************************************************************************)
(* parseLLDPNeighbors of the Cisco Nexus LLDP parser: show lldp neighbors  *)
(* detail.  The description a neighbor sends of itself is printed as it    *)
(* is, over any number of lines.                                           *)
(***************************************************************************)
EXTENDS TextParser

CONSTANTS Descriptions,  \* of a neighbor: kinds of lines, <<>> if it sends none
          VlanLists,     \* of a neighbor: kinds of lines, <<>> if it sends none
          MaxNeighbors   \* bound on the neighbors of a text

\* A neighbor sends a name or not (null), a description and VLAN names.
Neighbor == [named : BOOLEAN, desc : Descriptions, vlans : VlanLists]

-----------------------------------------------------------------------------
(* What the switch prints.  A line of a description may look like any line *)
(* of the command: label is one that begins with System Description, as    *)
(* those of Dell switches do, and number, colon and text are lines without *)
(* a label of the command.                                                 *)

Row(k, v) == [kind |-> k, val |-> v]

Described(i, d) ==
  IF d = <<>> THEN <<Row("desc", Empty)>>
  ELSE [j \in DOMAIN d |->
         IF j = 1 /\ d[j] = "blank" THEN Row("desc", Empty)
         ELSE Row(IF d[j] = "label" \/ (j = 1 /\ d[j] # "command") THEN "desc" ELSE d[j], <<i, j>>)]

VlanRows(i, v) ==
  IF v = <<>> THEN <<Row("vlans", Empty)>>
  ELSE [j \in DOMAIN v |-> Row(IF j = 1 THEN "vlans" ELSE v[j], <<i, j>>)]

Printout(i, n) ==
  <<Row("blank", Empty), Row("chassis", <<i>>), Row("name", IF n.named THEN <<i>> ELSE Empty)>>
  \o Described(i, n.desc) \o <<Row("time", <<i>>), Row("late", <<i>>)>> \o VlanRows(i, n.vlans)
  \o <<Row("linkAgg", Empty), Row("agg", <<i>>)>>

-----------------------------------------------------------------------------
(* The loop.                                                               *)

Fresh == [inDesc |-> FALSE, desc |-> <<>>, inVlans |-> FALSE, vlans |-> <<>>]

NewNeighbor(i) == [chassis |-> i, name |-> Empty, desc |-> <<>>, time |-> Empty, late |-> Empty,
                   vlans |-> <<>>, agg |-> Empty]

Init ==
  /\ printed \in BoundedSeq(Neighbor, MaxNeighbors)
  /\ \E end \in {<<>>, <<Row("blank", Empty)>>} :
       text = <<Row("command", Empty)>>
              \o FlattenSeq([i \in DOMAIN printed |-> Printout(i, printed[i])]) \o end
  /\ current = Nil /\ scratch = Fresh /\ out = <<>>

SetField(f, v) == current' = [current EXCEPT ![f] = v]

\* An empty line ends the neighbor, unless it is read inside a description;
\* then it ends the description, whose lines are forgotten.
Blank ==
  /\ Reads({"blank"})
  /\ IF scratch.inDesc THEN UNCHANGED <<current, out>> ELSE Save /\ current' = Nil
  /\ scratch' = Fresh

Command == Ignores({"command"})

\* A neighbor begins with its chassis id, read inside a description too.
Chassis ==
  /\ Reads({"chassis"})
  /\ Save /\ current' = NewNeighbor(Line.val) /\ scratch' = Fresh

\* After an empty line inside a neighbor nothing is read up to the next one.
NoNeighbor == current = Nil /\ Ignores({"name", "desc", "text", "time", "late", "vlans", "number",
                                        "colon", "linkAgg", "agg", "aggId"})

\* Port id, local port id, port description, system name, read inside a
\* description too.
Early ==
  /\ current # Nil /\ Reads({"name"})
  /\ SetField("name", Line.val) /\ UNCHANGED <<scratch, out>>

\* A second line that begins with System Description continues the first.
Description ==
  /\ current # Nil /\ Reads({"desc"})
  /\ scratch' = IF Line.val = Empty THEN scratch
                ELSE [scratch EXCEPT !.inDesc = TRUE, !.desc = Append(@, Line.val)]
  /\ UNCHANGED <<current, out>>

\* Every other line up to Time remaining belongs to the description.
DescriptionLine ==
  /\ current # Nil /\ scratch.inDesc
  /\ Reads({"text", "late", "vlans", "number", "colon", "linkAgg", "agg", "aggId"})
  /\ scratch' = [scratch EXCEPT !.desc = Append(@, Line.val)]
  /\ UNCHANGED <<current, out>>

\* Seeded fault: the description goes on.
TimeKeepsReading ==
  /\ current # Nil /\ Reads({"time"})
  /\ current' = [current EXCEPT !.time = Line.val, !.desc = IF scratch.inDesc THEN scratch.desc ELSE @]
  /\ UNCHANGED <<scratch, out>>

TimeRemaining ==
  /\ current # Nil /\ Reads({"time"})
  /\ current' = [current EXCEPT !.time = Line.val, !.desc = IF scratch.inDesc THEN scratch.desc ELSE @]
  /\ scratch' = IF scratch.inDesc THEN [scratch EXCEPT !.inDesc = FALSE, !.desc = <<>>] ELSE scratch
  /\ UNCHANGED out

\* Capabilities, management addresses, VLAN, frame size.
Late ==
  /\ current # Nil /\ ~scratch.inDesc /\ Reads({"late"})
  /\ SetField("late", Line.val) /\ UNCHANGED <<scratch, out>>

VlanNames ==
  /\ current # Nil /\ ~scratch.inDesc /\ Reads({"vlans"})
  /\ scratch' = IF Line.val = Empty THEN scratch
                ELSE [scratch EXCEPT !.inVlans = TRUE, !.vlans = Append(@, <<Line.val>>)]
  /\ UNCHANGED <<current, out>>

\* A line that starts with a number is a name of its own, one with a colon
\* continues the name before it, and be it the status of an aggregation.
MoreVlanNames ==
  /\ current # Nil /\ ~scratch.inDesc /\ scratch.inVlans /\ Reads({"number", "colon", "aggId"})
  /\ scratch' = [scratch EXCEPT !.vlans =
                   IF Line.kind = "number" THEN Append(@, <<Line.val>>)
                   ELSE [scratch.vlans EXCEPT ![Len(scratch.vlans)] = Append(@, Line.val)]]
  /\ UNCHANGED <<current, out>>

\* Only here the VLAN names are stored.
LinkAggregation ==
  /\ current # Nil /\ ~scratch.inDesc /\ Reads({"linkAgg"})
  /\ IF scratch.inVlans
     THEN SetField("vlans", scratch.vlans) /\ scratch' = [scratch EXCEPT !.inVlans = FALSE, !.vlans = <<>>]
     ELSE UNCHANGED <<current, scratch>>
  /\ UNCHANGED out

\* Capability, and status and identifier (aggId).  The switch prints the three
\* after LinkAggregation, where agg stands for them.
Aggregation ==
  /\ current # Nil /\ ~scratch.inDesc
  /\ Reads(IF scratch.inVlans THEN {"agg"} ELSE {"agg", "aggId"})
  /\ SetField("agg", Line.val) /\ UNCHANGED <<scratch, out>>

\* A description whose beginning was forgotten.
Lost ==
  /\ current # Nil /\ ~scratch.inDesc
  /\ Ignores(IF scratch.inVlans THEN {"text"} ELSE {"text", "number", "colon"})

\* The last neighbor.
End == AtEnd /\ current # Nil /\ Save /\ current' = Nil /\ UNCHANGED scratch

Next == \/ Blank \/ Command \/ Chassis \/ NoNeighbor \/ Early \/ Description \/ DescriptionLine
        \/ TimeRemaining \/ Late \/ VlanNames \/ MoreVlanNames \/ LinkAggregation \/ Aggregation
        \/ Lost \/ End \/ (Parsed /\ UNCHANGED tvars)

Spec == Init /\ [][Next]_tvars

-----------------------------------------------------------------------------
(* Properties.                                                             *)

\* The neighbor an entry begins with, and whether the line that began it is
\* that of the switch or one of the description.
Owner(e) == e.chassis[1]

Announced(e) == LET d == printed[Owner(e)].desc
                IN  \E j \in DOMAIN d : d[j] = "chassis" /\ e.chassis = <<Owner(e), j>>

\* Every neighbor makes one entry, in order, and a further one only for a line
\* of its own description that looks like a chassis id; no entry says anything
\* of another neighbor, whatever the neighbors write into their descriptions.
Unmixed ==
  /\ \A x \in DOMAIN out : LET e == out[x] IN
       /\ Owner(e) \in DOMAIN printed /\ (e.chassis = <<Owner(e)>> \/ Announced(e))
       /\ \A v \in {e.name, e.time, e.late, e.agg} : v # Empty => v[1] = Owner(e)
       /\ \A j \in DOMAIN e.desc : e.desc[j][1] = Owner(e)
       /\ \A j \in DOMAIN e.vlans : \A k \in DOMAIN e.vlans[j] : e.vlans[j][k][1] = Owner(e)
  /\ \A x, y \in DOMAIN out :
       x < y => \/ Owner(out[x]) < Owner(out[y])
                \/ Owner(out[x]) = Owner(out[y]) /\ Len(out[y].chassis) = 2
  /\ Parsed => \A i \in DOMAIN printed : \E x \in DOMAIN out : out[x].chassis = <<i>>

\* The lines that the loop acts on inside a description.
Heard == {"blank", "command", "chassis", "name", "time"}

\* A neighbor without such lines in its description is reported with all it
\* sent: the description line by line, the VLAN names in order.
Complete ==
  \A x \in DOMAIN out : LET i == Owner(out[x])
                            n == printed[i]
                        IN  ToSet(n.desc) \cap Heard = {} =>
    /\ out[x].name = (IF n.named THEN <<i>> ELSE Empty)
    /\ {out[x].time, out[x].late, out[x].agg} = {<<i>>}
    /\ out[x].desc = [j \in DOMAIN n.desc |-> <<i, j>>]
    /\ FlattenSeq(out[x].vlans) = [j \in DOMAIN n.vlans |-> <<i, j>>]
=============================================================================
