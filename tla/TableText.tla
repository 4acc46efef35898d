------------------------------ MODULE TableText -------------------------------
(***************************************************************************)
(* The Cisco Nexus parsers of show mac address-table, show ip arp and show *)
(* environment temperature: rows are matched one by one, once the head of  *)
(* their table was read.                                                   *)
(***************************************************************************)
EXTENDS TextParser

CONSTANT MaxRows   \* bound on the rows of a table

\* Forms of a row.  mac-address: unmarked, marked with a letter the expression
\* knows, marked with a tilde.  ip-arp: of a neighbor, of the switch itself
\* (no age), of a neighbor with the flag # for throttled addresses.
\* environment-temperature: of a sensor with a reading, of one without.
Form == ("mac-address" :> {"plain", "letter", "tilde"}) @@ ("ip-arp" :> {"plain", "own", "throttled"})
        @@ ("environment-temperature" :> {"plain", "absent"})

Command == DOMAIN Form

\* show mac address-table prints one table, or says that it failed; the other
\* commands print one for each context or group of sensors.
TablesAtMost(c) == IF c = "mac-address" THEN 1 ELSE 2

-----------------------------------------------------------------------------
(* What the switch prints.                                                 *)

Heading(c) == CASE c = "mac-address" -> <<"frame", "header", "rule">>
                [] c = "ip-arp" -> <<"frame", "header">>
                [] c = "environment-temperature" -> <<"rule", "frame", "rule">>

Printout(c, t, rows) ==
  [k \in DOMAIN Heading(c) |-> [kind |-> Heading(c)[k]]]
  \o [j \in DOMAIN rows |-> [kind |-> "row", val |-> <<t, j>>, form |-> rows[j]]]
  \o << [kind |-> "blank"] >>

-----------------------------------------------------------------------------
(* The loops.  scratch tells whether rows are being read; current is the   *)
(* loop itself.                                                            *)

Reading == [kind |-> "loop"]
Failed  == [kind |-> "error"]

Init(c) ==
  /\ \E tables \in BoundedSeq(BoundedSeq(Form[c], MaxRows), TablesAtMost(c)) : printed = [command |-> c, tables |-> tables]
  /\ text = << [kind |-> "frame"] >>
            \o FlattenSeq([t \in DOMAIN printed.tables |-> Printout(c, t, printed.tables[t])])
  /\ current = Reading /\ scratch = FALSE /\ out = <<>>

Of(c) == printed.command = c

Open == scratch' = TRUE /\ UNCHANGED <<current, out>>

Report(shifted) == out' = Append(out, [val |-> Line.val, shifted |-> shifted]) /\ UNCHANGED <<current, scratch>>

\* The prompt, the name of a context, column heads, units.
Frame == Ignores({"frame"})

\* Once found, the head is never looked for again; the line below it is
\* skipped unseen.
MacHead ==
  /\ Of("mac-address") /\ text # <<>> /\ Line.kind = "header" /\ ~scratch
  /\ text' = Tail(Tail(text)) /\ Open /\ UNCHANGED printed

\* A tilde is taken for the VLAN, and every column for the one after it.
\* Seeded fault: only marked rows match.
MacMarkedRow == Of("mac-address") /\ scratch /\ Reads({"row"}) /\
  IF Line.form = "plain" THEN UNCHANGED <<current, scratch, out>> ELSE Report(Line.form = "tilde")

MacRow == Of("mac-address") /\ scratch /\ Reads({"row"}) /\ Report(Line.form = "tilde")

MacBlank == Of("mac-address") /\ Ignores({"blank"})

MacEnd == /\ Of("mac-address") /\ AtEnd /\ current # Nil
          /\ out' = IF scratch THEN out ELSE <<Failed>>
          /\ current' = Nil /\ UNCHANGED scratch

ArpHead == Of("ip-arp") /\ Reads({"header"}) /\ Open

\* A line that ends in # is taken for the prompt; a row without an age does
\* not match.
ArpRow == Of("ip-arp") /\ Reads({"row"}) /\
  IF scratch /\ Line.form = "plain" THEN Report(FALSE) ELSE UNCHANGED <<current, scratch, out>>

ArpBlank == Of("ip-arp") /\ Ignores({"blank"})

SensorRule == Of("environment-temperature") /\ Reads({"rule"}) /\ Open

SensorRow == Of("environment-temperature") /\ Reads({"row"}) /\
  IF scratch /\ Line.form = "plain" THEN Report(FALSE) ELSE UNCHANGED <<current, scratch, out>>

\* An empty line ends the table.
SensorBlank == Of("environment-temperature") /\ Reads({"blank"}) /\ scratch' = FALSE /\ UNCHANGED <<current, out>>

End == ~Of("mac-address") /\ AtEnd /\ current # Nil /\ current' = Nil /\ UNCHANGED <<scratch, out>>

Next == \/ Frame \/ MacHead \/ MacRow \/ MacBlank \/ MacEnd \/ ArpHead \/ ArpRow \/ ArpBlank
        \/ SensorRule \/ SensorRow \/ SensorBlank \/ End \/ (Parsed /\ UNCHANGED tvars)

Spec == (\E c \in Command : Init(c)) /\ [][Next]_tvars

-----------------------------------------------------------------------------
(* Properties.                                                             *)

Rows == FlattenSeq([t \in DOMAIN printed.tables |->
                      [j \in DOMAIN printed.tables[t] |-> [val |-> <<t, j>>, form |-> printed.tables[t][j]]]])

\* Every row of every table is reported, once, in order and with its columns
\* where they belong, and nothing else is; a text without a table of addresses
\* is an error and not an empty table.  Nothing is asked of the neighbors
\* without an age, the throttled ones (which ip_arp_parser/README.md:154 wants
\* reported with a flag) and the sensors without a reading, nor of the columns
\* of rows marked with a tilde.
RowsReported ==
  Parsed =>
    IF Of("mac-address") /\ printed.tables = <<>> THEN out = <<Failed>>
    ELSE LET form(v) == printed.tables[v[1]][v[2]]
             due     == SelectSeq(Rows, LAMBDA r : r.form \notin {"own", "throttled", "absent"})
             seen    == SelectSeq(out, LAMBDA e : form(e.val) \notin {"own", "throttled", "absent"})
         IN  /\ [k \in DOMAIN seen |-> seen[k].val] = [k \in DOMAIN due |-> due[k].val]
             /\ \A k \in DOMAIN seen : form(seen[k].val) # "tilde" => ~seen[k].shifted
=============================================================================
