------------------------------ MODULE CounterText -----------------------------
(***************************************************************************)
(* parseInterfaceErrorCounters of the Cisco Nexus parsers: show interface  *)
(* counters errors prints one table per group of counters; the parser      *)
(* joins the tables by interface.                                          *)
(***************************************************************************)
EXTENDS TextParser, Integers, FiniteSets

CONSTANTS Port,       \* interfaces
          Known,      \* tables the parser knows
          Other,      \* tables of other counters
          MaxTables   \* bound on the tables of a text

Unavailable == -1     \* printed as --
Counter == {Unavailable, 0, 1}

\* A table has a row for some of the interfaces.
Table == UNION {[name : Known \cup Other, rows : [ps -> Counter]] : ps \in SUBSET Port}

-----------------------------------------------------------------------------
(* What the switch prints: a header between dashes, then the rows.         *)

Printout(t) ==
  << [kind |-> "blank"], [kind |-> "header", name |-> t.name], [kind |-> "blank"] >>
  \o LET ps == SetToSeq(DOMAIN t.rows)
     IN  [j \in DOMAIN ps |-> [kind |-> "row", port |-> ps[j], val |-> t.rows[ps[j]]]]

-----------------------------------------------------------------------------
(* The loop.  current is the table joined so far, from interfaces to their *)
(* counters; scratch is the section that is being read.                    *)

Init ==
  /\ printed \in {ts \in BoundedSeq(Table, MaxTables) : \A i, j \in DOMAIN ts : i # j => ts[i].name # ts[j].name}
  /\ text = FlattenSeq([i \in DOMAIN printed |-> Printout(printed[i])])
  /\ current = <<>> /\ scratch = "" /\ out = <<>>

Blank == Ignores({"blank"})

Header == Reads({"header"}) /\ scratch' = Line.name /\ UNCHANGED <<current, out>>

NewInterface == [counters |-> [s \in Known |-> Unavailable], hasErrorData |-> FALSE]

Interface(p) == IF p \in DOMAIN current THEN current[p] ELSE NewInterface

\* A counter that is available, zero included, makes the interface reported.
\* Seeded fault: zero is taken for unavailable.
CountedPositive(e, v) == [e EXCEPT !.counters[scratch] = v, !.hasErrorData = @ \/ v > 0]

Counted(e, v) == [e EXCEPT !.counters[scratch] = v, !.hasErrorData = @ \/ v >= 0]

\* Rows of a table the parser does not know create the interface only.
Row ==
  /\ Reads({"row"})
  /\ LET e == Interface(Line.port)
         new == IF scratch \in Known THEN Counted(e, Line.val) ELSE e
     IN  current' = [p \in DOMAIN current \cup {Line.port} |-> IF p = Line.port THEN new ELSE current[p]]
  /\ UNCHANGED <<scratch, out>>

\* Interfaces are reported in the order of a Go map.
Report ==
  /\ AtEnd /\ current # Nil
  /\ out' \in SetToSeqs({[port |-> p, counters |-> current[p].counters] :
                           p \in {q \in DOMAIN current : current[q].hasErrorData}})
  /\ current' = Nil /\ UNCHANGED scratch

Next == Blank \/ Header \/ Row \/ Report \/ (Parsed /\ UNCHANGED tvars)

Spec == Init /\ [][Next]_tvars

-----------------------------------------------------------------------------
(* Properties.                                                             *)

ValueOf(p, s) ==
  LET at == {i \in DOMAIN printed : printed[i].name = s /\ p \in DOMAIN printed[i].rows}
  IN  IF at = {} THEN Unavailable ELSE LET i == CHOOSE j \in at : TRUE IN printed[i].rows[p]

\* An interface is reported once, if and only if one of its counters is
\* available; and each counter is the one printed for this interface in the
\* table of this counter, in whatever order the tables come and whichever
\* interfaces they leave out.
CountersJoined ==
  Parsed => /\ \A j, k \in DOMAIN out : j # k => out[j].port # out[k].port
            /\ {out[j].port : j \in DOMAIN out} = {p \in Port : \E s \in Known : ValueOf(p, s) # Unavailable}
            /\ \A j \in DOMAIN out : \A s \in Known : out[j].counters[s] = ValueOf(out[j].port, s)
=============================================================================
