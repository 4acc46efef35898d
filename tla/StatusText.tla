------------------------------ MODULE StatusText ------------------------------
(***************************************************************************)
(* parseInterfaceStatus of the Cisco Nexus parsers: show interface status  *)
(* prints a row per interface.  A type that is too wide for the last       *)
(* column is cut, and its rest is a line of its own.                       *)
(***************************************************************************)
EXTENDS TextParser

CONSTANT MaxRows   \* bound on the interfaces of a text

\* A type fits into its column, fits and ends like one that is cut
\* (10Gbase-SR), or is cut.  What is left of a cut type ends in one of the
\* seven ways the parser knows or in another one (odd), and its rest has up to
\* four characters or more (long).  The parser knows nine words for a status; a
\* name, which the operator chooses, may hold one of them.
Interface == [type : {"fits", "alike", "cut", "odd", "long"}, known : BOOLEAN, decoy : BOOLEAN]

-----------------------------------------------------------------------------
(* What the switch prints.                                                 *)

\* cut says what the row looks like.
Printout(i, f) ==
  << [kind |-> "frame"], [kind |-> "row", port |-> i, known |-> f.known, decoy |-> f.decoy,
                          cut |-> f.type \in {"alike", "cut", "long"}] >>
  \o CASE f.type \in {"cut", "odd"} -> << [kind |-> "rest", val |-> <<i, 2>>] >>
       [] f.type = "long"           -> << [kind |-> "longRest"] >>
       [] OTHER                     -> <<>>

-----------------------------------------------------------------------------
(* The loop.  current is the interface whose row looked cut.               *)

Init ==
  /\ printed \in BoundedSeq(Interface, MaxRows)
  /\ text = FlattenSeq([i \in DOMAIN printed |-> Printout(i, printed[i])])
  /\ current = Nil /\ scratch = Empty /\ out = <<>>

\* Empty lines, dashes, column heads and the prompt; a rest that is too long to
\* be taken for one, and has too few words for a row.
Frame == Ignores({"frame", "longRest"})

\* The first word that is a status is the status, and the columns follow it.
Entry(line) == [port |-> line.port, status |-> <<line.port, IF line.decoy THEN "name" ELSE "status">>,
                type |-> << <<line.port, 1>> >>]

Readable(line) == line.known \/ line.decoy

\* Seeded fault: the interface that waits for the rest of its type goes on.
RowWaits ==
  /\ Reads({"row"}) /\ Readable(Line) /\ ~Line.cut
  /\ out' = Append(out, Entry(Line)) /\ UNCHANGED <<current, scratch>>

\* An interface whose row looked cut and that no rest followed is dropped.
WholeRow ==
  /\ Reads({"row"}) /\ Readable(Line) /\ ~Line.cut
  /\ out' = Append(out, Entry(Line)) /\ current' = Nil /\ UNCHANGED scratch

CutRow ==
  /\ Reads({"row"}) /\ Readable(Line) /\ Line.cut
  /\ current' = Entry(Line) /\ UNCHANGED <<scratch, out>>

NoStatus == text # <<>> /\ Line.kind = "row" /\ ~Readable(Line) /\ Ignores({"row"})

\* A line of up to four characters; without an interface that waits for it
\* nothing happens.
Continuation ==
  /\ Reads({"rest"})
  /\ out' = IF current = Nil THEN out ELSE Append(out, [current EXCEPT !.type = Append(@, Line.val)])
  /\ current' = Nil /\ UNCHANGED scratch

End == AtEnd /\ current # Nil /\ Save /\ current' = Nil /\ UNCHANGED scratch

Next == Frame \/ WholeRow \/ CutRow \/ NoStatus \/ Continuation \/ End \/ (Parsed /\ UNCHANGED tvars)

Spec == Init /\ [][Next]_tvars

-----------------------------------------------------------------------------
(* Properties.                                                             *)

\* Interfaces are reported once and in order.  A wide type, wherever it is
\* printed, costs no other interface its row or its type.  Only an interface
\* whose type ends like a cut one without a short rest below may be missing, or
\* have the rest of a row that was not read; an interface has its whole type if
\* it fits or looks cut and has a short rest; and only a name that holds a
\* status is taken for one.
StatusReported ==
  Parsed =>
    LET readable == {i \in DOMAIN printed : Readable(printed[i])}
        reported == {out[k].port : k \in DOMAIN out}
        waiting  == {i \in DOMAIN printed : printed[i].type \in {"alike", "long"}}
    IN  /\ \A j, k \in DOMAIN out : j < k => out[j].port < out[k].port
        /\ reported \subseteq readable /\ readable \subseteq reported \cup waiting
        /\ \A k \in DOMAIN out : LET i == out[k].port IN
             /\ printed[i].type = "fits" => out[k].type = << <<i, 1>> >>
             /\ printed[i].type = "cut"  => out[k].type = << <<i, 1>>, <<i, 2>> >>
             /\ printed[i].type = "odd"  => \A j \in DOMAIN out[k].type : out[k].type[j][1] = i
             /\ printed[i].decoy \/ out[k].status = <<i, "status">>
=============================================================================
