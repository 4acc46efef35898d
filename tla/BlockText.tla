------------------------------ MODULE BlockText -------------------------------
(***************************************************************************)
(* The Cisco Nexus parsers of show inventory, show class-map and show      *)
(* environment power detail: a line opens a block, and the lines after it  *)
(* are about this block until it is closed.                                *)
(***************************************************************************)
EXTENDS TextParser

CONSTANTS MaxBlocks,  \* bound on the blocks of a text
          MaxRules    \* bound on the rules of a class map

Command == {"inventory", "class-map", "environment-power"}

\* An item whose description has quotes in it has a name line that is not
\* recognized; an item may have no line with its numbers.
Item == [quoted : BOOLEAN, numbered : BOOLEAN]

\* A class has rules, of which those without a value are not recognized, and
\* may have a description, which the operator writes and may underline; the
\* first of each section has the head above it that names its type; classes
\* are set apart by empty lines or follow each other.
Class == [desc : {"none", "plain", "underlined"}, rules : BoundedSeq({"match", "bare"}, MaxRules),
          heads : BOOLEAN, apart : BOOLEAN]

\* The row of a supply that is absent has dashes for its model; a supply may
\* have no details.
Supply == [present : BOOLEAN, detailed : BOOLEAN]

-----------------------------------------------------------------------------
(* What the switch prints.                                                 *)

Row(k, v) == [kind |-> k, val |-> v]
When(c, rows) == IF c THEN rows ELSE <<>>
Blank == Row("blank", Empty)
Each(Rows(_)) == FlattenSeq([i \in DOMAIN printed.blocks |-> Rows(i)])

ItemRows(i) == LET b == printed.blocks[i] IN
  << Row(IF b.quoted THEN "frame" ELSE "name", <<i>>) >> \o When(b.numbered, <<Row("pid", <<i>>)>>) \o <<Blank>>

\* The number of the section a class is in.
SectionOf(i) == Cardinality({j \in 1..i : printed.blocks[j].heads})

ClassRows(i) == LET b == printed.blocks[i] IN
  When(b.heads, <<Row("type", SectionOf(i)), Row("blank", Empty)>>)
  \o << Row("class", <<i>>) >>
  \o (CASE b.desc = "none" -> <<>> [] b.desc = "plain" -> <<Row("desc", <<i>>)>> [] b.desc = "underlined" -> <<Blank>>)
  \o [j \in DOMAIN b.rules |-> Row(b.rules[j], <<i, j>>)] \o When(b.apart, <<Blank>>)

SupplyRow(i) == << Row(IF printed.blocks[i].present THEN "supply" ELSE "frame", <<i>>) >>
DetailRows(i) == When(printed.blocks[i].detailed, <<Row("ps", <<i>>), Row("power", <<i>>), Row("cord", <<i>>)>>)

Texts(c) == CASE c = "inventory" -> Each(ItemRows)
              [] c = "class-map" -> Each(ClassRows)
              [] c = "environment-power" -> <<Row("supplies", Empty)>> \o Each(SupplyRow) \o <<Row("summary", Empty),
                   Row("blank", Empty), Row("details", Empty)>> \o Each(DetailRows)

-----------------------------------------------------------------------------
(* The loops.  scratch is the type of the section of classes, or the       *)
(* section on power.                                                       *)

Init(c) ==
  /\ \E bs \in BoundedSeq(CASE c = "inventory" -> Item [] c = "class-map" -> Class [] c = "environment-power" -> Supply,
                          MaxBlocks) :
       /\ c = "class-map" /\ bs # <<>> => bs[1].heads
       /\ printed = [command |-> c, blocks |-> bs]
  /\ text = << Row("frame", Empty) >> \o Texts(c)
  /\ current = Nil /\ scratch = 0 /\ out = <<>>

Of(c) == printed.command = c

Begin(block) == Save /\ current' = block /\ UNCHANGED scratch

SetField(f, v) == current' = (IF current = Nil THEN Nil ELSE [current EXCEPT ![f] = v]) /\ UNCHANGED <<scratch, out>>

\* The prompt, heads, dashes, and what no expression matches.
Frame == Ignores({"frame", "bare"})

ItemBlank == Of("inventory") /\ Reads({"blank"}) /\ Save /\ current' = Nil /\ UNCHANGED scratch

ItemName == Of("inventory") /\ Reads({"name"}) /\ Begin([name |-> Line.val, ids |-> Empty])

\* The numbers complete the item.
ItemNumbers ==
  /\ Of("inventory") /\ Reads({"pid"})
  /\ out' = IF current = Nil THEN out ELSE Append(out, [current EXCEPT !.ids = Line.val])
  /\ current' = Nil /\ UNCHANGED scratch

\* An empty line, and every line with four equals signs in it.
ClassBlank == Of("class-map") /\ Reads({"blank"}) /\ Save /\ current' = Nil /\ UNCHANGED scratch

\* The head of a section does not close the class before it.
ClassType == Of("class-map") /\ Reads({"type"}) /\ scratch' = Line.val /\ UNCHANGED <<current, out>>

\* Seeded fault: a class is stored by an empty line only.
ClassNameKeeps ==
  /\ Of("class-map") /\ Reads({"class"})
  /\ current' = [name |-> Line.val, type |-> scratch, desc |-> Empty, rules |-> <<>>]
  /\ UNCHANGED <<scratch, out>>

ClassName ==
  /\ Of("class-map") /\ Reads({"class"})
  /\ Begin([name |-> Line.val, type |-> scratch, desc |-> Empty, rules |-> <<>>])

ClassDescription == Of("class-map") /\ Reads({"desc"}) /\ SetField("desc", Line.val)

ClassRule ==
  /\ Of("class-map") /\ Reads({"match"})
  /\ current' = (IF current = Nil THEN Nil ELSE [current EXCEPT !.rules = Append(@, Line.val)])
  /\ UNCHANGED <<scratch, out>>

PowerBlank == Of("environment-power") /\ Ignores({"blank"})

\* Power Supply:, Power Usage Summary:, Power supply details:
Section == Reads({"supplies", "summary", "details"}) /\ scratch' = Line.kind /\ UNCHANGED <<current, out>>

PowerRow == /\ Reads({"supply"}) /\ out' = IF scratch = "supplies" THEN Append(out, [row |-> Line.val]) ELSE out
            /\ UNCHANGED <<current, scratch>>

Detail == Reads({"ps"}) /\ scratch = "details" /\ Begin([name |-> Line.val, power |-> Empty, cord |-> Empty])

DetailLine == Reads({"power", "cord"}) /\ scratch = "details" /\ SetField(Line.kind, Line.val)

End == AtEnd /\ current # Nil /\ Save /\ current' = Nil /\ UNCHANGED scratch

Next == \/ Frame \/ ItemBlank \/ ItemName \/ ItemNumbers
        \/ ClassBlank \/ ClassType \/ ClassName \/ ClassDescription \/ ClassRule
        \/ PowerBlank \/ Section \/ PowerRow \/ Detail \/ DetailLine \/ End \/ (Parsed /\ UNCHANGED tvars)

Spec == (\E c \in Command : Init(c)) /\ [][Next]_tvars

-----------------------------------------------------------------------------
(* Properties.                                                             *)

Numbers(P(_)) == SelectSeq([i \in DOMAIN printed.blocks |-> i], LAMBDA i : P(printed.blocks[i]))

\* An item is reported once, with its own numbers, and an item whose name is
\* not recognized costs no other item anything.
ItemsReported ==
  Of("inventory") =>
    LET seen == Numbers(LAMBDA b : ~b.quoted)
    IN  out = [k \in DOMAIN seen |-> [name |-> <<seen[k]>>,
                                      ids |-> IF printed.blocks[seen[k]].numbered THEN <<seen[k]>> ELSE Empty]]

\* Every class is reported once, under the type of its section and with its
\* own rules, whether classes are set apart or not; an underline in the
\* description costs the class its description and its rules, and no other
\* class anything.
ClassesReported ==
  Of("class-map") =>
    /\ Len(out) = Len(printed.blocks)
    /\ \A i \in DOMAIN out : LET b == printed.blocks[i] IN
         /\ out[i].name = <<i>> /\ out[i].type = SectionOf(i)
         /\ out[i].desc = (IF b.desc = "plain" THEN <<i>> ELSE Empty)
         /\ out[i].rules = IF b.desc = "underlined" THEN <<>>
                           ELSE LET js == SelectSeq([j \in DOMAIN b.rules |-> j], LAMBDA j : b.rules[j] = "match")
                                IN  [k \in DOMAIN js |-> <<i, js[k]>>]

\* The table has the supplies that are present, and each of the details that
\* were printed is reported once, with its own values.
SuppliesReported ==
  Of("environment-power") =>
    LET rows == Numbers(LAMBDA b : b.present)
        details == Numbers(LAMBDA b : b.detailed)
    IN  out = [k \in DOMAIN rows |-> [row |-> <<rows[k]>>]]
              \o [k \in DOMAIN details |-> LET v == <<details[k]>> IN [name |-> v, power |-> v, cord |-> v]]

BlocksReported == Parsed => ItemsReported /\ ClassesReported /\ SuppliesReported
=============================================================================
