---------------------------- MODULE TransceiverText ---------------------------
(***************************************************************************)
(* The two parsers of show interface transceiver details on Cisco Nexus:   *)
(* parseTransceivers reads the text of the command, parseJSON its          *)
(* json-pretty form.                                                       *)
(***************************************************************************)
EXTENDS TextParser

CONSTANTS Modules,       \* transceivers: whether a cable type is printed, the
                         \* media a link length is printed for, and the lanes
                         \* that have diagnostics (DOM)
          MaxInterfaces  \* bound on the interfaces of a text

\* Copper, 50/125um OM3, 50/125um OM2, 62.5/125um.
Medium == 1..4

\* An interface with a transceiver or without (Nil).  The name of a breakout
\* port has three numbers: Ethernet1/36/1.
Interface == [breakout : BOOLEAN, module : Modules \cup {Nil}]

-----------------------------------------------------------------------------
(* What the switch prints.                                                 *)

Row(k, v) == [kind |-> k, val |-> v]

ModuleRows(i, m) ==
  <<Row("detail", <<i>>)>> \o [j \in DOMAIN m.lengths |-> Row("length", <<i, m.lengths[j]>>)]
  \o (IF m.cable THEN <<Row("cable", <<i>>)>> ELSE <<>>)
  \o (IF m.lanes = 0 THEN <<Row("noDom", Empty)>> ELSE <<>>)
  \o FlattenSeq([l \in 1..m.lanes |-> <<Row("domHeader", Empty), Row("dom", <<i, l>>), Row("dom", <<i, l>>)>>])

Printout(i, r) ==
  <<Row(IF r.breakout THEN "breakout" ELSE "interface", <<i>>), Row("presence", r.module # Nil)>>
  \o (IF r.module = Nil THEN <<>> ELSE ModuleRows(i, r.module)) \o <<Row("blank", Empty)>>

-----------------------------------------------------------------------------
(* parseTransceivers.  scratch is inDOMSection and domData.                *)

NoDom == [inDom |-> FALSE, dom |-> <<>>]

NewEntry(name) == [name |-> name, present |-> FALSE, detail |-> Empty, length |-> Empty, cable |-> Empty,
                   domSupported |-> FALSE, dom |-> <<>>, laneNumber |-> 0]

Init ==
  /\ printed \in BoundedSeq(Interface, MaxInterfaces)
  /\ text = FlattenSeq([i \in DOMAIN printed |-> Printout(i, printed[i])])
  /\ current = Nil /\ scratch = NoDom /\ out = <<>>

\* Empty lines, and the name of a breakout port, which no expression matches:
\* the lines below it are read for the interface before.
Unread == Ignores({"blank", "breakout"})

\* The diagnostics read so far go to the interface before.
WithDom == IF scratch.inDom THEN [current EXCEPT !.dom = scratch.dom] ELSE current

SaveWithDom == out' = IF current = Nil THEN out ELSE Append(out, WithDom)

\* Seeded fault: the diagnostics of the interface before are kept.
NameKeepsDom ==
  /\ Reads({"interface"})
  /\ SaveWithDom /\ current' = NewEntry(Line.val) /\ UNCHANGED scratch

Name ==
  /\ Reads({"interface"})
  /\ SaveWithDom /\ current' = NewEntry(Line.val) /\ scratch' = NoDom

\* Nothing is read before the first interface that is recognized.
NoInterface == current = Nil /\ Ignores({"presence", "detail", "length", "cable", "noDom", "domHeader", "dom"})

Presence ==
  /\ current # Nil /\ Reads({"presence"})
  /\ current' = [current EXCEPT !.present = Line.val] /\ UNCHANGED <<scratch, out>>

\* The details and identifiers, a link length, the cable type: the last line
\* counts.
Detail ==
  /\ current # Nil /\ current.present /\ Reads({"detail", "length", "cable"})
  /\ current' = [current EXCEPT ![Line.kind] = Line.val] /\ UNCHANGED <<scratch, out>>

NotSupported ==
  /\ current # Nil /\ current.present /\ Reads({"noDom"})
  /\ current' = [current EXCEPT !.domSupported = FALSE] /\ UNCHANGED <<scratch, out>>

\* Each lane has a header of its own and starts the diagnostics anew.
DomHeader ==
  /\ current # Nil /\ current.present /\ Reads({"domHeader"})
  /\ current' = [current EXCEPT !.domSupported = TRUE]
  /\ scratch' = [inDom |-> TRUE, dom |-> <<>>] /\ UNCHANGED out

Dom ==
  /\ current # Nil /\ current.present /\ scratch.inDom /\ Reads({"dom"})
  /\ scratch' = [scratch EXCEPT !.dom = Append(@, Line.val)] /\ UNCHANGED <<current, out>>

End == AtEnd /\ current # Nil /\ SaveWithDom /\ current' = Nil /\ UNCHANGED scratch

Next == Unread \/ Name \/ NoInterface \/ Presence \/ Detail \/ NotSupported \/ DomHeader \/ Dom \/ End
        \/ (Parsed /\ UNCHANGED tvars)

Spec == Init /\ [][Next]_tvars

-----------------------------------------------------------------------------
(* parseJSON: every interface, breakout ports too; the first length in the *)
(* order of Medium, the first lane with its number, and no cable type.     *)

JSONEntry(i, m) ==
  IF m = Nil THEN NewEntry(<<i>>)
  ELSE [name |-> <<i>>, present |-> TRUE, detail |-> <<i>>,
        length |-> IF m.lengths = <<>> THEN Empty ELSE <<i, Min(ToSet(m.lengths))>>, cable |-> Empty,
        domSupported |-> m.lanes > 0,
        dom |-> IF m.lanes = 0 THEN <<>> ELSE <<<<i, 1>>, <<i, 1>>>>,
        laneNumber |-> IF m.lanes = 0 THEN 0 ELSE 1]

parseJSON(rs) == [i \in DOMAIN rs |-> JSONEntry(i, rs[i].module)]

-----------------------------------------------------------------------------
(* Properties.                                                             *)

\* The interface an entry was begun for; its lines and those of the breakout
\* ports below it.
Owner(e) == e.name[1]

Group(i) == {k \in i..Len(printed) : \A m \in (i+1)..k : printed[m].breakout}

\* Every interface but the breakout ports is reported once and in order, those
\* without a transceiver too.  What is reported of it was printed below its
\* name, or below that of a breakout port that follows it; if none does, it is
\* reported in full, with the last of its link lengths and of its lanes.
TransceiversKept ==
  /\ \A x \in DOMAIN out : LET e == out[x]  i == Owner(e) IN
       /\ i \in DOMAIN printed /\ ~printed[i].breakout /\ e.name = <<i>>
       /\ \A v \in {e.detail, e.length, e.cable} \cup ToSet(e.dom) : v # Empty => v[1] \in Group(i)
       /\ Group(i) = {i} => LET m == printed[i].module IN
            /\ e.present = (m # Nil)
            /\ m = Nil => e = NewEntry(<<i>>)
            /\ m # Nil => /\ e.detail = <<i>> /\ e.cable = (IF m.cable THEN <<i>> ELSE Empty)
                          /\ e.length = (IF m.lengths = <<>> THEN Empty ELSE <<i, Last(m.lengths)>>)
                          /\ e.domSupported = (m.lanes > 0)
                          /\ e.dom = (IF m.lanes = 0 THEN <<>> ELSE <<<<i, m.lanes>>, <<i, m.lanes>>>>)
  /\ \A x, y \in DOMAIN out : x < y => Owner(out[x]) < Owner(out[y])
  /\ Parsed => \A i \in DOMAIN printed : ~printed[i].breakout => \E x \in DOMAIN out : out[x].name = <<i>>

\* Of an interface that no breakout port follows both forms of the command say
\* the same, but for the cable type and the number of the lane, the link length
\* if several are printed, and the diagnostics of several lanes.
FormatsAgree ==
  \A x \in DOMAIN out : LET e == out[x]  json == parseJSON(printed)[Owner(e)]  m == printed[Owner(e)].module IN
    Group(Owner(e)) = {Owner(e)} =>
      /\ <<e.name, e.present, e.detail, e.domSupported>>
           = <<json.name, json.present, json.detail, json.domSupported>>
      /\ m = Nil => e = json
      /\ m # Nil => /\ Len(m.lengths) <= 1 => e.length = json.length
                    /\ m.lanes <= 1 => e.dom = json.dom
=============================================================================
