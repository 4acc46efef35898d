------------------------------ MODULE TextParser ------------------------------
(***************************************************************************)
(* What the parsers of src/SwitchOutput have in common: a loop over the    *)
(* lines of a show command that builds one entry after the other.  A line  *)
(* is a record with a kind, the regular expression that recognizes it, and *)
(* the values it carries.  Only what decides where a value ends up is      *)
(* modelled: an entry holds one field for every group of fields that are   *)
(* assigned alike, and a value is a tuple that begins with the number of   *)
(* the thing on the switch it belongs to.                                  *)
(***************************************************************************)
EXTENDS Naturals, SequencesExt

VARIABLES printed,  \* history: what the switch printed, as records
          text,     \* the lines that are not yet read
          current,  \* the entry that is being built, or Nil
          scratch,  \* what else the loop remembers
          out       \* finished entries

tvars == <<printed, text, current, scratch, out>>

Nil == [kind |-> "nil"]
Empty == <<>>     \* the zero value of a field

Line == Head(text)

Reads(kinds) == /\ text # <<>> /\ Line.kind \in kinds
                /\ text' = Tail(text) /\ UNCHANGED printed

Ignores(kinds) == Reads(kinds) /\ UNCHANGED <<current, scratch, out>>

Save == out' = IF current = Nil THEN out ELSE Append(out, current)

AtEnd == text = <<>> /\ UNCHANGED <<printed, text>>

Parsed == text = <<>> /\ current = Nil
=============================================================================
