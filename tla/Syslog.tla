-------------------------------- MODULE Syslog --------------------------------
(***************************************************************************)
(* The tools that hand JSON entries to the system log: syslog-client       *)
(* (src/SyslogTools/syslog-client), the library syslogwriter with a caller *)
(* that goes on after an error, as its README shows, and the two Dell OS10 *)
(* tools that run logger for each entry, lldp_syslog and                   *)
(* show_interface_phy_eth.                                                 *)
(*                                                                         *)
(* A line of the input is its kind: blank, valid, without a message field, *)
(* invalid, long (above the maximum size of an entry) or huge (above the   *)
(* 64 KiB a bufio.Scanner takes).  The log is external: each write may     *)
(* fail.                                                                   *)
(***************************************************************************)
EXTENDS Naturals, SequencesExt

CONSTANTS Tool,      \* tools of this instance
          MaxLines   \* bound on the lines of an input

ASSUME SyslogAssumption == /\ Tool \subseteq {"client", "library", "lldp", "phyeth"}
                           /\ MaxLines \in Nat

Kind == {"blank", "valid", "nomessage", "invalid", "long", "huge"}

Setting == [source : {"help", "none", "both", "file", "entry", "command"},
            levels : {"known", "unknown"},   \* -priority and -facility
            test   : BOOLEAN,
            size   : {"usual", "tiny"}]      \* -max-size; tiny: below 3

VARIABLES tool, set,   \* the tool and its flags
          input,       \* history: the lines of the file, or the entry
          pc,
          line,        \* index of the next line; while one is processed, of this one
          stats,       \* Statistics
          journal,     \* what is in the log: indexes of lines, in order
          exit         \* exit status; Running while the tool runs

vars == <<tool, set, input, pc, line, stats, journal, exit>>

Running == "running"

Entry == {i \in DOMAIN input : input[i] # "blank"}     \* the lines that are entries

TypeOK ==
  /\ tool \in Tool /\ set \in Setting /\ input \in Seq(Kind)
  /\ pc \in {"start", "connect", "open", "read", "validate", "size", "write", "exited"}
  /\ line \in Nat \ {0}
  /\ stats \in [total : Nat, success : Nat, failed : Nat, truncated : Nat]
  /\ journal \in Seq(Nat)
  /\ exit \in {Running, "0", "1", "2"}

Counts == [total |-> 0, success |-> 0, failed |-> 0, truncated |-> 0]

-----------------------------------------------------------------------------
(* Flags and inputs a tool can be started with.                            *)

Startable(t, s, in) ==
  /\ t # "client" => s.levels = "known" /\ s.size = "usual"
  /\ CASE t = "client"            -> s.source # "command"
       [] t = "library"           -> s.source = "file" /\ ~s.test
       [] t \in {"lldp", "phyeth"} -> s.source \in {"file", "command"}
  /\ t \in {"lldp", "phyeth"} => \A i \in DOMAIN in : in[i] = "valid"
  /\ s.source = "entry" => Len(in) = 1 /\ in[1] # "blank"

Init ==
  /\ tool \in Tool /\ set \in Setting /\ input \in BoundedSeq(Kind, MaxLines)
  /\ Startable(tool, set, input)
  /\ pc = "start" /\ line = 1 /\ stats = Counts /\ journal = <<>> /\ exit = Running

Exit(status) == pc' = "exited" /\ exit' = status
Goto(label)  == pc' = label /\ UNCHANGED exit

Still == UNCHANGED <<tool, set, input>>

-----------------------------------------------------------------------------
(* main of syslog-client up to the processing of the input.                *)

Flags ==
  /\ pc = "start" /\ tool = "client" /\ Still /\ UNCHANGED <<line, stats, journal>>
  /\ IF set.source = "help" THEN Exit("0")
     ELSE IF set.source \in {"none", "both"} \/ set.levels = "unknown" THEN Exit("1")
     ELSE Goto(IF set.test THEN "open" ELSE "connect")

\* NewSyslogWriter, or New of the library: the log may not be there.
Connect ==
  /\ pc = "connect" \/ (pc = "start" /\ tool = "library")
  /\ Goto("open") \/ Exit("1")
  /\ Still /\ UNCHANGED <<line, stats, journal>>

\* The file, or the output of clish; either may fail.
FetchLldp ==
  /\ pc = "start" /\ tool = "lldp" /\ (Goto("read") \/ Exit("1"))
  /\ Still /\ UNCHANGED <<line, stats, journal>>

\* Test mode of show_interface_phy_eth needs a file.
FetchPhyEth ==
  /\ pc = "start" /\ tool = "phyeth"
  /\ \/ (set.test => set.source = "file") /\ Goto("read")
     \/ Exit("1")
  /\ Still /\ UNCHANGED <<line, stats, journal>>

\* os.Open; an entry of the command line needs no file.
Open ==
  /\ pc = "open"
  /\ Goto("read") \/ (set.source = "file" /\ Exit("1"))
  /\ Still /\ UNCHANGED <<line, stats, journal>>

-----------------------------------------------------------------------------
(* The input, line by line.                                                *)

HasLine(kinds) == pc = "read" /\ line \in DOMAIN input /\ input[line] \in kinds

\* Blank lines are skipped.
SkipBlank == /\ HasLine({"blank"}) /\ set.source # "entry"
             /\ line' = line + 1 /\ Goto("read") /\ Still /\ UNCHANGED <<stats, journal>>

\* The scanner gives up: the lines that follow are not read.
TooLong == /\ HasLine({"huge"}) /\ set.source # "entry"
           /\ Exit("1") /\ Still /\ UNCHANGED <<line, stats, journal>>

\* WriteEntry counts the entry; test mode and the Dell tools count nothing.
Take == /\ HasLine(IF set.source = "entry" THEN Kind ELSE Kind \ {"blank", "huge"})
        /\ stats' = IF tool = "client" /\ ~set.test THEN [stats EXCEPT !.total = @ + 1] ELSE stats
        /\ Goto("validate") /\ Still /\ UNCHANGED <<line, journal>>

\* validateEntry; the library wants a message as well.
\* Seeded fault: the client is as strict as the library, in test mode only.
ValidStrict(kind) == kind # "invalid" /\ (tool = "library" \/ set.test => kind # "nomessage")

Valid(kind) == kind # "invalid" /\ (tool = "library" => kind # "nomessage")

\* What follows an entry that could not be written: the next one, or the end.
\* Seeded fault: lldp_syslog goes on after a failure, show_interface_phy_eth
\* does too.
GoesOn == TRUE

Continues == set.source # "entry" /\ tool # "phyeth"

AfterFailure == IF Continues THEN line' = line + 1 /\ Goto("read") ELSE line' = line /\ Exit("1")

\* In test mode of the client the count is that of validateFile.
\* Seeded fault: entries that do not validate are not counted.
Uncounted == stats

CountFailure == IF tool = "client" THEN [stats EXCEPT !.failed = @ + 1] ELSE stats

Reject == /\ pc = "validate" /\ ~Valid(input[line])
          /\ stats' = CountFailure /\ AfterFailure /\ Still /\ UNCHANGED journal

\* Test mode goes on to the next line without writing.
Accept == /\ pc = "validate" /\ Valid(input[line])
          /\ IF set.test THEN line' = line + 1 /\ Goto("read") ELSE line' = line /\ Goto("size")
          /\ Still /\ UNCHANGED <<stats, journal>>

Oversized == input[line] \in {"long", "huge"} \/ set.size = "tiny"

\* handleEntrySize: entry[:MaxEntrySize-3] panics if the size is below 3.
\* Only syslog-client lets its caller choose the size.
Size ==
  /\ pc = "size" /\ Still /\ UNCHANGED <<line, journal>>
  /\ stats' = IF tool = "client" /\ Oversized THEN [stats EXCEPT !.truncated = @ + 1] ELSE stats
  /\ IF set.size = "tiny" THEN Exit("2") ELSE Goto("write")

\* Writer.Info, or logger.
WriteSucceeds ==
  /\ pc = "write" /\ journal' = Append(journal, line)
  /\ stats' = IF tool = "client" THEN [stats EXCEPT !.success = @ + 1] ELSE stats
  /\ line' = line + 1 /\ Goto("read") /\ Still

WriteFails == /\ pc = "write" /\ stats' = CountFailure /\ AfterFailure /\ Still /\ UNCHANGED journal

\* The end of the input.  Only the client looks at what has failed.
Finish == /\ pc = "read" /\ line \notin DOMAIN input
          /\ Exit(IF stats.failed > 0 THEN "1" ELSE "0")
          /\ Still /\ UNCHANGED <<line, stats, journal>>

Exited == pc = "exited" /\ UNCHANGED vars

Next == \/ Flags \/ Connect \/ FetchLldp \/ FetchPhyEth \/ Open
        \/ SkipBlank \/ TooLong \/ Take \/ Reject \/ Accept \/ Size \/ WriteSucceeds \/ WriteFails
        \/ Finish \/ Exited

Spec == Init /\ [][Next]_vars

-----------------------------------------------------------------------------
(* Properties.                                                             *)

\* An entry that is being processed is counted and not yet decided.
Pending == tool = "client" /\ ~set.test /\ pc \in {"validate", "size", "write"}

\* The statistics of the client add up after every step, and say what is in
\* the log: successes are lines that were written, each once and in the order
\* of the input.  Only a panic leaves an entry without a verdict.
StatsAddUp ==
  /\ tool = "client" /\ ~set.test /\ exit # "2" =>
       stats.total = stats.success + stats.failed + (IF Pending THEN 1 ELSE 0)
  /\ tool = "client" => stats.success = Len(journal)
  /\ \A i, j \in DOMAIN journal : i < j => journal[i] < journal[j]
  /\ \A i \in DOMAIN journal : journal[i] < line

\* A tool that ends with status 0, and was asked to write, has written every
\* entry of its input; one that ends with another status has not, unless it is
\* the scanner that gave up at the end.  lldp_syslog and the library are left
\* out of the first half: they report a failure and end well.
ExitTellsTruth ==
  exit # Running /\ ~set.test /\ set.source # "help" =>
    /\ exit = "0" /\ tool \in {"client", "phyeth"} => ToSet(journal) = Entry
    /\ exit # "0" /\ line > 1 => ToSet(journal) # Entry
    /\ tool = "phyeth" => ToSet(journal) = 1..Len(journal)

\* Test mode of the client succeeds on exactly the inputs, of those it can
\* open, of which every entry can be read and validated: an input it accepts
\* is written whole if the log takes it, one it rejects is not.
Clean == \A i \in Entry : input[i] # "invalid" /\ (set.source = "file" => input[i] # "huge")

TestPredicts ==
  tool = "client" /\ set.source \in {"file", "entry"} /\ set.levels = "known" /\ set.size = "usual" =>
    /\ exit = "0" => Clean
    /\ exit = "1" /\ line > 1 /\ set.test => ~Clean
    /\ exit = "1" /\ line > 1 /\ ~set.test /\ Clean => \E i \in Entry : i \notin ToSet(journal)
=============================================================================
