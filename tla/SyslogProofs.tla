------------------------------ MODULE SyslogProofs ------------------------------
(***************************************************************************)
(* Theorems about Syslog, for inputs of any number of lines.               *)
(***************************************************************************)
EXTENDS Syslog, TLAPS

-----------------------------------------------------------------------------
(* Inputs and the log.                                                     *)

\* What a tool can be started with.
LEMMA StartableInputs ==
  ASSUME NEW t, NEW s, NEW in, Startable(t, s, in)
  PROVE  /\ s.source = "entry" => Len(in) = 1 /\ in[1] # "blank"
         /\ t \in {"lldp", "phyeth"} => s.source \in {"file", "command"}
         /\ t \in {"lldp", "phyeth"} => \A i \in DOMAIN in : in[i] = "valid"
         /\ t = "client" => s.source # "command"
BY DEF Startable

\* A line that is written is added to the log, behind what is there.
LEMMA AppendEffect ==
  ASSUME NEW s \in Seq(Nat), NEW n \in Nat
  PROVE  /\ Append(s, n) \in Seq(Nat) /\ Len(Append(s, n)) = Len(s) + 1
         /\ \A i \in 1..Len(s) : Append(s, n)[i] = s[i]
         /\ Append(s, n)[Len(s) + 1] = n
         /\ ToSet(Append(s, n)) = ToSet(s) \cup {n}
<1>1. /\ Append(s, n) \in Seq(Nat) /\ Len(Append(s, n)) = Len(s) + 1
      /\ \A i \in 1..Len(s) : Append(s, n)[i] = s[i]
      /\ Append(s, n)[Len(s) + 1] = n
  OBVIOUS
<1>2. /\ DOMAIN s = 1..Len(s) /\ Len(s) \in Nat
      /\ DOMAIN Append(s, n) = 1..(Len(s) + 1)
  BY <1>1
<1>3. ASSUME NEW x \in ToSet(Append(s, n)) PROVE x \in ToSet(s) \cup {n}
  <2>1. PICK i \in 1..(Len(s) + 1) : x = Append(s, n)[i]
    BY <1>2, <1>3 DEF ToSet
  <2>2. QED BY <1>1, <1>2, <2>1 DEF ToSet
<1>4. ASSUME NEW x \in ToSet(s) PROVE x \in ToSet(Append(s, n))
  <2>1. PICK i \in 1..Len(s) : x = s[i]
    BY <1>2, <1>4 DEF ToSet
  <2>2. QED BY <1>1, <1>2, <2>1 DEF ToSet
<1>5. n \in ToSet(Append(s, n))
  BY <1>1, <1>2 DEF ToSet
<1>6. QED BY <1>1, <1>3, <1>4, <1>5

-----------------------------------------------------------------------------
(* Types, and where a tool is.                                             *)

\* A tool starts with well-typed variables.
LEMMA InitSyslogType == Init => TypeOK
<1> SUFFICES ASSUME Init PROVE TypeOK
  OBVIOUS
<1>1. input \in Seq(Kind)
  BY SyslogAssumption DEF Init, BoundedSeq, SeqOf
<1>2. QED BY <1>1 DEF Init, TypeOK, Counts, Running

Count == [total : Nat, success : Nat, failed : Nat, truncated : Nat]

\* Counting changes one count and leaves the others alone.
LEMMA CountEffect ==
  ASSUME NEW s \in Count
  PROVE  /\ [s EXCEPT !.total = @ + 1] \in Count
         /\ [s EXCEPT !.total = @ + 1].total = s.total + 1
         /\ [s EXCEPT !.total = @ + 1].success = s.success
         /\ [s EXCEPT !.total = @ + 1].failed = s.failed
         /\ [s EXCEPT !.success = @ + 1] \in Count
         /\ [s EXCEPT !.success = @ + 1].total = s.total
         /\ [s EXCEPT !.success = @ + 1].success = s.success + 1
         /\ [s EXCEPT !.success = @ + 1].failed = s.failed
         /\ [s EXCEPT !.failed = @ + 1] \in Count
         /\ [s EXCEPT !.failed = @ + 1].total = s.total
         /\ [s EXCEPT !.failed = @ + 1].success = s.success
         /\ [s EXCEPT !.failed = @ + 1].failed = s.failed + 1
         /\ [s EXCEPT !.truncated = @ + 1] \in Count
         /\ [s EXCEPT !.truncated = @ + 1].total = s.total
         /\ [s EXCEPT !.truncated = @ + 1].success = s.success
         /\ [s EXCEPT !.truncated = @ + 1].failed = s.failed
BY DEF Count

\* An entry that is taken is counted, by the client when it does not test.
LEMMA TakeCounts ==
  ASSUME TypeOK, Take
  PROVE  /\ stats' \in Count
         /\ stats'.total = IF tool = "client" /\ ~set.test THEN stats.total + 1 ELSE stats.total
         /\ stats'.success = stats.success
         /\ stats'.failed = stats.failed
<1>1. stats \in Count
  BY DEF TypeOK, Count
<1>2. QED BY <1>1, CountEffect DEF Take

\* A truncated entry is counted on its own.
LEMMA SizeCounts ==
  ASSUME TypeOK, Size
  PROVE  /\ stats' \in Count
         /\ stats'.total = stats.total
         /\ stats'.success = stats.success
         /\ stats'.failed = stats.failed
<1>1. stats \in Count
  BY DEF TypeOK, Count
<1>2. QED BY <1>1, CountEffect DEF Size

\* An entry that is written is a success.
LEMMA SuccessCounts ==
  ASSUME TypeOK, WriteSucceeds
  PROVE  /\ stats' \in Count
         /\ stats'.total = stats.total
         /\ stats'.success = IF tool = "client" THEN stats.success + 1 ELSE stats.success
         /\ stats'.failed = stats.failed
<1>1. stats \in Count
  BY DEF TypeOK, Count
<1>2. QED BY <1>1, CountEffect DEF WriteSucceeds

\* An entry that is not is a failure.
LEMMA FailureCounts ==
  ASSUME TypeOK, stats' = CountFailure
  PROVE  /\ stats' \in Count
         /\ stats'.total = stats.total
         /\ stats'.success = stats.success
         /\ stats'.failed = IF tool = "client" THEN stats.failed + 1 ELSE stats.failed
<1>1. stats \in Count
  BY DEF TypeOK, Count
<1>2. QED BY <1>1, CountEffect DEF CountFailure

\* Every step keeps the types.
LEMMA StepSyslogType == TypeOK /\ [Next]_vars => TypeOK'
<1> SUFFICES ASSUME TypeOK, [Next]_vars PROVE TypeOK'
  OBVIOUS
<1> USE DEF TypeOK, Count, Running
<1>1. CASE UNCHANGED vars
  BY <1>1 DEF vars
<1>2. CASE Flags
  BY <1>2 DEF Flags, Goto, Exit, Still
<1>3. CASE Connect
  BY <1>3 DEF Connect, Goto, Exit, Still
<1>4. CASE FetchLldp
  BY <1>4 DEF FetchLldp, Goto, Exit, Still
<1>5. CASE FetchPhyEth
  BY <1>5 DEF FetchPhyEth, Goto, Exit, Still
<1>6. CASE Open
  BY <1>6 DEF Open, Goto, Exit, Still
<1>7. CASE SkipBlank
  BY <1>7 DEF SkipBlank, Goto, Exit, Still, HasLine
<1>8. CASE TooLong
  BY <1>8 DEF TooLong, Goto, Exit, Still, HasLine
<1>9. CASE Take
  BY <1>9, TakeCounts DEF Take, Goto, Exit, Still, HasLine
<1>10. CASE Reject
  BY <1>10, FailureCounts DEF Reject, Goto, Exit, Still, AfterFailure, Continues, Valid
<1>11. CASE Accept
  BY <1>11 DEF Accept, Goto, Exit, Still, Valid
<1>12. CASE Size
  BY <1>12, SizeCounts DEF Size, Goto, Exit, Still
<1>13. CASE WriteSucceeds
  BY <1>13, SuccessCounts, AppendEffect DEF WriteSucceeds, Goto, Exit, Still
<1>14. CASE WriteFails
  BY <1>14, FailureCounts DEF WriteFails, Goto, Exit, Still, AfterFailure, Continues
<1>15. CASE Finish
  BY <1>15 DEF Finish, Goto, Exit, Still
<1>16. QED
  BY <1>1, <1>2, <1>3, <1>4, <1>5, <1>6, <1>7, <1>8, <1>9, <1>10, <1>11, <1>12,
     <1>13, <1>14, <1>15 DEF Next, Exited

\* The flags do not change.  Nothing is read before the input is open, an
\* entry is processed only if it is one, and written only if it fits.
PlaceInv ==
  /\ Startable(tool, set, input)
  /\ exit = Running <=> pc # "exited"
  /\ pc \in {"start", "connect", "open"} => line = 1 /\ journal = <<>> /\ stats = Counts
  /\ pc \in {"validate", "size", "write"} => line \in Entry
  /\ pc \in {"size", "write"} => ~set.test
  /\ tool = "client" /\ pc \notin {"start", "exited"} => set.source \in {"file", "entry"}

\* The first state has read nothing.
LEMMA InitPlace == Init => PlaceInv
BY DEF Init, PlaceInv, Running

\* Every step keeps PlaceInv.
LEMMA StepPlace == TypeOK /\ PlaceInv /\ [Next]_vars => PlaceInv'
<1> SUFFICES ASSUME TypeOK, PlaceInv, [Next]_vars PROVE PlaceInv'
  OBVIOUS
<1> USE DEF PlaceInv, Entry, Running
<1>1. CASE UNCHANGED vars
  BY <1>1 DEF vars
<1>2. CASE Flags
  BY <1>2, StartableInputs DEF TypeOK, Setting, Flags, Goto, Exit, Still
<1>3. CASE Connect
  BY <1>3 DEF Connect, Goto, Exit, Still
<1>4. CASE FetchLldp
  BY <1>4 DEF FetchLldp, Goto, Exit, Still
<1>5. CASE FetchPhyEth
  BY <1>5 DEF FetchPhyEth, Goto, Exit, Still
<1>6. CASE Open
  BY <1>6 DEF Open, Goto, Exit, Still
<1>7. CASE SkipBlank
  BY <1>7 DEF SkipBlank, Goto, Exit, Still, HasLine
<1>8. CASE TooLong
  BY <1>8 DEF TooLong, Goto, Exit, Still, HasLine
<1>9. CASE Take
  BY <1>9, StartableInputs DEF Take, Goto, Exit, Still, HasLine
<1>10. CASE Reject
  BY <1>10 DEF Reject, Goto, Exit, Still, AfterFailure, Continues, Valid
<1>11. CASE Accept
  BY <1>11 DEF Accept, Goto, Exit, Still, Valid
<1>12. CASE Size
  BY <1>12 DEF Size, Goto, Exit, Still
<1>13. CASE WriteSucceeds
  BY <1>13 DEF WriteSucceeds, Goto, Exit, Still
<1>14. CASE WriteFails
  BY <1>14 DEF WriteFails, Goto, Exit, Still, AfterFailure, Continues
<1>15. CASE Finish
  BY <1>15 DEF Finish, Goto, Exit, Still
<1>16. QED
  BY <1>1, <1>2, <1>3, <1>4, <1>5, <1>6, <1>7, <1>8, <1>9, <1>10, <1>11, <1>12,
     <1>13, <1>14, <1>15 DEF Next, Exited

-----------------------------------------------------------------------------
(* The statistics.                                                         *)

\* The log is a sequence of numbers.
LEMMA JournalType ==
  ASSUME TypeOK
  PROVE  /\ Len(journal) \in Nat /\ DOMAIN journal = 1..Len(journal)
         /\ \A i \in DOMAIN journal : journal[i] \in Nat
BY DEF TypeOK

\* A line behind all that are in the log keeps it in order.
LEMMA AppendAscends ==
  ASSUME NEW s \in Seq(Nat), NEW n \in Nat,
         \A i, j \in DOMAIN s : i < j => s[i] < s[j], \A i \in DOMAIN s : s[i] < n
  PROVE  /\ \A i, j \in DOMAIN Append(s, n) : i < j => Append(s, n)[i] < Append(s, n)[j]
         /\ \A i \in DOMAIN Append(s, n) : Append(s, n)[i] < n + 1
<1> DEFINE t == Append(s, n)
<1>1. /\ Len(s) \in Nat /\ DOMAIN s = 1..Len(s) /\ DOMAIN t = 1..(Len(s) + 1)
      /\ \A i \in 1..Len(s) : t[i] = s[i] /\ s[i] \in Nat
      /\ t[Len(s) + 1] = n
  BY AppendEffect
<1> HIDE DEF t
<1>2. ASSUME NEW i \in DOMAIN t, NEW j \in DOMAIN t, i < j PROVE t[i] < t[j]
  BY <1>1, <1>2
<1>3. ASSUME NEW i \in DOMAIN t PROVE t[i] < n + 1
  BY <1>1, <1>3
<1>4. QED BY <1>2, <1>3 DEF t

\* So does the line that is written.
LEMMA WriteAscends ==
  ASSUME TypeOK, StatsAddUp, WriteSucceeds
  PROVE  /\ \A i, j \in DOMAIN journal' : i < j => journal'[i] < journal'[j]
         /\ \A i \in DOMAIN journal' : journal'[i] < line'
<1>1. journal \in Seq(Nat) /\ line \in Nat
  BY DEF TypeOK
<1>2. /\ \A i, j \in DOMAIN journal : i < j => journal[i] < journal[j]
      /\ \A i \in DOMAIN journal : journal[i] < line
  BY DEF StatsAddUp
<1>3. /\ \A i, j \in DOMAIN Append(journal, line) :
           i < j => Append(journal, line)[i] < Append(journal, line)[j]
      /\ \A i \in DOMAIN Append(journal, line) : Append(journal, line)[i] < line + 1
  BY <1>1, <1>2, AppendAscends
<1>4. journal' = Append(journal, line) /\ line' = line + 1
  BY DEF WriteSucceeds
<1>5. QED BY <1>3, <1>4, Zenon

\* A tool starts with counts that add up.
LEMMA InitStats == Init => StatsAddUp
BY DEF Init, StatsAddUp, Pending, Counts

\* Every step keeps them so: an entry is counted when it is taken, and decided
\* once.
LEMMA StepStats == TypeOK /\ PlaceInv /\ StatsAddUp /\ [Next]_vars => StatsAddUp'
<1> SUFFICES ASSUME TypeOK, PlaceInv, StatsAddUp, [Next]_vars PROVE StatsAddUp'
  OBVIOUS
<1>0. ASSUME WriteSucceeds
      PROVE  /\ \A i, j \in DOMAIN journal' : i < j => journal'[i] < journal'[j]
             /\ \A i \in DOMAIN journal' : journal'[i] < line'
  BY <1>0, WriteAscends
<1> USE DEF TypeOK, PlaceInv, StatsAddUp, Pending, Running
<1>1. CASE UNCHANGED vars
  BY <1>1 DEF vars
<1>2. CASE Flags
  BY <1>2 DEF Flags, Goto, Exit, Still
<1>3. CASE Connect
  BY <1>3 DEF Connect, Goto, Exit, Still
<1>4. CASE FetchLldp
  BY <1>4 DEF FetchLldp, Goto, Exit, Still
<1>5. CASE FetchPhyEth
  BY <1>5 DEF FetchPhyEth, Goto, Exit, Still
<1>6. CASE Open
  BY <1>6 DEF Open, Goto, Exit, Still
<1>7. CASE SkipBlank
  BY <1>7 DEF SkipBlank, Goto, Exit, Still, HasLine
<1>8. CASE TooLong
  BY <1>8 DEF TooLong, Goto, Exit, Still, HasLine
<1>9. CASE Take
  BY <1>9, TakeCounts DEF Take, Goto, Exit, Still, HasLine
<1>10. CASE Reject
  <2>1. /\ UNCHANGED <<tool, set, journal>> /\ pc \in {"validate", "write"}
        /\ pc' \in {"read", "exited"} /\ exit' \in {exit, "1"} /\ line' \in {line, line + 1}
    BY <1>10 DEF Reject, Goto, Exit, Still, AfterFailure
  <2>2. /\ stats'.total = stats.total /\ stats'.success = stats.success
        /\ stats'.failed = IF tool = "client" THEN stats.failed + 1 ELSE stats.failed
    BY <1>10, FailureCounts DEF Reject
  <2>3. stats.success \in Nat /\ stats.failed \in Nat /\ line \in Nat
    BY DEF TypeOK
  <2>4. \A i \in DOMAIN journal' : journal'[i] < line'
    BY <2>1, <2>3, JournalType DEF StatsAddUp
  <2>5. QED BY <2>1, <2>2, <2>3, <2>4
<1>11. CASE Accept
  BY <1>11 DEF Accept, Goto, Exit, Still, Valid
<1>12. CASE Size
  BY <1>12, SizeCounts DEF Size, Goto, Exit, Still
<1>13. CASE WriteSucceeds
  <2>1. /\ UNCHANGED <<tool, set>> /\ pc = "write" /\ pc' = "read" /\ exit' = exit
        /\ line' = line + 1
    BY <1>13 DEF WriteSucceeds, Goto, Still
  <2>2. stats' \in Count /\ stats'.total = stats.total /\ stats'.failed = stats.failed
    BY <1>13, SuccessCounts
  <2>3. stats'.success = IF tool = "client" THEN stats.success + 1 ELSE stats.success
    BY <1>13, SuccessCounts
  <2>4. Len(journal') = Len(journal) + 1
    BY <1>13, AppendEffect DEF WriteSucceeds
  <2>5. /\ \A i, j \in DOMAIN journal' : i < j => journal'[i] < journal'[j]
        /\ \A i \in DOMAIN journal' : journal'[i] < line'
    BY <1>13, <1>0
  <2>6. {stats.total, stats.success, stats.failed, Len(journal)} \subseteq Nat
    BY JournalType DEF TypeOK
  <2>7. tool = "client" /\ ~set.test /\ exit # "2" =>
          stats.total = stats.success + stats.failed + 1
    BY <2>1 DEF StatsAddUp, Pending
  <2>8. tool' = "client" /\ ~set'.test /\ exit' # "2" =>
          stats'.total = stats'.success + stats'.failed
    BY <2>1, <2>2, <2>3, <2>6, <2>7
  <2>9. ~Pending' /\ stats'.success \in Nat /\ stats'.failed \in Nat
    BY <2>1, <2>2, <2>3, <2>6 DEF Pending
  <2>10. tool' = "client" => stats'.success = Len(journal')
    BY <2>1, <2>3, <2>4, <2>6 DEF StatsAddUp
  <2>11. QED BY <2>5, <2>8, <2>9, <2>10 DEF StatsAddUp
<1>14. CASE WriteFails
  BY <1>14, FailureCounts DEF WriteFails, Goto, Exit, Still, AfterFailure, Continues
<1>15. CASE Finish
  BY <1>15 DEF Finish, Goto, Exit, Still
<1>16. QED
  BY <1>1, <1>2, <1>3, <1>4, <1>5, <1>6, <1>7, <1>8, <1>9, <1>10, <1>11, <1>12,
     <1>13, <1>14, <1>15 DEF Next, Exited

\* The statistics of the client add up and say what is in the log, for inputs
\* of any length.
THEOREM StatisticsAddUp == Spec => []StatsAddUp
<1>1. QED
  BY InitSyslogType, StepSyslogType, InitPlace, StepPlace, InitStats, StepStats, PTL DEF Spec

-----------------------------------------------------------------------------
(* What the exit status says.                                              *)

\* The numbers of the lines that are written are a set that grows by one.
LEMMA WriteEffect ==
  ASSUME TypeOK, WriteSucceeds
  PROVE  ToSet(journal') = ToSet(journal) \cup {line} /\ Len(journal') = Len(journal) + 1
<1>1. journal \in Seq(Nat) /\ line \in Nat
  BY DEF TypeOK
<1>2. journal' = Append(journal, line)
  BY DEF WriteSucceeds
<1>3. QED BY <1>1, <1>2, AppendEffect

Writes == tool \in {"client", "phyeth"} /\ ~set.test

\* Of the lines before the next one: what is in the log is one of them; all
\* entries are in the log unless a failure was counted; if one was, or the tool
\* gave up after the first line, some entry is not.
WrittenInv ==
  /\ \A i \in ToSet(journal) : i \in Entry /\ i < line
  /\ Writes /\ stats.failed = 0 => \A i \in Entry : i < line => i \in ToSet(journal)
  /\ stats.failed > 0 \/ (exit \in {"1", "2"} /\ line > 1) =>
       \E i \in Entry : i \notin ToSet(journal) /\ (pc = "exited" \/ i < line)
  /\ tool = "phyeth" /\ ~set.test =>
       Len(journal) = line - 1 /\ ToSet(journal) = 1..Len(journal)
  /\ exit = "0" /\ set.source # "help" => line \notin DOMAIN input /\ stats.failed = 0

\* Before the first line nothing is written.
LEMMA InitWritten == Init => WrittenInv
<1> SUFFICES ASSUME Init PROVE WrittenInv
  OBVIOUS
<1>1. ToSet(journal) = {} /\ Len(journal) = 0 /\ line = 1 /\ 1..0 = {}
  BY DEF Init, ToSet
<1>2. stats.failed = 0 /\ exit \notin {"0", "1", "2"}
  BY DEF Init, Counts, Running
<1>3. \A i \in Entry : ~(i < line)
  <2>1. input \in Seq(Kind)
    BY InitSyslogType DEF TypeOK
  <2>2. QED BY <1>1, <2>1 DEF Entry
<1>4. QED BY <1>1, <1>2, <1>3 DEF WrittenInv

\* Lines and counts are numbers.
LEMMA NumberTypes ==
  ASSUME TypeOK
  PROVE  /\ line \in Nat /\ line >= 1 /\ Len(journal) \in Nat /\ stats.failed \in Nat
         /\ DOMAIN input = 1..Len(input) /\ Len(input) \in Nat
BY DEF TypeOK

\* Every step keeps WrittenInv.
LEMMA StepWritten == TypeOK /\ PlaceInv /\ WrittenInv /\ [Next]_vars => WrittenInv'
<1> SUFFICES ASSUME TypeOK, PlaceInv, WrittenInv, [Next]_vars PROVE WrittenInv'
  OBVIOUS
<1> USE NumberTypes DEF PlaceInv, WrittenInv, Writes, Entry, Running
<1>1. CASE UNCHANGED vars
  BY <1>1 DEF vars
<1>2. CASE Flags
  BY <1>2 DEF Flags, Goto, Exit, Still
<1>3. CASE Connect
  BY <1>3 DEF Connect, Goto, Exit, Still
<1>4. CASE FetchLldp
  BY <1>4 DEF FetchLldp, Goto, Exit, Still
<1>5. CASE FetchPhyEth
  BY <1>5 DEF FetchPhyEth, Goto, Exit, Still
<1>6. CASE Open
  BY <1>6 DEF Open, Goto, Exit, Still
<1>7. CASE SkipBlank
  BY <1>7, StartableInputs DEF SkipBlank, Goto, Exit, Still, HasLine
<1>8. CASE TooLong
  BY <1>8 DEF TooLong, Goto, Exit, Still, HasLine
<1>9. CASE Take
  BY <1>9, TakeCounts DEF Take, Goto, Exit, Still, HasLine
<1>10. CASE Reject
  BY <1>10, FailureCounts DEF Reject, Goto, Exit, Still, AfterFailure, Continues, Valid
<1>11. CASE Accept
  BY <1>11 DEF Accept, Goto, Exit, Still, Valid
<1>12. CASE Size
  BY <1>12, SizeCounts DEF Size, Goto, Exit, Still
<1>13. CASE WriteSucceeds
  <2>1. /\ UNCHANGED <<tool, set, input, exit>> /\ pc = "write" /\ pc' = "read"
        /\ line' = line + 1 /\ line \in Entry /\ exit = Running
    BY <1>13 DEF WriteSucceeds, Goto, Still
  <2>2. ToSet(journal') = ToSet(journal) \cup {line} /\ Len(journal') = Len(journal) + 1
    BY <1>13, WriteEffect
  <2>3. stats'.failed = stats.failed
    BY <1>13, SuccessCounts
  <2>4. \A i \in ToSet(journal') : i \in Entry' /\ i < line'
    BY <2>1, <2>2
  <2>5. Writes' /\ stats'.failed = 0 => \A i \in Entry' : i < line' => i \in ToSet(journal')
    BY <2>1, <2>2, <2>3
  <2>6. stats'.failed > 0 \/ (exit' \in {"1", "2"} /\ line' > 1) =>
          \E i \in Entry' : i \notin ToSet(journal') /\ (pc' = "exited" \/ i < line')
    BY <2>1, <2>2, <2>3
  <2>7. tool' = "phyeth" /\ ~set'.test =>
          Len(journal') = line' - 1 /\ ToSet(journal') = 1..Len(journal')
    BY <2>1, <2>2
  <2>8. QED BY <2>1, <2>4, <2>5, <2>6, <2>7
<1>14. CASE WriteFails
  BY <1>14, FailureCounts DEF WriteFails, Goto, Exit, Still, AfterFailure, Continues
<1>15. CASE Finish
  BY <1>15 DEF Finish, Goto, Exit, Still
<1>16. QED
  BY <1>1, <1>2, <1>3, <1>4, <1>5, <1>6, <1>7, <1>8, <1>9, <1>10, <1>11, <1>12,
     <1>13, <1>14, <1>15 DEF Next, Exited

\* The lines a test would accept.
Fine(i) == input[i] # "invalid" /\ (set.source = "file" => input[i] # "huge")

\* As long as no failure is counted, what the client has read is fine; a test
\* that fails has met a line that is not.
ReadInv == tool = "client" =>
  /\ stats.failed = 0 /\ (set.test \/ set.size = "usual") => \A i \in Entry : i < line => Fine(i)
  /\ pc \in {"validate", "size", "write"} /\ set.source = "file" => input[line] # "huge"
  /\ pc \in {"size", "write"} => input[line] # "invalid"
  /\ set.test /\ (stats.failed > 0 \/ (exit = "1" /\ line > 1)) => ~Clean

\* Before the first line nothing is read.
LEMMA InitRead == Init => ReadInv
<1> SUFFICES ASSUME Init PROVE ReadInv
  OBVIOUS
<1>1. line = 1 /\ stats.failed = 0 /\ exit # "1" /\ pc = "start"
  BY DEF Init, Counts, Running
<1>2. \A i \in Entry : ~(i < line)
  BY <1>1, InitSyslogType, NumberTypes DEF Entry
<1>3. QED BY <1>1, <1>2 DEF ReadInv

\* Every step keeps ReadInv.
LEMMA StepRead == TypeOK /\ PlaceInv /\ ReadInv /\ [Next]_vars => ReadInv'
<1> SUFFICES ASSUME TypeOK, PlaceInv, ReadInv, [Next]_vars PROVE ReadInv'
  OBVIOUS
<1> USE NumberTypes DEF PlaceInv, ReadInv, Fine, Clean, Entry, Running
<1>1. CASE UNCHANGED vars
  BY <1>1 DEF vars
<1>2. CASE Flags
  BY <1>2 DEF Flags, Goto, Exit, Still
<1>3. CASE Connect
  BY <1>3 DEF Connect, Goto, Exit, Still
<1>4. CASE FetchLldp
  BY <1>4 DEF FetchLldp, Goto, Exit, Still
<1>5. CASE FetchPhyEth
  BY <1>5 DEF FetchPhyEth, Goto, Exit, Still
<1>6. CASE Open
  BY <1>6 DEF Open, Goto, Exit, Still
<1>7. CASE SkipBlank
  BY <1>7, StartableInputs DEF SkipBlank, Goto, Exit, Still, HasLine
<1>8. CASE TooLong
  BY <1>8 DEF TooLong, Goto, Exit, Still, HasLine
<1>9. CASE Take
  BY <1>9, TakeCounts DEF Take, Goto, Exit, Still, HasLine
<1>10. CASE Reject
  BY <1>10, FailureCounts DEF Reject, Goto, Exit, Still, AfterFailure, Continues, Valid
<1>11. CASE Accept
  BY <1>11 DEF Accept, Goto, Exit, Still, Valid
<1>12. CASE Size
  BY <1>12, SizeCounts DEF Size, Goto, Exit, Still
<1>13. CASE WriteSucceeds
  BY <1>13, SuccessCounts, WriteEffect DEF WriteSucceeds, Goto, Exit, Still
<1>14. CASE WriteFails
  BY <1>14, FailureCounts DEF WriteFails, Goto, Exit, Still, AfterFailure, Continues
<1>15. CASE Finish
  BY <1>15 DEF Finish, Goto, Exit, Still
<1>16. QED
  BY <1>1, <1>2, <1>3, <1>4, <1>5, <1>6, <1>7, <1>8, <1>9, <1>10, <1>11, <1>12,
     <1>13, <1>14, <1>15 DEF Next, Exited

-----------------------------------------------------------------------------
(* The properties.                                                         *)

SyslogInv == TypeOK /\ PlaceInv /\ StatsAddUp /\ WrittenInv /\ ReadInv

\* The conjunction holds in every reachable state.
THEOREM SyslogInvariant == Spec => []SyslogInv
<1>1. QED
  BY InitSyslogType, StepSyslogType, InitPlace, StepPlace, InitStats, StepStats,
     InitWritten, StepWritten, InitRead, StepRead, PTL DEF Spec, SyslogInv

\* A success means that every entry was written, a failure that some was not,
\* for inputs of any length.
THEOREM ExitIsTruthful == Spec => []ExitTellsTruth
<1>1. SyslogInv => ExitTellsTruth
  <2> SUFFICES ASSUME SyslogInv, exit # Running, ~set.test, set.source # "help"
               PROVE  /\ exit = "0" /\ tool \in {"client", "phyeth"} => ToSet(journal) = Entry
                      /\ exit # "0" /\ line > 1 => ToSet(journal) # Entry
                      /\ tool = "phyeth" => ToSet(journal) = 1..Len(journal)
    BY DEF ExitTellsTruth
  <2> USE DEF SyslogInv, WrittenInv
  <2>1. ASSUME exit = "0", tool \in {"client", "phyeth"} PROVE ToSet(journal) = Entry
    <3>1. line > Len(input)
      BY <2>1, NumberTypes
    <3>2. \A i \in Entry : i < line
      BY <3>1, NumberTypes DEF Entry
    <3>3. QED BY <2>1, <3>2 DEF Writes
  <2>2. ASSUME exit # "0", line > 1 PROVE ToSet(journal) # Entry
    BY <2>2 DEF TypeOK
  <2>3. QED BY <2>1, <2>2
<1>2. QED BY <1>1, SyslogInvariant, PTL

\* The test mode of the client predicts what a run would do, for inputs of any
\* length.
THEOREM TestsPredict == Spec => []TestPredicts
<1>1. SyslogInv => TestPredicts
  <2> SUFFICES ASSUME SyslogInv, tool = "client", set.source \in {"file", "entry"},
                      set.size = "usual"
               PROVE  /\ exit = "0" => Clean
                      /\ exit = "1" /\ line > 1 /\ set.test => ~Clean
                      /\ exit = "1" /\ line > 1 /\ ~set.test /\ Clean =>
                           \E i \in Entry : i \notin ToSet(journal)
    BY DEF TestPredicts
  <2> USE DEF SyslogInv, WrittenInv, ReadInv
  <2>1. ASSUME exit = "0" PROVE Clean
    <3>1. line > Len(input) /\ stats.failed = 0
      BY <2>1, NumberTypes
    <3>2. \A i \in Entry : i < line
      BY <3>1, NumberTypes DEF Entry
    <3>3. QED BY <3>1, <3>2 DEF Clean, Fine
  <2>2. QED BY <2>1
<1>2. QED BY <1>1, SyslogInvariant, PTL
=============================================================================
