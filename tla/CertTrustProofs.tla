---------------------------- MODULE CertTrustProofs ----------------------------
(***************************************************************************)
(* Theorems about CertTrust, for every set of certificates, verifiable or  *)
(* not, every first content of ca_file, and any number of rotations, kills *)
(* and edits.                                                              *)
(***************************************************************************)
EXTENDS CertTrust, TLAPS

-----------------------------------------------------------------------------
(* Types.                                                                  *)

\* The collector starts with well-typed variables.
LEMMA InitType == Init => TypeOK
BY CertAssumption DEF Init, TypeOK, PC

\* Every step keeps the types: a probe fetches a certificate of the switch, and
\* only what was probed or installed is written.
LEMMA StepType == TypeOK /\ [Next]_vars => TypeOK'
<1> SUFFICES ASSUME TypeOK, [Next]_vars PROVE TypeOK'
  OBVIOUS
<1> USE CertAssumption DEF TypeOK, PC, env, disk, hist, Waited
<1>1. ASSUME UNCHANGED vars PROVE TypeOK'
  BY <1>1 DEF vars
<1>2. ASSUME Start PROVE TypeOK'
  BY <1>2 DEF Start
<1>3. ASSUME LoadFile PROVE TypeOK'
  BY <1>3 DEF LoadFile, Client
<1>4. ASSUME LoadFails PROVE TypeOK'
  <2>1. pc' \in PC /\ failed' = Absent /\ strikes' = 0 /\ unread' = 0 /\ cause' = "none"
    BY <1>4 DEF LoadFails, NoClient
  <2>2. UNCHANGED <<by, probed, pool, env, disk, crashes, edits>>
    BY <1>4 DEF LoadFails, NoClient
  <2>3. QED BY <2>1, <2>2
<1>5. ASSUME Probe PROVE TypeOK'
  BY <1>5 DEF Probe, Fetch, Client
<1>6. ASSUME StatFails PROVE TypeOK'
  BY <1>6 DEF StatFails, Fetch, Client
<1>7. ASSUME ProbeFails PROVE TypeOK'
  BY <1>7 DEF ProbeFails, NoClient
<1>8. ASSUME Capabilities PROVE TypeOK'
  BY <1>8 DEF Capabilities
<1>9. ASSUME WriteTmp PROVE TypeOK'
  BY <1>9 DEF WriteTmp
<1>10. ASSUME WriteFails PROVE TypeOK'
  BY <1>10 DEF WriteFails, NoClient
<1>11. ASSUME Rename PROVE TypeOK'
  BY <1>11 DEF Rename, Client
<1>12. ASSUME RenameFails PROVE TypeOK'
  BY <1>12 DEF RenameFails, NoClient
<1>13. ASSUME Connect PROVE TypeOK'
  BY <1>13 DEF Connect
<1>14. ASSUME Rejected PROVE TypeOK'
  <2>1. strikes' \in 0..MaxStrikes
    BY <1>14 DEF Rejected
  <2>2. QED BY <1>14, <2>1 DEF Rejected
<1>15. ASSUME StreamBreaks PROVE TypeOK'
  BY <1>15 DEF StreamBreaks
<1>16. ASSUME Repair PROVE TypeOK'
  BY <1>16 DEF Repair
<1>17. ASSUME Refetch PROVE TypeOK'
  BY <1>17 DEF Refetch
<1>18. ASSUME RefetchUnread PROVE TypeOK'
  BY <1>18 DEF RefetchUnread
<1>19. ASSUME RefetchFails PROVE TypeOK'
  BY <1>19 DEF RefetchFails
<1>20. ASSUME Wait PROVE TypeOK'
  BY <1>20 DEF Wait
<1>21. ASSUME Rotate PROVE TypeOK'
  BY <1>21 DEF Rotate
<1>22. ASSUME Crash PROVE TypeOK'
  <2>1. MaxCrashes[caFile] \in Nat
    OBVIOUS
  <2>2. crashes' \in 0..MaxCrashes[caFile]
    BY <1>22, <2>1 DEF Crash
  <2>3. {file', tmp'} \subseteq Cert \cup {Absent, Garbage} /\ caFile' = caFile
    BY <1>22 DEF Crash, Kill
  <2>4. QED BY <1>22, <2>2, <2>3 DEF Crash
<1>23. ASSUME Install PROVE TypeOK'
  <2>1. edits' \in 0..MaxEdits /\ file' \in Cert
    BY <1>23 DEF Install
  <2>2. UNCHANGED <<caFile, tmp, pc, by, probed, pool, server, rotations, crashes,
                    failed, strikes, unread, cause>>
    BY <1>23 DEF Install
  <2>3. QED BY <2>1, <2>2
<1>24. QED
  BY <1>1, <1>2, <1>3, <1>4, <1>5, <1>6, <1>7, <1>8, <1>9, <1>10, <1>11, <1>12,
     <1>13, <1>14, <1>15, <1>16, <1>17, <1>18, <1>19, <1>20, <1>21, <1>22, <1>23
     DEF Next, Process

\* The types of CertTrust hold in every reachable state.
THEOREM CertTypeCorrect == Spec => []TypeOK
<1>1. QED BY InitType, StepType, PTL DEF Spec

-----------------------------------------------------------------------------
(* What a pinned certificate is, and when it changes.                      *)

\* What is about to be saved was fetched; a first save finds no file unless an
\* operator made one or os.Stat failed on it, and a save of the repair follows
\* a rejected handshake.
PinInv ==
  /\ pc \in {"saveBoot", "renameBoot", "saveHeal", "renameHeal"} => probed \in Cert
  /\ pc \in {"renameBoot", "renameHeal"} => tmp = probed
  /\ pc \in {"saveBoot", "renameBoot"} /\ edits = 0 /\ cause # "statError" => file = Absent
  /\ pc \in {"certError", "refetch", "saveHeal", "renameHeal"} => failed \in Cert
  /\ pc \in {"refetch", "saveHeal", "renameHeal"} => by = "heal"

\* The first state has nothing to save.
LEMMA InitPin == Init => PinInv
BY DEF Init, PinInv

\* Every step keeps PinInv: a save is entered from a probe only.
LEMMA StepPin == TypeOK /\ PinInv /\ [Next]_vars => PinInv'
<1> SUFFICES ASSUME TypeOK, PinInv, [Next]_vars PROVE PinInv'
  OBVIOUS
<1> USE CertAssumption DEF TypeOK, PinInv, env, disk, hist, Waited
<1>1. CASE UNCHANGED vars
  BY <1>1 DEF vars
<1>2. CASE Start
  BY <1>2 DEF Start
<1>3. CASE LoadFile
  BY <1>3 DEF LoadFile, Client
<1>4. CASE LoadFails
  BY <1>4 DEF LoadFails, NoClient
<1>5. CASE Probe
  BY <1>5 DEF Probe, Fetch, Client
<1>6. CASE StatFails
  BY <1>6 DEF StatFails, Fetch, Client
<1>7. CASE ProbeFails
  BY <1>7 DEF ProbeFails, NoClient
<1>8. CASE Capabilities
  BY <1>8 DEF Capabilities
<1>9. CASE WriteTmp
  BY <1>9 DEF WriteTmp
<1>10. CASE WriteFails
  BY <1>10 DEF WriteFails, NoClient
<1>11. CASE Rename
  BY <1>11 DEF Rename, Client
<1>12. CASE RenameFails
  BY <1>12 DEF RenameFails, NoClient
<1>13. CASE Connect
  BY <1>13 DEF Connect
<1>14. CASE Rejected
  BY <1>14 DEF Rejected
<1>15. CASE StreamBreaks
  BY <1>15 DEF StreamBreaks
<1>16. CASE Repair
  BY <1>16 DEF Repair
<1>17. CASE Refetch
  BY <1>17 DEF Refetch
<1>18. CASE RefetchUnread
  BY <1>18 DEF RefetchUnread
<1>19. CASE RefetchFails
  BY <1>19 DEF RefetchFails
<1>20. CASE Wait
  BY <1>20 DEF Wait
<1>21. CASE Rotate
  BY <1>21 DEF Rotate
<1>22. CASE Crash
  BY <1>22 DEF Crash
<1>23. CASE Install
  BY <1>23 DEF Install
<1>24. QED
  BY <1>1, <1>2, <1>3, <1>4, <1>5, <1>6, <1>7, <1>8, <1>9, <1>10, <1>11, <1>12,
     <1>13, <1>14, <1>15, <1>16, <1>17, <1>18, <1>19, <1>20, <1>21, <1>22, <1>23
     DEF Next, Process

\* ca_file is written by a rename and by the operator, and by nothing else.
LEMMA FileWriters ==
  ASSUME Next, file' # file
  PROVE  Rename \/ Install
BY DEF Next, Process, Start, LoadFile, LoadFails, Probe, StatFails, Fetch, ProbeFails,
       Capabilities, WriteTmp, WriteFails, Rename, RenameFails, Connect, Rejected, StreamBreaks,
       Repair, Refetch, RefetchUnread, RefetchFails, Wait, Rotate, Crash, Install, Kill, NoClient,
       env, disk, hist

\* A kill in the middle of SaveCertPEM leaves ca_file as it was, for any
\* number of kills and restarts.
THEOREM FileStaysIntact == Spec => FileIntact
<1>1. ASSUME TypeOK, PinInv, [Next]_vars, file' = Garbage PROVE file = Garbage
  <2> SUFFICES ASSUME file' # file PROVE FALSE
    BY <1>1
  <2>1. Next
    BY <1>1 DEF vars, disk
  <2>2. CASE Rename
    BY <1>1, <2>2, CertAssumption DEF Rename, PinInv
  <2>3. CASE Install
    BY <1>1, <2>3, CertAssumption DEF Install, TypeOK
  <2>4. QED BY <2>1, <2>2, <2>3, FileWriters
<1>2. QED
  BY <1>1, InitType, StepType, InitPin, StepPin, PTL DEF Spec, FileIntact

\* A pin changes only to what was just fetched, in the repair of a rejected
\* handshake or after os.Stat has failed on it.
THEOREM PinChangesHaveCause == Spec => RepinHasCause
<1>1. ASSUME TypeOK, PinInv, [Next]_vars, file \in Cert, file' # file, edits' = 0
      PROVE  file' = probed /\ (cause = "statError" \/ (failed # Absent /\ by' = "heal"))
  <2>1. Next
    BY <1>1 DEF vars, disk
  <2>2. CASE Rename
    <3>1. edits = 0 /\ file' = probed
      BY <1>1, <2>2 DEF Rename, PinInv
    <3>2. CASE pc = "renameBoot"
      BY <1>1, <3>1, <3>2, CertAssumption DEF PinInv, TypeOK
    <3>3. CASE pc = "renameHeal"
      BY <1>1, <2>2, <3>1, <3>3, CertAssumption DEF Rename, PinInv
    <3>4. QED BY <2>2, <3>2, <3>3 DEF Rename
  <2>3. CASE Install
    BY <1>1, <2>3 DEF Install, TypeOK
  <2>4. QED BY <1>1, <2>1, <2>2, <2>3, FileWriters
<1>2. QED
  BY <1>1, InitType, StepType, InitPin, StepPin, PTL DEF Spec, RepinHasCause

-----------------------------------------------------------------------------
(* The repair without a wait.                                              *)

\* Where a repair is, after the handshakes the switch has rejected: after one,
\* what is saved, and then loaded, is the certificate of the switch; after two
\* the file holds it already, and the repair waits unless it cannot read it.
StrikeInv == caFile =>
  /\ strikes > 0 => failed = server
  /\ pc \in {"down", "caps", "stream", "backoff"} => strikes = 0
  /\ pc \in {"new", "saveBoot", "renameBoot"} /\ by = "boot" => strikes = 0
  /\ strikes > 0 /\ pc \in {"new", "connect"} => file = server /\ strikes <= 1 + unread
  /\ strikes > 0 /\ pc \in {"saveHeal", "renameHeal", "saveBoot", "renameBoot"}
       => probed = server /\ strikes <= 1 + unread
  /\ strikes > 1 => file = server
  /\ strikes <= 2 + unread

\* The first state has no strikes.
LEMMA InitStrikes == Init => StrikeInv
BY DEF Init, StrikeInv

\* Every step keeps StrikeInv: a rotation starts the count again, and so does
\* whatever leads to the backoff.
LEMMA StepStrikes == TypeOK /\ PinInv /\ StrikeInv /\ [Next]_vars => StrikeInv'
<1> SUFFICES ASSUME TypeOK, PinInv, StrikeInv, [Next]_vars, caFile' PROVE StrikeInv'
  BY DEF StrikeInv
<1>0. caFile /\ caFile' = caFile
  BY DEF Next, Process, Start, LoadFile, LoadFails, Probe, StatFails, Fetch, ProbeFails,
         Capabilities, WriteTmp, WriteFails, Rename, RenameFails, Connect, Rejected, StreamBreaks,
         Repair, Refetch, RefetchUnread, RefetchFails, Wait, Rotate, Crash, Install, Kill, NoClient,
         vars, env, disk, hist
<1> USE <1>0, CertAssumption DEF TypeOK, PinInv, StrikeInv, env, disk, hist, Waited
<1>1. CASE UNCHANGED vars
  BY <1>1 DEF vars
<1>2. CASE Start
  BY <1>2 DEF Start
<1>3. CASE LoadFile
  BY <1>3 DEF LoadFile, Client
<1>4. CASE LoadFails
  BY <1>4 DEF LoadFails, NoClient
<1>5. CASE Probe
  BY <1>5 DEF Probe, Fetch, Client
<1>6. CASE StatFails
  BY <1>6 DEF StatFails, Fetch, Client
<1>7. CASE ProbeFails
  BY <1>7 DEF ProbeFails, NoClient
<1>8. CASE Capabilities
  BY <1>8 DEF Capabilities
<1>9. CASE WriteTmp
  BY <1>9 DEF WriteTmp
<1>10. CASE WriteFails
  BY <1>10 DEF WriteFails, NoClient
<1>11. CASE Rename
  BY <1>11 DEF Rename, Client
<1>12. CASE RenameFails
  BY <1>12 DEF RenameFails, NoClient
<1>13. CASE Connect
  BY <1>13 DEF Connect
<1>14. CASE Rejected
  BY <1>14 DEF Rejected
<1>15. CASE StreamBreaks
  BY <1>15 DEF StreamBreaks
<1>16. CASE Repair
  BY <1>16 DEF Repair
<1>17. CASE Refetch
  BY <1>17 DEF Refetch
<1>18. CASE RefetchUnread
  BY <1>18 DEF RefetchUnread
<1>19. CASE RefetchFails
  BY <1>19 DEF RefetchFails
<1>20. CASE Wait
  BY <1>20 DEF Wait
<1>21. CASE Rotate
  BY <1>21 DEF Rotate
<1>22. CASE Crash
  BY <1>22 DEF Crash
<1>23. CASE Install
  BY <1>23 DEF Install
<1>24. QED
  BY <1>1, <1>2, <1>3, <1>4, <1>5, <1>6, <1>7, <1>8, <1>9, <1>10, <1>11, <1>12,
     <1>13, <1>14, <1>15, <1>16, <1>17, <1>18, <1>19, <1>20, <1>21, <1>22, <1>23
     DEF Next, Process

\* With a ca_file the repair that does not wait presents itself at most twice
\* to a switch that rejects it, and once more for each read of the file that
\* fails: it never becomes a busy loop by itself.
THEOREM RepairBoundedByReads == Spec => []StrikesBounded
<1>1. TypeOK /\ StrikeInv => StrikesBounded
  BY CertAssumption DEF TypeOK, StrikeInv, StrikesBounded
<1>2. QED
  BY <1>1, InitType, StepType, InitPin, StepPin, InitStrikes, StepStrikes, PTL DEF Spec
=============================================================================
