------------------------------- MODULE CertTrust -------------------------------
(***************************************************************************)
(* How the collector comes to trust the switch's certificate, keeps that   *)
(* trust across restarts and repairs it after a rotation:                  *)
(* gnmi.NewClient and internal/gnmi/tls.go, called from main.go at startup *)
(* and from the repair branch of Collector.RunStream.                      *)
(*                                                                         *)
(* With ca_file set (caFile) the trusted certificate is the content of a   *)
(* file; without it the collector trusts on first use (TOFU) whatever the  *)
(* server presents when a client is built.  The switch may replace its     *)
(* certificate between any two steps, the process may be killed between    *)
(* any two steps and is then restarted by systemd, and the operator may    *)
(* copy the switch's certificate into ca_file by hand.                     *)
(***************************************************************************)
EXTENDS Naturals

CONSTANTS Cert,          \* certificates the switch may present
          Verifiable,    \* those a handshake accepts when they are in the pool:
                         \* in date, and named after the address that is dialled
          CaFiles,       \* values of cfg.Target.TLS.CAFile # "" to consider
          InitialFiles,  \* what ca_file may hold before the first start
          ReadMayFail,   \* os.Stat and os.ReadFile may fail on a ca_file that is there
          MaxUnread,     \* bound on such failures that RefetchAndSave swallows
          MaxRotations, MaxEdits,  \* bounds on the environment
          MaxCrashes,    \* the same, with and without ca_file
          MaxStrikes     \* bound on the history counter

Absent  == "absent"
Garbage == "garbage"     \* not a PEM certificate

ASSUME CertAssumption == /\ Verifiable \subseteq Cert
                         /\ CaFiles \subseteq BOOLEAN /\ ReadMayFail \in BOOLEAN
                         /\ {Absent, Garbage} \cap Cert = {}
                         /\ InitialFiles \subseteq Cert \cup {Absent, Garbage}
                         /\ {MaxRotations, MaxEdits, MaxUnread} \subseteq Nat
                         /\ MaxStrikes \in Nat \ {0}
                         /\ MaxCrashes \in [BOOLEAN -> Nat]

VARIABLES
  caFile,    \* a ca_file is configured; the same for ever
  pc,        \* where the process is
  by,        \* who builds a client: "boot" (main) or "heal" (RunStream)
  probed,    \* certificate the last probe fetched
  pool,      \* certificate the current client trusts
  server,    \* certificate the switch presents
  file, tmp, \* ca_file and its ".tmp" sibling
  rotations, crashes, edits,
  failed,    \* history: certificate presented at the last handshake that
             \* failed since the loop last waited
  strikes,   \* history: handshakes it has failed in a row since then, or
             \* since the switch last changed its certificate
  unread,    \* history: failed reads that RefetchAndSave has swallowed since then
  cause      \* history: why BootstrapCert has probed the switch since then

env  == <<server, rotations>>
disk == <<caFile, file, tmp>>
hist == <<failed, strikes, unread, cause>>
vars == <<pc, by, probed, pool, env, disk, crashes, edits, hist>>

PC == {"down", "new", "saveBoot", "renameBoot", "caps", "connect", "stream",
       "certError", "refetch", "saveHeal", "renameHeal", "backoff"}

TypeOK ==
  /\ caFile \in CaFiles
  /\ pc \in PC /\ by \in {"boot", "heal"}
  /\ {probed, pool, failed} \subseteq Cert \cup {Absent}
  /\ server \in Cert
  /\ {file, tmp} \subseteq Cert \cup {Absent, Garbage}
  /\ strikes \in 0..MaxStrikes /\ unread \in 0..MaxUnread
  /\ cause \in {"none", "missing", "statError"}
  /\ rotations \in 0..MaxRotations /\ crashes \in 0..MaxCrashes[caFile] /\ edits \in 0..MaxEdits

Init ==
  /\ caFile \in CaFiles
  /\ pc = "down" /\ by = "boot"
  /\ probed = Absent /\ pool = Absent
  /\ failed = Absent /\ strikes = 0 /\ unread = 0 /\ cause = "none"
  /\ server \in Cert
  /\ file \in InitialFiles /\ tmp = Absent
  /\ rotations = 0 /\ crashes = 0 /\ edits = 0

\* The TLS handshake of a gRPC connection, against what the switch now has.
Handshake == server = pool /\ server \in Verifiable

\* The history restarts when the loop is about to wait, or a stream is up.
Waited == failed' = Absent /\ strikes' = 0 /\ unread' = 0 /\ cause' = "none"

-----------------------------------------------------------------------------
(* NewClient.                                                              *)

Start ==
  /\ pc = "down"
  /\ pc' = "new" /\ by' = "boot"
  /\ UNCHANGED <<probed, pool, env, disk, crashes, edits, hist>>

\* NewClient fails: log.Fatalf at startup, a backoff in the repair branch.
NoClient ==
  /\ pc' = IF by = "boot" THEN "down" ELSE "backoff"
  /\ Waited
  /\ UNCHANGED <<by, probed, pool, env, crashes, edits>>

\* NewClient returns (the dial does not block): main goes on to Capabilities,
\* the repair branch replaces the client and connects without waiting.
Client(c) ==
  /\ pool' = c
  /\ pc' = IF by = "boot" THEN "caps" ELSE "connect"
  /\ UNCHANGED by

\* BootstrapCert, file present and os.Stat tells so.
LoadFile ==
  /\ pc = "new" /\ caFile /\ file \in Cert
  /\ Client(file)
  /\ UNCHANGED <<probed, env, disk, crashes, edits, hist>>

LoadFails ==
  /\ pc = "new" /\ caFile
  /\ file = Garbage \/ (ReadMayFail /\ file \in Cert)
  /\ NoClient /\ UNCHANGED disk

\* BootstrapCert without a file and TOFUCertPool: the certificate that the
\* switch presents is saved, or trusted as it is.
Fetch(why) ==
  /\ probed' = server /\ cause' = why
  /\ IF caFile THEN pc' = "saveBoot" /\ UNCHANGED <<by, pool>> ELSE Client(server)
  /\ UNCHANGED <<env, disk, crashes, edits, failed, strikes, unread>>

\* Seeded fault: an existing file is not looked at.
ProbeAlways == pc = "new" /\ Fetch("missing")

Probe == pc = "new" /\ (caFile => file = Absent) /\ Fetch("missing")

\* Every error of os.Stat is taken for a missing file.
StatFails == pc = "new" /\ caFile /\ ReadMayFail /\ file # Absent /\ Fetch("statError")

ProbeFails ==
  /\ pc = "new" /\ (caFile => file = Absent \/ ReadMayFail)
  /\ NoClient /\ UNCHANGED disk

\* Capabilities, the first RPC of main: an error is fatal.
Capabilities ==
  /\ pc = "caps"
  /\ pc' = IF Handshake THEN "connect" ELSE "down"
  /\ UNCHANGED <<by, probed, pool, env, disk, crashes, edits, hist>>

-----------------------------------------------------------------------------
(* SaveCertPEM: a temporary file, then a rename.                           *)

WriteTmp ==
  /\ pc \in {"saveBoot", "saveHeal"}
  /\ tmp' = probed /\ UNCHANGED <<caFile, file>>
  /\ pc' = IF pc = "saveBoot" THEN "renameBoot" ELSE "renameHeal"
  /\ UNCHANGED <<by, probed, pool, env, crashes, edits, hist>>

\* What a kill leaves on disk.
\* Seeded fault: the certificate is written to ca_file itself.
KillInPlace == IF pc \in {"saveBoot", "saveHeal"}
               THEN file' \in {file, probed, Garbage} /\ UNCHANGED <<caFile, tmp>>
               ELSE UNCHANGED disk

Kill == IF pc \in {"saveBoot", "saveHeal"}
        THEN tmp' \in {tmp, probed, Garbage} /\ UNCHANGED <<caFile, file>>
        ELSE UNCHANGED disk

\* An error from the file system: SaveCertPEM's caller gives up.
WriteFails ==
  /\ pc \in {"saveBoot", "saveHeal"}
  /\ NoClient
  /\ tmp' \in {tmp, Garbage} /\ UNCHANGED <<caFile, file>>

RenameFails ==
  /\ pc \in {"renameBoot", "renameHeal"}
  /\ NoClient
  /\ tmp' = Absent /\ UNCHANGED <<caFile, file>>

\* BootstrapCert returns a pool with the probed certificate; RunStream goes
\* through NewClient, which loads the file again.
Rename ==
  /\ pc \in {"renameBoot", "renameHeal"}
  /\ file' = tmp /\ tmp' = Absent /\ UNCHANGED caFile
  /\ IF pc = "renameBoot" THEN Client(probed) ELSE pc' = "new" /\ UNCHANGED <<by, pool>>
  /\ UNCHANGED <<probed, env, crashes, edits, hist>>

-----------------------------------------------------------------------------
(* The subscribe loop.                                                     *)

Connect ==
  /\ pc = "connect" /\ Handshake
  /\ pc' = "stream" /\ Waited
  /\ UNCHANGED <<by, probed, pool, env, disk, crashes, edits>>

Rejected ==
  /\ pc = "connect" /\ ~Handshake
  /\ pc' = "certError" /\ failed' = server
  /\ strikes' = IF failed # server THEN 1
                ELSE IF strikes < MaxStrikes THEN strikes + 1 ELSE strikes
  /\ UNCHANGED <<by, probed, pool, env, disk, crashes, edits, unread, cause>>

\* The stream ends, or the switch cannot be reached: no certificate error.
StreamBreaks ==
  /\ pc \in {"stream", "connect"}
  /\ pc' = "backoff" /\ Waited
  /\ UNCHANGED <<by, probed, pool, env, disk, crashes, edits>>

\* Seeded fault: a certificate error is treated like any other.
RepairByWaiting ==
  /\ pc = "certError"
  /\ pc' = "backoff" /\ UNCHANGED by
  /\ UNCHANGED <<probed, pool, env, disk, crashes, edits, hist>>

Repair ==
  /\ pc = "certError"
  /\ pc' = IF caFile THEN "refetch" ELSE "new"
  /\ by' = "heal"
  /\ UNCHANGED <<probed, pool, env, disk, crashes, edits, hist>>

\* RefetchAndSave: the probe is compared with the file, not with the pool.
\* Seeded fault: the comparison is missing.
RefetchAlways ==
  /\ pc = "refetch"
  /\ probed' = server /\ cause' = "none"
  /\ pc' = "saveHeal" /\ UNCHANGED <<failed, strikes, unread>>
  /\ UNCHANGED <<by, pool, env, disk, crashes, edits>>

Refetch ==
  /\ pc = "refetch"
  /\ probed' = server
  /\ IF file = server THEN pc' = "backoff" /\ Waited
     ELSE pc' = "saveHeal" /\ cause' = "none" /\ UNCHANGED <<failed, strikes, unread>>
  /\ UNCHANGED <<by, pool, env, disk, crashes, edits>>

\* A read that fails is not reported: the old fingerprint stays "(none)", and
\* the certificate that the file holds is saved as if it were a new one.
RefetchUnread ==
  /\ pc = "refetch" /\ ReadMayFail /\ file = server /\ unread < MaxUnread
  /\ unread' = unread + 1
  /\ probed' = server /\ cause' = "none"
  /\ pc' = "saveHeal"
  /\ UNCHANGED <<by, pool, env, disk, crashes, edits, failed, strikes>>

RefetchFails ==
  /\ pc = "refetch"
  /\ pc' = "backoff" /\ Waited
  /\ UNCHANGED <<by, probed, pool, env, disk, crashes, edits>>

Wait ==
  /\ pc = "backoff"
  /\ pc' = "connect"
  /\ UNCHANGED <<by, probed, pool, env, disk, crashes, edits, hist>>

-----------------------------------------------------------------------------
(* The environment.                                                        *)

Rotate ==
  /\ rotations < MaxRotations
  /\ server' \in Cert \ {server}
  /\ rotations' = rotations + 1 /\ strikes' = 0 /\ unread' = 0
  /\ UNCHANGED <<pc, by, probed, pool, disk, crashes, edits, failed, cause>>

Crash ==
  /\ pc # "down" /\ crashes < MaxCrashes[caFile]
  /\ crashes' = crashes + 1
  /\ pc' = "down" /\ pool' = Absent /\ probed' = Absent /\ Waited
  /\ Kill
  /\ UNCHANGED <<by, env, edits>>

\* The operator copies the switch's certificate into ca_file.
Install ==
  /\ caFile /\ edits < MaxEdits /\ file # server
  /\ edits' = edits + 1
  /\ file' = server /\ UNCHANGED <<caFile, tmp>>
  /\ UNCHANGED <<pc, by, probed, pool, env, crashes, hist>>

Process == \/ Start \/ LoadFile \/ LoadFails \/ Probe \/ StatFails \/ ProbeFails
           \/ Capabilities
           \/ WriteTmp \/ WriteFails \/ Rename \/ RenameFails
           \/ Connect \/ Rejected \/ StreamBreaks
           \/ Repair \/ Refetch \/ RefetchUnread \/ RefetchFails \/ Wait

Next == Process \/ Rotate \/ Crash \/ Install

Spec == Init /\ [][Next]_vars

\* Fairness.  The process runs and systemd restarts it (Restart=on-failure in
\* Arcnet_Sonic_gNMI_Setup).  Probes, writes and connections may fail any
\* number of times, but not for ever.  Nothing obliges a stream to break.
Fairness == /\ WF_vars(Start \/ Capabilities \/ Repair \/ Wait)
            /\ SF_vars(Probe) /\ SF_vars(Refetch) /\ SF_vars(LoadFile)
            /\ SF_vars(WriteTmp) /\ SF_vars(Rename)
            /\ SF_vars(Connect) /\ SF_vars(Rejected)

FairSpec == Spec /\ Fairness

-----------------------------------------------------------------------------
(* Properties.                                                             *)

\* A crash never leaves a truncated certificate in ca_file ("preventing
\* corruption on crash", SaveCertPEM).
FileIntact == [][file' = Garbage => file = Garbage]_vars

\* As long as no operator edits ca_file, the certificate pinned there is
\* replaced only by the one just fetched, and only while the process repairs a
\* rejected handshake or when os.Stat has failed on the file, which
\* BootstrapCert takes for a missing one, a restart's too: a broken stream, a
\* restart that can examine the file, or a failed probe never re-pins.
RepinHasCause ==
  [][(file \in Cert /\ file' # file /\ edits' = 0) =>
       /\ file' = probed
       /\ cause = "statError" \/ (failed # Absent /\ by' = "heal")]_vars

\* The reconnect loop does not present itself a third time to a switch that
\* rejected it twice with the same certificate unless it has waited, but for
\* one handshake more for each failed read of ca_file that RefetchAndSave has
\* swallowed: with ca_file the repair that skips the backoff becomes a busy
\* loop only as long as these reads keep failing.
StrikesBounded == caFile => strikes <= 2 + unread

\* What no repair overcomes: a certificate that cannot be verified, and a
\* ca_file that a restart finds stale, that the operator has edited, or that
\* could not be read after it was saved.
BeyondRepair == \/ server \notin Verifiable
                \/ caFile /\ crashes + edits > 0
                \/ caFile /\ pc = "backoff" /\ file \in Cert /\ pool # file

\* A rejected handshake is followed by a working stream in the end, with
\* ca_file or, over restarts too, without.
Recovers == pc = "certError" ~> (pc = "stream" \/ BeyondRepair)

\* A process that is down, or that could not start, streams in the end.
RestartRecovers == pc = "down" ~> pc = "stream"
=============================================================================
