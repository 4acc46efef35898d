----------------------------- MODULE BatchLedger -----------------------------
(***************************************************************************)
(* What the subscribe-mode batching of the telemetry collector promises,   *)
(* with no goroutine, mutex or timer in sight: an entry handed over by a   *)
(* transformer is buffered once, and a buffered entry is then either       *)
(* posted or dropped with an error in the log.  It never is both, it is    *)
(* never posted a second time, and it never comes back.                    *)
(*                                                                         *)
(* Subscriber.tla is shown to implement this specification.                *)
(***************************************************************************)
CONSTANT Entry

VARIABLES buffered, posted, dropped

ledger == <<buffered, posted, dropped>>

Known == buffered \cup posted \cup dropped

LInit == buffered = {} /\ posted = {} /\ dropped = {}

\* Entries never seen before enter the buffer (tableBatch.add).
Accept(E) == /\ E # {}
             /\ E \cap Known = {}
             /\ buffered' = buffered \cup E
             /\ UNCHANGED <<posted, dropped>>

\* Part of the buffer reaches its destination (flushBatch, Send succeeded).
Post(E) == /\ E # {}
           /\ E \subseteq buffered
           /\ buffered' = buffered \ E
           /\ posted' = posted \cup E
           /\ UNCHANGED dropped

\* Part of the buffer is given up (flushBatch, Send failed or no logger).
Drop(E) == /\ E # {}
           /\ E \subseteq buffered
           /\ buffered' = buffered \ E
           /\ dropped' = dropped \cup E
           /\ UNCHANGED posted

LNext == \E E \in SUBSET Entry : Accept(E) \/ Post(E) \/ Drop(E)

LedgerSpec == LInit /\ [][LNext]_ledger
=============================================================================
