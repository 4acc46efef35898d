------------------------------ MODULE MCCertTrust ------------------------------
(* Instances of CertTrust for TLC.                                          *)
EXTENDS CertTrust

CONSTANTS c1, c2, c3

MCCert == {c1, c2, c3}
MCExpired == {c1, c2}          \* c3 is out of date whoever pins it
MCNoFile == {Absent}
MCAnyFile == {Absent, Garbage, c1}
MCWithFile == {TRUE}
MCBoth == BOOLEAN
MCNoCrash == [b \in BOOLEAN |-> 0]
MCTwoCrashes == [b \in BOOLEAN |-> 2]
=============================================================================
