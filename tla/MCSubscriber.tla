----------------------------- MODULE MCSubscriber -----------------------------
(* Instance of Subscriber for TLC: three paths, two of them sharing a table *)
(* as the CPU and memory paths do.                                         *)
EXTENDS Subscriber

CONSTANTS t1, t2

MCTable == {t1, t2}
MCTableOf == <<t1, t2, t1>>
MCTableOf2 == <<t1, t2>>

=============================================================================
