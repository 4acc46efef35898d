------------------------------- MODULE MCPoller -------------------------------
(* An instance of Poller for TLC: three paths, two of which share a table,  *)
(* and every way to start the process.                                      *)
EXTENDS Poller

CONSTANTS t1, t2

MCTable == {t1, t2}
MCTableOf == <<t1, t2, t1>>
=============================================================================
