-------------------------------- MODULE MCSyslog --------------------------------
(* Instance of Syslog for TLC: inputs of up to four lines.                  *)
EXTENDS Syslog
=============================================================================
