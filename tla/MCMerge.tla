-------------------------------- MODULE MCMerge --------------------------------
(* Instances of Merge for TLC: CPU, memory and load make one row of system  *)
(* resources; entries about Ethernet and aggregate interfaces are one per   *)
(* interface; "raw" is not a map.                                           *)
EXTENDS Merge

MCSource == {"cpu", "memory", "load", "ethernet", "aggregate", "raw"}
MCTypeOf == [s \in MCSource |-> IF s \in {"cpu", "memory", "load"} THEN "resources"
                                ELSE IF s = "raw" THEN "raw" ELSE "interface"]
MCFieldsOf == [cpu |-> {"idle", "user"}, memory |-> {"used"}, load |-> {"load1"},
               ethernet |-> {"octets", "errors"}, aggregate |-> {"octets"}, raw |-> {}]
MCStruct == {"raw"}
MCListOnly == {"ethernet", "aggregate", "raw"}

ASSUME MCMergeAssumption == OneKind
=============================================================================
