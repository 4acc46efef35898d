----------------------------- MODULE SwitchParser -----------------------------
(***************************************************************************)
(* cisco-parser and dell-parser, the unified parsers of the two families   *)
(* of switches: one of the parsers of src/SwitchOutput reads the text of   *)
(* one show command.  NexusParser has three of them.                       *)
(***************************************************************************)
EXTENDS NexusParser

CONSTANTS HopKinds, MaxRoutes, MaxHops,             \* of RouteText
          Port, Known, Other, MaxTables,            \* of CounterText
          MaxRows,                                  \* of StatusText and TableText
          MaxBlocks, MaxRules,                      \* of BlockText
          MaxParts                                  \* of DellText

ASSUME CounterAssumption == Known \cap Other = {} /\ MaxTables \in Nat
ASSUME BoundAssumption ==
  {MaxRoutes, MaxHops, MaxRows, MaxBlocks, MaxRules, MaxParts} \subseteq Nat

Route   == INSTANCE RouteText
Counter == INSTANCE CounterText
Status  == INSTANCE StatusText
Table   == INSTANCE TableText
Block   == INSTANCE BlockText
Dell    == INSTANCE DellText

ASSUME RouteAssumption == \A h \in HopKinds : h \in Seq(Route!Part)

Init == \/ NexusInit
        \/ parser = "ip-route" /\ Route!Init
        \/ parser = "interface-error-counters" /\ Counter!Init
        \/ parser = "interface-status" /\ Status!Init
        \/ parser \in Table!Command /\ Table!Init(parser)
        \/ parser \in Block!Command /\ Block!Init(parser)
        \/ parser \in Dell!Command /\ Dell!Init(parser)

Next == \/ NexusNext
        \/ /\ UNCHANGED parser
           /\ \/ parser = "ip-route" /\ Route!Next
              \/ parser = "interface-error-counters" /\ Counter!Next
              \/ parser = "interface-status" /\ Status!Next
              \/ parser \in Table!Command /\ Table!Next
              \/ parser \in Block!Command /\ Block!Next
              \/ parser \in Dell!Command /\ Dell!Next

Spec == Init /\ [][Next]_vars

-----------------------------------------------------------------------------
(* What each parser promises; the definitions are in its own module, and   *)
(* the promises of three of them in NexusParser.                           *)

\* One entry per route, in its VRF, with all its next hops, whose parts are in
\* the fields they belong to, and called after the protocol of the first.
RoutesReported == parser = "ip-route" => Route!RoutesKept /\ Route!HopsFiled /\ Route!TypeOfRoute

\* The tables of counters are joined by interface; every interface that
\* cannot be mistaken has its status and its whole type; every row that is
\* recognized is reported, in order.
TablesReported == /\ parser = "interface-error-counters" => Counter!CountersJoined
                  /\ parser = "interface-status" => Status!StatusReported
                  /\ parser \in Table!Command => Table!RowsReported

\* Every item, class map, power supply, neighbor, unit, fan tray and router is
\* reported once and with the lines of its own block, whatever its neighbors in
\* the text leave out.
BlocksReported == /\ parser \in Block!Command => Block!BlocksReported
                  /\ parser \in Dell!Command => Dell!PartsSeparate
=============================================================================
