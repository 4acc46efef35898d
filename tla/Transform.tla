------------------------------- MODULE Transform -------------------------------
(***************************************************************************)
(* The registry of internal/transform: the transformer of each path name,  *)
(* called with the notifications of a poll, or with those of a stream that *)
(* have come for the path.  The rows of a call are compared with what the  *)
(* switch has reported.                                                    *)
(***************************************************************************)
EXTENDS OpenConfigRows, NativeRows, SwitchAnswers, FiniteSets

CONSTANTS PathName,      \* registered names that are modelled in this instance
          FormsOf,       \* FormsOf[p]: the forms of the answers on p
          ColumnsOf,     \* ColumnsOf[p]: the columns a switch may leave out
          IdOfRow,       \* IdOfRow[p]: the columns that tell the rows of p apart
          OwnerSet, ItemSet,
          MaxEntities,   \* bound on the entities of a call
          MaxReports     \* bound on the notifications of a call

VARIABLES path,          \* the path the transformer is registered for
          form,          \* the form in which the switch answers
          notifications, \* what Transform will be called with
          reported,      \* history: the entities of these notifications
          delivered,     \* history: the entities of the last call
          rows           \* what the last call returned

vars == <<path, form, notifications, reported, delivered, rows>>

-----------------------------------------------------------------------------
(* The transformers by name.                                               *)

\* Rows of one update each.
OpenConfigRow(p, u) ==
  CASE p = "interface-counters"  -> InterfaceCounters(u)
    [] p = "if-ethernet"         -> InterfaceEthernet(u)
    [] p = "lldp-neighbors"      -> LldpNeighbor(u)
    [] p = "arp-table"           -> ArpTable(u)
    [] p = "mac-table"           -> MacTable(u)
    [] p = "bgp-global"          -> BgpGlobal(u)
    [] p = "bgp-neighbors"       -> BgpNeighbors(u)
    [] p = "temperature"         -> Temperature(u)
    [] p = "power-supply"        -> Power(u)
    [] p = "platform-inventory"  -> Inventory(u)
    [] p = "transceiver"         -> Transceiver(u)
    [] p = "transceiver-channel" -> TransceiverChannel(u)

NativeRow(p, u) ==
  CASE p = "nx-arp"            -> NxArp(u)
    [] p = "nx-bgp-peers"      -> NxBgpPeers(u)
    [] p = "nx-env-sensor"     -> NxEnvSensor(u)
    [] p = "nx-env-psu"        -> NxEnvPsu(u)
    [] p = "nx-fan"            -> NxFan(u)
    [] p = "nx-intf-errors"    -> NxIntfErrors(u)
    [] p = "nx-lldp"           -> NxLldp(u)
    [] p = "nx-mac-table"      -> NxMacTable(u)
    [] p = "nx-transceiver"    -> NxTransceiver(u)
    [] p = "sonic-temperature" -> SonicTemperature(u)
    [] p = "sonic-psu"         -> SonicPsu(u)
    [] p = "sonic-fan"         -> SonicFan(u)

OpenConfigPath == {"interface-counters", "if-ethernet", "interface-status", "lldp-neighbors", "arp-table",
                   "mac-table", "bgp-global", "bgp-neighbors", "temperature", "power-supply",
                   "platform-inventory", "transceiver", "transceiver-channel", "system-cpus"}

\* One row for the call, about the system as a whole.
SystemPath == {"system-memory", "system-state", "nx-sys-load", "nx-sys-memory", "nx-version",
               "sonic-device-metadata"}

Assigned(p, msg, vals) ==
  CASE p \in {"system-cpus", "system-memory"} -> SystemResources(msg, vals)
    [] p = "system-state"          -> SystemUptime(msg, vals)
    [] p = "nx-sys-cpu"            -> NxSysCpu(msg, vals)
    [] p = "nx-sys-load"           -> NxSysLoad(msg, vals)
    [] p = "nx-sys-memory"         -> NxSysMemory(msg, vals)
    [] p = "nx-version"            -> NxVersion(msg, vals)
    [] p = "sonic-device-metadata" -> SonicDeviceMetadata(msg, vals)

Rows(p, ns) ==
  CASE p = "interface-status" -> InterfaceStatus(ns)
    [] p = "nx-route-summary" -> NxRouteSummary(ns)
    [] p \in SystemPath \cup {"system-cpus", "nx-sys-cpu"} ->
         OneMessage(ns, LAMBDA msg, vals : Assigned(p, msg, vals))
    [] OTHER -> EachUpdate(ns, LAMBDA u : IF p \in OpenConfigPath THEN OpenConfigRow(p, u) ELSE NativeRow(p, u))

-----------------------------------------------------------------------------
Answer(p, es, f) ==
  IF p \in SystemPath THEN << Update(<<>>, Map(SystemAnswer(p, es[1], f))) >>
  ELSE IF p \in OpenConfigPath THEN OpenConfigAnswer(p, es, f) ELSE NativeAnswer(p, es, f)

\* Tables with a row for each item of each owner, or for each owner.
Ids(p) == IF p \in SystemPath THEN {<< <<"system", "">>, <<"">> >>}
          ELSE IF Len(IdOfRow[p]) = 1 /\ p # "nx-fan" THEN {<<o, <<"">>>> : o \in OwnerSet}
          ELSE OwnerSet \X ItemSet

\* A sample has all of the columns, none, or all but one.
Samples(p) == {ColumnsOf[p], {}} \cup {ColumnsOf[p] \ {c} : c \in ColumnsOf[p]}

\* What the first entity of a sample lacks the others have.
Table(p, n, ids, has) ==
  LET s == SetToSeq(ids)
  IN  [i \in DOMAIN s |-> [id |-> s[i], n |-> n, has |-> IF i = 1 THEN has ELSE ColumnsOf[p] \ has]]

Init == /\ path \in PathName /\ form \in FormsOf[path]
        /\ notifications = <<>> /\ reported = <<>> /\ delivered = <<>> /\ rows = <<>>

\* The switch notifies of some of its entities.
Notify ==
  LET n == Len(notifications) + 1
  IN  /\ n <= MaxReports /\ delivered = <<>> /\ rows = <<>>
      /\ \E ids \in SUBSET Ids(path) : \E has \in Samples(path) :
           /\ ids # {} /\ Len(reported) + Cardinality(ids) <= MaxEntities
           /\ reported' = reported \o Table(path, n, ids, has)
           /\ notifications' =
                Append(notifications, [time |-> n, updates |-> Answer(path, Table(path, n, ids, has), form)])
      /\ UNCHANGED <<path, form, delivered, rows>>

\* An update that is no map, or a notification without updates.
NotifyOther ==
  /\ Len(notifications) < MaxReports /\ delivered = <<>> /\ rows = <<>>
  /\ \E us \in {<<>>, << Update(<< <<"name", <<"eth", "9">>>> >>, Leaf(<<"up">>)) >>} :
       notifications' = Append(notifications, [time |-> Len(notifications) + 1, updates |-> us])
  /\ UNCHANGED <<path, form, reported, delivered, rows>>

\* The collector calls Transform with what has come, if anything has.
CallTransform ==
  /\ notifications # <<>>
  /\ rows' = Rows(path, notifications) /\ delivered' = reported
  /\ notifications' = <<>> /\ reported' = <<>> /\ UNCHANGED <<path, form>>

\* A transformer keeps nothing from one call to the next: one call is enough.
Called == (rows # <<>> \/ delivered # <<>>) /\ UNCHANGED vars

Next == Notify \/ NotifyOther \/ CallTransform \/ Called

Spec == Init /\ [][Next]_vars

-----------------------------------------------------------------------------
(* Properties.                                                             *)

Cell(msg, c) == IF c \in DOMAIN msg THEN msg[c] ELSE Zero

\* Tables that are one row per call; of the lists of CPUs the last is kept.
CpuList == {"system-cpus", "nx-sys-cpu"}
InOneRow == CpuList \cup {"interface-status"}

\* What stands for an entity: an element of the list in the row, or a row.
Entries ==
  IF path \in InOneRow
  THEN LET list == Cell(Last(rows).msg, IF path \in CpuList THEN "cpu_usage" ELSE "interfaces")
       IN  [i \in DOMAIN list |-> [time |-> Last(rows).time, msg |-> list[i]]]
  ELSE SelectSeq(rows, LAMBDA r : r.msg # <<>>)

\* Paths whose rows name an interface, in its canonical form.
InterfacePath == {"interface-counters", "if-ethernet", "interface-status", "lldp-neighbors", "arp-table",
                  "mac-table", "transceiver", "transceiver-channel", "nx-arp", "nx-intf-errors",
                  "nx-lldp", "nx-mac-table", "nx-transceiver"}

NameOf(id) ==
  CASE path = "nx-fan" -> <<id[1] \o id[2]>>
    [] path = "temperature" -> IF id[1][1] = "module" THEN <<id[1], <<id[2]>>>> ELSE <<Zero, id>>
    [] OTHER -> SubSeq(<<IF path \in InterfacePath THEN NormalizeInterfaceName(id[1]) ELSE id[1], id[2]>>,
                       1, Len(IdOfRow[path]))

\* The entities that have to be in the rows: what looks like a subnet is no peer.
Expected ==
  SelectSeq(delivered, LAMBDA e : /\ path = "nx-bgp-peers" => ~IsSubnet(Item(e))
                                  /\ path \in CpuList => e.n = Last(delivered).n)

StandsFor(r, e) == /\ [i \in DOMAIN IdOfRow[path] |-> Cell(r.msg, IdOfRow[path][i])] = NameOf(e.id)
                   /\ path \in InOneRow \/ r.time = e.n

Tabular == path \notin SystemPath /\ (delivered # <<>> \/ rows # <<>>)

\* Each entity the switch has reported has a row of its own, under its own
\* name and with the time of its notification, whether the switch has sent it
\* in a list, as an update of its own, wrapped in containers or bare; and
\* nothing else has a row, neither a subnet among the peers nor an update that
\* is no map.
RowPerEntity ==
  Tabular => /\ Len(Entries) = Len(Expected)
             /\ \A i \in DOMAIN Expected : \E k \in DOMAIN Entries : StandsFor(Entries[k], Expected[i])
             /\ \A k \in DOMAIN Entries : \E i \in DOMAIN Expected : StandsFor(Entries[k], Expected[i])

\* What a column shows of a sample.
Shown(e, c) ==
  IF c \notin e.has THEN Zero
  ELSE IF c = "system_capabilities" THEN <<Reading(e, c)>> ELSE Reading(e, c)

StatusOf(e) == IF "disabled" \in e.has THEN "disabled" ELSE IF "connected" \in e.has THEN "connected" ELSE "notconnec"

ShowsAll(r, e) ==
  /\ \A c \in ColumnsOf[path] \ {"disabled", "connected"} : Cell(r.msg, c) = Shown(e, c)
  /\ path = "interface-status" => r.msg.status = StatusOf(e)
  /\ path = "interface-counters" => r.msg.has_ingress_data = ("in_octets" \in e.has)

\* Every reading of an entity is in its row, in the column it is meant for,
\* decoded, and from the same sample; a column the switch has sent nothing for
\* is zero and never shows a reading of another entity or of another sample.
ReadingsKept ==
  Tabular => \A i \in DOMAIN Expected : \E k \in DOMAIN Entries :
                StandsFor(Entries[k], Expected[i]) /\ ShowsAll(Entries[k], Expected[i])

\* A path about the system makes exactly one row, that is not older than any
\* of the notifications; a column shows the newest reading there is of it,
\* never an older one, or is empty if the last answer has none.
LatestReadings ==
  path \in SystemPath /\ rows # <<>> =>
    /\ Len(rows) = 1
    /\ \A i \in DOMAIN delivered : rows[1].time >= delivered[i].n
    /\ \A c \in ColumnsOf[path] :
         LET shown == Cell(rows[1].msg, c)
             had   == {i \in DOMAIN delivered : c \in delivered[i].has}
         IN  IF had = {} THEN shown = Zero
             ELSE \/ shown = Reading(delivered[CHOOSE i \in had : \A j \in had : j <= i], c)
                  \/ shown = Zero /\ Len(delivered) \notin had
=============================================================================
