------------------------------ MODULE NativeRows ------------------------------
(***************************************************************************)
(* The transformers of the native paths of Cisco NX-OS (nx-...) and of     *)
(* SONiC, written like those of OpenConfigRows.                            *)
(***************************************************************************)
EXTENDS Values

NxArp(u) ==
  OfEach(AsMapSlice(u.val), LAMBDA vals :
    LET flags == GetString(vals, "flags")
    IN  << [ip_address |-> GetString(vals, "ip"), mac_address |-> GetString(vals, "mac"),
            interface |-> NormalizeInterfaceName(GetString(vals, "ifId")),
            interface_type |-> InterfaceType(GetString(vals, "ifId")),
            physical_interface |-> NormalizeInterfaceName(GetString(vals, "physIfId")),
            flags_raw |-> flags] >>)

\* The first of the entries of a list.
FirstEntry(v) == IF IsList(v) /\ v.of # <<>> /\ IsMap(Head(v.of)) THEN Head(v.of) ELSE Nil

\* An address with a slash is a prefix.
IsSubnet(address) == address # Zero /\ Last(address) = "/"

NxBgpPeers(u) ==
  OfEach(AsMapSlice(u.val), LAMBDA vals :
    LET key     == extractKey(u.path, "addr")
        address == IF key = Zero THEN GetString(vals, "addr") ELSE key
        name    == extractKey(u.path, "name")
        entry   == FirstEntry(GetSlice(GetMap(vals, "ent-items"), "PeerEntry-list"))
        stats   == GetMap(entry, "peerstats-items")
        af      == FirstEntry(GetSlice(GetMap(entry, "af-items"), "PeerAfEntry-list"))
        msg     == [neighbor_address |-> address, vrf_name |-> IF name = Zero THEN <<"default">> ELSE name]
    IN  IF address = Zero \/ IsSubnet(address) THEN <<>>
        ELSE << IF entry = Nil THEN msg
                ELSE msg @@ [peer_as |-> GetString(entry, "operAsn"), session_state |-> GetString(entry, "operSt"),
                             msg_recvd |-> GetInt64(stats, "msgRcvd"),
                             prefix_received |-> GetString(af, "acceptedPaths")] >>)

nativeTempMsg(module, sensor) ==
  << [module |-> module, sensor |-> GetString(sensor, "descr"),
      current_temp |-> GetString(sensor, "tempValue"), high_threshold |-> GetString(sensor, "majorThresh")] >>

\* A list of sensors, or one.
NxEnvSensor(u) ==
  OfMap(u.val, LAMBDA vals :
    LET module == extractKey(u.path, "id")
    IN  IF GetSlice(vals, "Sensor-list") = Nil THEN nativeTempMsg(module, vals)
        ELSE OfSlice(GetSlice(vals, "Sensor-list"), LAMBDA sensor : nativeTempMsg(module, sensor)))

\* The id of an entry of a list, else the key of the path.
IdOf(vals, path) == IF GetString(vals, "id") = Zero THEN extractKey(path, "id") ELSE GetString(vals, "id")

\* A row per fan; the model and serial number are those of the tray.
NxFan(u) ==
  OfEach(AsMapSlice(u.val), LAMBDA vals :
    LET id == IdOf(vals, u.path)
        ft == IF GetMap(vals, "ft-items") = Nil THEN vals ELSE GetMap(vals, "ft-items")
    IN  IF GetSlice(ft, "Fan-list") = Nil
        THEN << [name |-> id, model |-> GetString(ft, "model"), status |-> GetString(ft, "operSt")] >>
        ELSE OfSlice(GetSlice(ft, "Fan-list"), LAMBDA fan :
               << [name |-> IF GetString(fan, "id") = Zero THEN id ELSE id \o GetString(fan, "id"),
                   model |-> GetString(ft, "model"), status |-> GetString(fan, "operSt")] >>))

NxEnvPsu(u) ==
  OfEach(AsMapSlice(u.val), LAMBDA vals :
    LET psu == GetMap(vals, "psu-items")
    IN  IF psu = Nil THEN <<>>
        ELSE << [ps_name |-> IdOf(vals, u.path), status |-> GetString(psu, "operSt"),
                 input_voltage |-> GetString(psu, "vIn"), software_alarm |-> GetBool(psu, "softwareAlarm")] >>)

\* The name of the CRC counter varies between versions.
NxIntfErrors(u) ==
  OfMap(u.val, LAMBDA vals :
    LET name == extractKey(u.path, "id")
        crc  == GetInt64(vals, "cRCAlignErrors")
    IN  << [interface_name |-> NormalizeInterfaceName(name), interface_type |-> InterfaceType(name),
            crc_align_errors |-> IF crc = Zero THEN GetInt64(vals, "CRCAlignErrors") ELSE crc,
            collisions |-> GetInt64(vals, "collisions")] >>)

\* The capabilities come as one string: the words between its separators.
parseCapabilityString(caps) == SelectSeq(caps, LAMBDA w : w # <<>>)

NxLldp(u) ==
  OfEach(AsMapSlice(u.val), LAMBDA vals :
    OfSlice(GetSlice(GetMap(vals, "adj-items"), "AdjEp-list"), LAMBDA adj :
      LET mgmt == GetString(adj, "mgmtIp")
      IN  << [local_port_id |-> NormalizeInterfaceName(IdOf(vals, u.path)),
              chassis_id |-> GetString(adj, "chassisIdV"), system_name |-> GetString(adj, "sysName"),
              management_address |-> IF mgmt = <<"unspecified">> THEN Zero ELSE mgmt,
              system_capabilities |-> parseCapabilityString(GetString(adj, "capability"))] >>))

\* A VLAN comes as "vlan-" and its number, or as the number.
VlanNumber(vlan) == IF vlan # Zero /\ vlan[1] = "vlan-" THEN Tail(vlan) ELSE vlan

NxMacTable(u) ==
  OfMap(u.val, LAMBDA vals :
    LET macs == GetSlice(GetMap(GetMap(vals, "table-items"), "vlan-items"), "MacAddressEntry-list")
    IN  OfSlice(macs, LAMBDA entry :
          << [mac_address |-> GetString(entry, "macAddress"), vlan |-> VlanNumber(GetString(entry, "vlan")),
              port |-> NormalizeInterfaceName(GetString(entry, "port")),
              static |-> GetBool(entry, "static")] >>))

RouteSummaryRow(u) ==
  OfMap(u.val, LAMBDA vals : << [vrf |-> extractKey(u.path, "vrfName"),
                                 route_total |-> GetInt64(vals, "routeTotal"),
                                 path_total |-> GetInt64(vals, "pathTotal")] >>)

\* If nothing is found an empty row is made; its time 0 stands for the clock of the
\* collector, which NewCommonFields takes then.
NxRouteSummary(ns) ==
  LET rows == EachUpdate(ns, RouteSummaryRow)
  IN  IF rows = <<>> THEN << [time |-> 0, msg |-> <<>>] >> ELSE rows

-----------------------------------------------------------------------------
(* Transceivers.                                                           *)

\* The first of the lengths that is positive.
formatLinkLength(fcot) ==
  LET hits == SelectSeq(<<"distIn1mForCu", "distIn10mFor50u", "distInKmFor9u">>,
                        LAMBDA k : GetInt64(fcot, k) # Zero)
  IN  IF hits = <<>> THEN Zero ELSE GetInt64(fcot, Head(hits))

SensorNames == [i \in {"1", "5"} |-> IF i = "1" THEN "temperature" ELSE "rx_power"]

\* The readings of the sensors whose number is known, by name.
DomData(fcot) ==
  FoldLeft(LAMBDA dom, sensor :
             LET i == GetString(sensor, "sensorId")
             IN  IF i # Zero /\ i[1] \in DOMAIN SensorNames
                 THEN (SensorNames[i[1]] :> GetFloat(sensor, "value")) @@ dom ELSE dom,
           <<>>, AsMapSlice(At(GetMap(fcot, "lane-items"), "FcotSensor-list")))

NxTransceiver(u) ==
  OfMap(u.val, LAMBDA vals :
    LET fcot == GetMap(vals, "fcot-items")
        msg  == [interface_name |-> NormalizeInterfaceName(extractKey(u.path, "id")),
                 speed |-> GetString(vals, "operSpeed")]
        present == msg @@ [serial_number |-> GetString(fcot, "vendorSn"), link_length |-> formatLinkLength(fcot)]
    IN  << IF fcot = Nil \/ GetBool(fcot, "isFcotPresent") = Zero THEN msg
           ELSE IF GetInt64(fcot, "diagMonType") = Zero THEN present ELSE DomData(fcot) @@ present >>)

-----------------------------------------------------------------------------
(* The system: one row for the call.                                       *)

getItemsPct(m, key) ==
  LET sub == GetMap(m, key) IN IF Has(sub, "pct") THEN GetString(sub, "pct") ELSE GetString(sub, "avg")

NxSysCpu(msg, vals) ==
  LET cpus == GetSlice(GetMap(vals, "syscpu-items"), "SysCpu-list")
  IN  [cpu_state_idle |-> GetString(vals, "idle"), cpu_state_user |-> GetString(vals, "user")]
      @@ (IF cpus = Nil THEN <<>>
          ELSE "cpu_usage" :> OfSlice(cpus, LAMBDA cpu : << [cpuid |-> GetString(cpu, "id"),
                                                            idle |-> getItemsPct(cpu, "idle-items"),
                                                            user |-> getItemsPct(cpu, "user-items")] >>))
      @@ msg

NxSysLoad(msg, vals) ==
  [load_avg_1min |-> GetFloat(vals, "loadAverage1m"), processes_running |-> GetInt64(vals, "runProc")] @@ msg

NxSysMemory(msg, vals) ==
  LET free == GetMap(vals, "sysmemfree-items")
      used == GetMap(vals, "sysmemused-items")
  IN  [memory_usage_total |-> GetInt64(vals, "total")]
      @@ (IF free = Nil THEN <<>> ELSE "memory_usage_free" :> GetInt64(free, "curr"))
      @@ (IF used = Nil THEN <<>> ELSE "memory_usage_used" :> GetInt64(used, "curr"))
      @@ msg

\* Seeded fault: what is there already is not overwritten.
NxVersionFirst(msg, vals) ==
  msg @@ [nxos_version |-> GetString(vals, "nxosVersion"), device_name |-> GetString(vals, "hostName")]

NxVersion(msg, vals) ==
  [nxos_version |-> GetString(vals, "nxosVersion"), device_name |-> GetString(vals, "hostName")] @@ msg

-----------------------------------------------------------------------------
(* SONiC: the entries of one list of one container.                        *)

InList(u, container, list, Msgs(_)) ==
  OfMap(u.val, LAMBDA vals : OfEach(AsMapSlice(At(GetMap(vals, container), list)), Msgs))

SonicTemperature(u) ==
  InList(u, "TEMPERATURE_INFO", "TEMPERATURE_INFO_LIST", LAMBDA sensor :
    << [sensor |-> GetString(sensor, "name"), current_temp |-> GetString(sensor, "temperature"),
        status |-> GetString(sensor, "warning_status")] >>)

SonicPsu(u) ==
  InList(u, "PSU_INFO", "PSU_INFO_LIST", LAMBDA psu :
    << [ps_name |-> GetString(psu, "name"), status |-> GetString(psu, "status"),
        input_voltage |-> GetString(psu, "input_voltage")] >>)

SonicFan(u) ==
  InList(u, "FAN_INFO", "FAN_INFO_LIST", LAMBDA fan :
    << [name |-> GetString(fan, "name"), speed |-> GetString(fan, "speed"),
        drawer_name |-> GetString(fan, "drawer_name")] >>)

\* The entries of the metadata list, one after the other, or the value itself.
SonicDeviceMetadata(msg, vals) ==
  LET dm      == IF GetMap(vals, "DEVICE_METADATA") = Nil THEN vals ELSE GetMap(vals, "DEVICE_METADATA")
      entries == AsMapSlice(At(dm, "DEVICE_METADATA_LIST"))
      entry   == IF entries = <<>> THEN vals ELSE Last(entries)
  IN  [hostname |-> GetString(entry, "hostname"), hwsku |-> GetString(entry, "hwsku")] @@ msg
=============================================================================
