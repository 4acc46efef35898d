----------------------------- MODULE SwitchAnswers -----------------------------
(***************************************************************************)
(* What a switch answers on the paths of the collector, as the code, its   *)
(* comments and its tests expect it: the environment of the transformers.  *)
(*                                                                         *)
(* An entity is what a table has a row for: its id <<owner, item>> (the    *)
(* interface and the neighbor, the tray and the fan ...; of a table with   *)
(* one level only the owner counts), the number n of the sample, and the   *)
(* columns the switch has a reading for.  A leaf holds the reading of one  *)
(* column: <<id, n, column>>.  Many paths are answered in several forms.   *)
(***************************************************************************)
EXTENDS Values

Reading(e, c) == <<e.id, e.n, c>>

Owner(e) == e.id[1]
Item(e)  == e.id[2]

\* The leaves of the fields whose column has a reading.
Fields(e, cols) == [f \in {g \in DOMAIN cols : cols[g] \in e.has} |-> Leaf(Reading(e, cols[f]))]
Alone(e, f, c)  == Fields(e, f :> c)
Flags(e, f, c)  == IF c \in e.has THEN f :> Flag(Reading(e, c)) ELSE <<>>
Floats(e, f, c) == IF c \in e.has THEN f :> Encoded(Reading(e, c)) ELSE <<>>

\* A container that is there if it is not empty.
In(k, f)    == IF f = <<>> THEN <<>> ELSE k :> Map(f)
State(f)    == "state" :> Map(f)
Listed(k, s) == k :> List(s)
Id(k, v)    == k :> Leaf(v)

Update(path, val) == [path |-> path, val |-> val]

\* One update per entity; or one per owner, with the list of its entities; or
\* one for all of them.
Each(es, Path(_), Fn(_)) == [i \in DOMAIN es |-> Update(Path(es[i]), Map(Fn(es[i])))]

Maps(es, Fn(_)) == [i \in DOMAIN es |-> Map(Fn(es[i]))]

PerOwner(es, Val(_)) ==
  LET owners == SetToSeq({Owner(es[i]) : i \in DOMAIN es})
  IN  [k \in DOMAIN owners |-> Val(SelectSeq(es, LAMBDA e : Owner(e) = owners[k]))]

ByOwner(es, key, Fn(_)) ==
  PerOwner(es, LAMBDA own : Update(<< <<key, Owner(own[1])>> >>, Map(Fn(own))))

Whole(f) == << Update(<<>>, Map(f)) >>
Array(s) == << Update(<<>>, List(s)) >>

Key(k, e) == << <<k, Owner(e)>> >>

Wrap(form, f) == IF form = "plain" THEN f ELSE State(f)

-----------------------------------------------------------------------------
(* The paths of the OpenConfig model.                                      *)

EthernetFields(e, form) ==
  LET vendor == form = "vendor"
  IN  Alone(e, IF vendor THEN "port-speed" ELSE "negotiated-port-speed", "speed")
      @@ Alone(e, "mac-address", "mac_address")
      @@ In("counters", Alone(e, IF vendor THEN "openconfig-if-ethernet:in-crc-errors" ELSE "in-crc-errors",
                              "in_crc_errors"))

StatusFields(e) ==
  Alone(e, "description", "name")
  @@ Id("admin-status", <<IF "disabled" \in e.has THEN "DOWN" ELSE "UP">>)
  @@ Id("oper-status", <<IF "connected" \in e.has THEN "UP" ELSE "DOWN">>)

LldpFields(e) ==
  Id("id", Item(e))
  @@ State(Id("chassis-id", Item(e)) @@ Alone(e, "system-name", "system_name")
           @@ Alone(e, "mgmt-ip", "management_address"))
  @@ In("capabilities", IF "system_capabilities" \in e.has
                        THEN Listed("capability", << Map(Id("name", Reading(e, "system_capabilities"))) >>)
                        ELSE <<>>)

ArpFields(e, age) ==
  Id("ip", Item(e)) @@ Alone(e, "link-layer-address", "mac_address") @@ Alone(e, age, "age")

BgpStateFields(e) ==
  Alone(e, "peer-as", "peer_as") @@ Alone(e, "session-state", "session_state")
  @@ In("messages", In("received", Alone(e, "UPDATE", "messages_received_updates")))

\* The families of addresses: none, or one with a count.
AfiFields(e, form) ==
  LET count == IF form = "plain" THEN Alone(e, "installed", "prefix_received")
                                 ELSE In("prefixes", Alone(e, "received", "prefix_received"))
  IN  IF count = <<>> THEN <<>>
      ELSE "afi-safis" :> Map(Listed("afi-safi", << Map(State(count)) >>))

\* The address families are beside the state, or in it.
BgpFields(e, form) ==
  Id("neighbor-address", Item(e))
  @@ IF form = "inside" THEN State(BgpStateFields(e) @@ AfiFields(e, "plain"))
                        ELSE Wrap(form, BgpStateFields(e)) @@ AfiFields(e, form)

PowerFields(e, form) ==
  Alone(e, IF form = "plain" THEN "part-no" ELSE "description", "model")
  @@ Flags(e, "enabled", "status")
  @@ IF form = "plain" THEN Alone(e, "capacity", "total_capacity") ELSE Floats(e, "capacity", "total_capacity")

OpticsFields(e, form) ==
  Wrap(form, Alone(e, "form-factor", "type")
             @@ Alone(e, IF form = "plain" THEN "serial-number" ELSE "serial-no", "serial_number"))
  @@ In("physical-channels",
        LET power == Alone(e, "input-power", "input_power")
        IN  IF power = <<>> THEN <<>> ELSE Listed("channel", << Map(State(power)) >>))

\* A poll has the index in the state, a subscription beside it.
ChannelFields(e, form) ==
  IF form = "list" THEN State(Id("index", Item(e)) @@ In("input-power", Alone(e, "instant", "input_power")))
  ELSE Id("index", Item(e)) @@ State(In("input-power", Alone(e, "instant", "input_power")))

CpuFields(e, form) ==
  IF form = "list" THEN State(Id("index", Owner(e)) @@ In("user", Alone(e, "instant", "user"))
                              @@ In("idle", Alone(e, "instant", "idle")))
  ELSE Id("index", Owner(e)) @@ State(Alone(e, "user", "user") @@ Alone(e, "idle", "idle"))

OpenConfigAnswer(p, es, form) ==
  CASE p = "interface-counters" ->
         Each(es, LAMBDA e : Key("name", e), LAMBDA e :
           Alone(e, "in-octets", "in_octets") @@ Alone(e, "out-octets", "out_octets"))
    [] p = "if-ethernet" -> Each(es, LAMBDA e : Key("name", e), LAMBDA e : EthernetFields(e, form))
    [] p = "interface-status" ->
         IF form = "single" THEN Each(es, LAMBDA e : Key("name", e), StatusFields)
         ELSE Each(es, LAMBDA e : <<>>, LAMBDA e : Id("name", Owner(e)) @@ StatusFields(e))
    [] p = "lldp-neighbors" ->
         IF form = "list" THEN ByOwner(es, "name", LAMBDA own : Listed("neighbor", Maps(own, LldpFields)))
         ELSE Each(es, LAMBDA e : Append(Key("name", e), <<"id", Item(e)>>), LldpFields)
    [] p = "arp-table" ->
         IF form = "list"
         THEN ByOwner(es, "name", LAMBDA own :
                Listed("neighbor", Maps(own, LAMBDA e : State(ArpFields(e, "age")))))
         ELSE Each(es, LAMBDA e : Append(Key("name", e), <<"ip", Item(e)>>),
                   LAMBDA e : Wrap(form, ArpFields(e, "expiry")))
    [] p = "mac-table" ->
         Whole(In("entries", Listed("entry", Maps(es, LAMBDA e :
           Wrap(form, Id("mac-address", Item(e)) @@ Alone(e, "vlan", "vlan"))
           @@ In("interface", In("interface-ref", State(Id("interface", Owner(e)))))))))
    [] p = "bgp-global" ->
         Each(es, LAMBDA e : Key("name", e) \o << <<"identifier", <<"BGP">>>>, <<"name", <<"bgp">>>> >>,
              LAMBDA e : Wrap(form, Alone(e, "as", "local_as") @@ Alone(e, "router-id", "router_id")))
    [] p = "bgp-neighbors" ->
         IF form \in {"list", "inside"}
         THEN ByOwner(es, "name", LAMBDA own : Listed("neighbor", Maps(own, LAMBDA e : BgpFields(e, form))))
         ELSE Each(es, LAMBDA e : Append(Key("name", e), <<"neighbor-address", Item(e)>>),
                   LAMBDA e : BgpFields(e, form))
    [] p = "temperature" ->
         Each(es, LAMBDA e : << <<"name", e.id>> >>, LAMBDA e :
           Alone(e, "instant", "current_temp") @@ Alone(e, "alarm-threshold", "high_threshold")
           @@ Flags(e, "alarm-status", "status"))
    [] p = "power-supply" -> Each(es, LAMBDA e : Key("name", e), LAMBDA e : Wrap(form, PowerFields(e, form)))
    [] p = "platform-inventory" ->
         IF form = "list"
         THEN Array(Maps(es, LAMBDA e : State(Id("name", Owner(e)) @@ Alone(e, "serial-no", "serial_number"))))
         ELSE Each(es, LAMBDA e : Key("name", e), LAMBDA e : State(Alone(e, "serial-no", "serial_number")))
    [] p = "transceiver" -> Each(es, LAMBDA e : Key("name", e), LAMBDA e : OpticsFields(e, form))
    [] p = "transceiver-channel" ->
         ByOwner(es, "name", LAMBDA own : Listed("channel", Maps(own, LAMBDA e : ChannelFields(e, form))))
    [] p = "system-cpus" -> Whole(Listed("cpu", Maps(es, LAMBDA e : CpuFields(e, form))))

-----------------------------------------------------------------------------
(* The native paths.                                                       *)

NxPeerFields(e) ==
  Id("addr", Item(e))
  @@ LET entry == Alone(e, "operAsn", "peer_as")
                  @@ In("peerstats-items", Alone(e, "msgRcvd", "msg_recvd"))
                  @@ In("af-items", LET paths == Alone(e, "acceptedPaths", "prefix_received")
                                    IN  IF paths = <<>> THEN <<>>
                                        ELSE Listed("PeerAfEntry-list", <<Map(paths)>>))
     IN  IF entry = <<>> THEN <<>> ELSE "ent-items" :> Map(Listed("PeerEntry-list", <<Map(entry)>>))

SensorFields(e) ==
  Id("descr", Item(e)) @@ Alone(e, "tempValue", "current_temp") @@ Alone(e, "majorThresh", "high_threshold")

\* The list of the fans of a tray is in the tray, as the code has it; its
\* comment puts it one container deeper.
TrayFields(own) ==
  Id("id", Owner(own[1]))
  @@ In("ft-items", Listed("Fan-list", Maps(own, LAMBDA e : Id("id", Item(e)) @@ Alone(e, "operSt", "status"))))

NxLldpFields(e) ==
  Id("chassisIdV", Item(e)) @@ Alone(e, "sysName", "system_name")
  @@ Id("mgmtIp", IF "management_address" \in e.has THEN Reading(e, "management_address") ELSE <<"unspecified">>)
  @@ IF "system_capabilities" \in e.has
     THEN Id("capability", << <<>>, Reading(e, "system_capabilities"), <<>> >>) ELSE <<>>

\* A port without optics has no fcot-items.
PhysFields(e) ==
  Alone(e, "operSpeed", "speed")
  @@ LET dom  == IF "temperature" \in e.has
                 THEN Id("diagMonType", <<1>>)
                      @@ In("lane-items", Listed("FcotSensor-list",
                           << Map(Id("sensorId", <<"1">>) @@ Floats(e, "value", "temperature")),
                              Map(Id("sensorId", <<"9">>) @@ Id("value", <<"other">>)) >>))
                 ELSE <<>>
         fcot == Alone(e, "vendorSn", "serial_number") @@ Alone(e, "distIn10mFor50u", "link_length") @@ dom
     IN  IF fcot = <<>> THEN <<>> ELSE "fcot-items" :> Map(fcot @@ "isFcotPresent" :> Flag(<<"true">>))

NativeAnswer(p, es, form) ==
  CASE p = "nx-arp" ->
         LET Arp(e) == Id("ip", Item(e)) @@ Id("ifId", Owner(e)) @@ Alone(e, "mac", "mac_address")
         IN  IF form = "list" THEN Array(Maps(es, Arp)) ELSE Each(es, LAMBDA e : Key("id", e), Arp)
    [] p = "nx-bgp-peers" ->
         IF form = "list"
         THEN PerOwner(es, LAMBDA own : Update(Key("name", own[1]), List(Maps(own, NxPeerFields))))
         ELSE Each(es, LAMBDA e : Append(Key("name", e), <<"addr", Item(e)>>), NxPeerFields)
    [] p = "nx-env-sensor" ->
         IF form = "list" THEN ByOwner(es, "id", LAMBDA own : Listed("Sensor-list", Maps(own, SensorFields)))
         ELSE Each(es, LAMBDA e : Key("id", e), SensorFields)
    [] p = "nx-fan" -> Array(PerOwner(es, LAMBDA own : Map(TrayFields(own))))
    [] p = "nx-env-psu" ->
         LET Psu(e) == "psu-items" :> Map(Alone(e, "operSt", "status") @@ Alone(e, "vIn", "input_voltage")
                                          @@ Flags(e, "softwareAlarm", "software_alarm"))
         IN  IF form = "list" THEN Array(Maps(es, LAMBDA e : Id("id", Owner(e)) @@ Psu(e)))
             ELSE Each(es, LAMBDA e : Key("id", e), Psu)
    [] p = "nx-intf-errors" ->
         Each(es, LAMBDA e : Key("id", e), LAMBDA e :
           Alone(e, IF form = "plain" THEN "CRCAlignErrors" ELSE "cRCAlignErrors", "crc_align_errors")
           @@ Alone(e, "collisions", "collisions"))
    [] p = "nx-lldp" ->
         LET Adj(own) == In("adj-items", Listed("AdjEp-list", Maps(own, NxLldpFields)))
         IN  IF form = "list" THEN Array(PerOwner(es, LAMBDA own : Map(Id("id", Owner(own[1])) @@ Adj(own))))
             ELSE ByOwner(es, "id", Adj)
    [] p = "nx-mac-table" ->
         Whole(In("table-items", In("vlan-items", Listed("MacAddressEntry-list", Maps(es, LAMBDA e :
           Id("macAddress", Item(e)) @@ Id("port", Owner(e)) @@ Flags(e, "static", "static")
           @@ IF form = "plain" THEN Alone(e, "vlan", "vlan")
              ELSE IF "vlan" \in e.has THEN Id("vlan", <<"vlan-">> \o Reading(e, "vlan")) ELSE <<>>)))))
    [] p = "nx-route-summary" ->
         Each(es, LAMBDA e : Key("vrfName", e),
              LAMBDA e : Alone(e, "routeTotal", "route_total") @@ Alone(e, "pathTotal", "path_total"))
    [] p = "nx-transceiver" -> Each(es, LAMBDA e : Key("id", e), PhysFields)
    [] p = "nx-sys-cpu" ->
         Whole(In("syscpu-items", Listed("SysCpu-list", Maps(es, LAMBDA e :
           Id("id", Owner(e)) @@ In("idle-items", Alone(e, "pct", "idle"))
           @@ In("user-items", Alone(e, IF form = "plain" THEN "avg" ELSE "pct", "user"))))))
    [] p = "sonic-temperature" ->
         Whole(In("TEMPERATURE_INFO", Listed("TEMPERATURE_INFO_LIST", Maps(es, LAMBDA e :
           Id("name", Owner(e)) @@ Alone(e, "temperature", "current_temp")))))
    [] p = "sonic-psu" ->
         Whole(In("PSU_INFO", Listed("PSU_INFO_LIST", Maps(es, LAMBDA e :
           Id("name", Owner(e)) @@ Alone(e, "status", "status") @@ Alone(e, "input_voltage", "input_voltage")))))
    [] p = "sonic-fan" ->
         Whole(In("FAN_INFO", Listed("FAN_INFO_LIST", Maps(es, LAMBDA e :
           Id("name", Owner(e)) @@ Alone(e, "speed", "speed") @@ Alone(e, "drawer_name", "drawer_name")))))

-----------------------------------------------------------------------------
(* The paths about the system as a whole: es has one entity.               *)

SystemAnswer(p, e, form) ==
  CASE p = "system-memory" -> State(Alone(e, "physical", "memory_usage_total")
                                    @@ Alone(e, "reserved", "memory_usage_reserved"))
    [] p = "system-state" -> Alone(e, "hostname", "hostname") @@ Alone(e, "boot-time", "system_start_time")
    [] p = "nx-sys-load" -> Alone(e, "runProc", "processes_running")
                            @@ IF form = "plain" THEN Alone(e, "loadAverage1m", "load_avg_1min")
                                                 ELSE Floats(e, "loadAverage1m", "load_avg_1min")
    [] p = "nx-sys-memory" -> Alone(e, "total", "memory_usage_total")
                              @@ In("sysmemfree-items", Alone(e, "curr", "memory_usage_free"))
    [] p = "nx-version" -> Alone(e, "nxosVersion", "nxos_version") @@ Alone(e, "hostName", "device_name")
    [] p = "sonic-device-metadata" ->
         LET fields == Alone(e, "hostname", "hostname") @@ Alone(e, "hwsku", "hwsku")
         IN  CASE form = "plain"  -> fields
               [] form = "list"   -> Listed("DEVICE_METADATA_LIST", <<Map(fields)>>)
               [] form = "inside" -> In("DEVICE_METADATA", Listed("DEVICE_METADATA_LIST", <<Map(fields)>>))
=============================================================================
