---------------------------- MODULE OpenConfigRows ----------------------------
(***************************************************************************)
(* The transformers of the OpenConfig paths.  Each operator makes, of one  *)
(* update, the messages of its rows.  Of the columns that are read alike   *)
(* one or two stand for all.                                               *)
(***************************************************************************)
EXTENDS Values

InterfaceCounters(u) ==
  OfMap(u.val, LAMBDA vals :
    LET name == NormalizeInterfaceName(extractKey(u.path, "name"))
    IN  IF name = Zero THEN <<>>
        ELSE << [interface_name |-> name, interface_type |-> InterfaceType(name),
                 in_octets  |-> GetInt64(vals, "in-octets"),
                 out_octets |-> GetInt64(vals, "out-octets"),
                 has_ingress_data |-> GetString(vals, "in-octets") # Zero,
                 has_egress_data  |-> GetString(vals, "out-octets") # Zero] >>)

\* The first of the keys that is there, zero or not.
getInt64Multi(m, keys) ==
  LET hits == SelectSeq(keys, LAMBDA k : Has(m, k))
  IN  IF hits = <<>> THEN Zero ELSE GetInt64(m, Head(hits))

InterfaceEthernet(u) ==
  OfMap(u.val, LAMBDA vals :
    LET name     == extractKey(u.path, "name")
        counters == GetMap(vals, "counters")
        msg      == [interface_name |-> NormalizeInterfaceName(name),
                     speed |-> GetFirstString(vals, <<"negotiated-port-speed", "port-speed">>),
                     mac_address |-> GetString(vals, "mac-address")]
    IN  IF name = Zero THEN <<>>
        ELSE << IF counters = Nil THEN msg
                ELSE msg @@ ("in_crc_errors" :> getInt64Multi(counters,
                               <<"in-crc-errors", "openconfig-if-ethernet:in-crc-errors">>)) >>)

\* What stands for the statuses the switch reports.
Status(m, k) == IF GetString(m, k) = Zero THEN "unknown" ELSE GetString(m, k)[1]

deriveStatus(admin, oper) ==
  CASE admin = "DOWN"                  -> "disabled"
    [] admin # "DOWN" /\ oper = "UP"   -> "connected"
    [] admin # "DOWN" /\ oper = "DOWN" -> "notconnec"
    [] OTHER                           -> "down"

\* One row for all the interfaces of the call.
InterfaceStatusEntry(u) ==
  OfMap(u.val, LAMBDA vals :
    LET key  == extractKey(u.path, "name")
        name == IF key = Zero THEN GetString(vals, "name") ELSE key
    IN  IF name = Zero THEN <<>>
        ELSE << [port |-> NormalizeInterfaceName(name), name |-> GetString(vals, "description"),
                 status |-> deriveStatus(Status(vals, "admin-status"), Status(vals, "oper-status"))] >>)

InterfaceStatus(ns) ==
  << [time |-> IF ns = <<>> THEN 0 ELSE Last(ns).time,
      msg  |-> [interfaces |-> OfEach(OfEach(ns, LAMBDA n : n.updates), InterfaceStatusEntry)]] >>

-----------------------------------------------------------------------------
(* Neighbors.  Two formats: a list of neighbors, or one of them.           *)

Capabilities(nbr) ==
  OfSlice(GetSlice(GetMap(nbr, "capabilities"), "capability"), LAMBDA c : << GetString(c, "name") >>)

\* Seeded fault: only the list is understood.
LldpListOnly(u) ==
  OfMap(u.val, LAMBDA vals :
    OfSlice(GetSlice(vals, "neighbor"), LAMBDA nbr :
      << [local_port_id |-> NormalizeInterfaceName(extractKey(u.path, "name")),
          chassis_id |-> GetString(GetMap(nbr, "state"), "chassis-id")] >>))

LldpNeighbor(u) ==
  OfMap(u.val, LAMBDA vals :
    LET single == GetMap(vals, "state") # Nil \/ GetString(vals, "id") # Zero
        neighbors == IF GetSlice(vals, "neighbor") # Nil THEN GetSlice(vals, "neighbor")
                     ELSE IF single THEN List(<<vals>>) ELSE Nil
    IN  OfSlice(neighbors, LAMBDA nbr :
          LET state == GetMap(nbr, "state")
          IN  IF state = Nil THEN <<>>
              ELSE << [local_port_id |-> NormalizeInterfaceName(extractKey(u.path, "name")),
                       chassis_id |-> GetString(state, "chassis-id"),
                       system_name |-> GetString(state, "system-name"),
                       management_address |-> GetFirstString(state, <<"management-address", "mgmt-ip">>),
                       system_capabilities |-> Capabilities(nbr)] >>))

extractArpEntry(vals, path) ==
  LET state == StateOr(vals)
      port  == extractKey(path, "name")
  IN  IF GetString(state, "ip") = Zero THEN <<>>
      ELSE << [ip_address |-> GetString(state, "ip"),
               mac_address |-> GetString(state, "link-layer-address"),
               interface |-> NormalizeInterfaceName(port), interface_type |-> InterfaceType(port),
               age |-> GetFirstString(state, <<"age", "expiry">>)] >>

ArpTable(u) ==
  OfMap(u.val, LAMBDA vals :
    IF GetSlice(vals, "neighbor") = Nil THEN extractArpEntry(vals, u.path)
    ELSE OfSlice(GetSlice(vals, "neighbor"), LAMBDA nbr : extractArpEntry(nbr, u.path)))

MacTable(u) ==
  OfMap(u.val, LAMBDA vals :
    OfSlice(GetSlice(GetMap(vals, "entries"), "entry"), LAMBDA entry :
      LET state == StateOr(entry)
          ref   == GetMap(GetMap(GetMap(entry, "interface"), "interface-ref"), "state")
      IN  << [mac_address |-> GetString(state, "mac-address"), vlan |-> GetString(state, "vlan"),
              port |-> NormalizeInterfaceName(GetString(ref, "interface"))] >>))

-----------------------------------------------------------------------------
(* BGP.                                                                    *)

BgpGlobal(u) ==
  OfMap(u.val, LAMBDA vals : << [vrf_name |-> extractKey(u.path, "name"),
                                 local_as |-> GetString(StateOr(vals), "as"),
                                 router_id |-> GetString(StateOr(vals), "router-id")] >>)

\* The count of prefixes, from the last address family that has a container
\* of them, or from the first that has a plain count.
PrefixCount(afiSafis) ==
  FoldLeft(LAMBDA got, as :
             LET state == GetMap(as, "state")
                 now   == IF GetMap(state, "prefixes") # Nil
                          THEN GetString(GetMap(state, "prefixes"), "received") ELSE got
             IN  IF now = Zero THEN GetFirstString(state, <<"received-pre-policy", "installed">>) ELSE now,
           Zero, AsMapSlice(GetSlice(afiSafis, "afi-safi")))

\* Seeded fault: the address families are looked for beside the state only.
BesideState(vals) == GetMap(vals, "afi-safis")

AfiSafis(vals) == IF GetMap(vals, "afi-safis") # Nil THEN GetMap(vals, "afi-safis")
                                                     ELSE GetMap(StateOr(vals), "afi-safis")

buildBgpNeighborEntry(vals, path, vrf) ==
  LET key     == extractKey(path, "neighbor-address")
      address == IF key = Zero THEN GetString(vals, "neighbor-address") ELSE key
      state   == StateOr(vals)
      session == GetString(state, "session-state")
  IN  IF address = Zero THEN <<>>
      ELSE << [neighbor_address |-> address, vrf_name |-> vrf,
               peer_as |-> GetString(state, "peer-as"),
               session_state |-> IF session = Zero THEN GetString(vals, "session-state") ELSE session,
               messages_received_updates |->
                 GetString(GetMap(GetMap(state, "messages"), "received"), "UPDATE"),
               prefix_received |-> PrefixCount(AfiSafis(vals))] >>

BgpNeighbors(u) ==
  OfMap(u.val, LAMBDA vals :
    LET name == extractKey(u.path, "name")
        vrf  == IF name = Zero THEN <<"default">> ELSE name
    IN  IF GetSlice(vals, "neighbor") = Nil THEN buildBgpNeighborEntry(vals, u.path, vrf)
        ELSE OfSlice(GetSlice(vals, "neighbor"), LAMBDA nbr : buildBgpNeighborEntry(nbr, u.path, vrf)))

-----------------------------------------------------------------------------
(* Components.                                                             *)

\* A name is the sequence of its words; a word "Module1" is <<"module", "1">>.
parseComponentSensor(name) ==
  LET modules == SelectSeq(name, LAMBDA w : w[1] = "module")
  IN  IF modules = <<>> THEN [module |-> Zero, sensor |-> name]
                        ELSE [module |-> Last(modules), sensor |-> <<Last(name)>>]

Temperature(u) ==
  OfMap(u.val, LAMBDA vals :
    << parseComponentSensor(extractKey(u.path, "name")) @@
       [current_temp |-> GetFirstString(vals, <<"instant", "avg", "max">>),
        high_threshold |-> GetFirstString(vals, <<"alarm-threshold", "critical-high">>),
        status |-> GetBool(vals, "alarm-status")] >>)

\* Floats are decoded, anything else is taken as it is; a field the switch
\* leaves out has no column.
Power(u) ==
  OfMap(u.val, LAMBDA vals :
    LET state == StateOr(vals)
        msg   == [ps_name |-> extractKey(u.path, "name"), status |-> GetBool(state, "enabled"),
                  model |-> GetFirstString(state, <<"description", "model", "part-no">>)]
    IN  << IF GetString(state, "capacity") = Zero THEN msg
           ELSE msg @@ ("total_capacity" :> GetFloat(state, "capacity")) >>)

Inventory(u) ==
  OfEach(AsMapSlice(u.val), LAMBDA comp :
    LET state == GetMap(comp, "state")
        name  == GetString(state, "name")
    IN  IF state = Nil THEN <<>>
        ELSE << [name |-> IF name = Zero THEN extractKey(u.path, "name") ELSE name,
                 serial_number |-> GetString(state, "serial-no")] >>)

Transceiver(u) ==
  OfMap(u.val, LAMBDA vals :
    LET state    == StateOr(vals)
        channels == GetSlice(GetMap(vals, "physical-channels"), "channel")
        dom      == channels # Nil /\ channels.of # <<>>
        chState  == IF dom THEN GetMap(Head(channels.of), "state") ELSE Nil
        msg      == [interface_name |-> NormalizeInterfaceName(extractKey(u.path, "name")),
                     type |-> GetFirstString(state, <<"form-factor", "form-factor-preconf">>),
                     serial_number |-> GetFirstString(state, <<"serial-no", "serial-number">>),
                     dom_supported |-> dom]
    IN  << IF chState = Nil THEN msg
           ELSE msg @@ [output_power |-> GetFirstString(chState, <<"output-power", "laser-bias-current">>),
                        input_power |-> GetString(chState, "input-power")] >>)

extractInstant(state, key) == GetString(GetMap(state, key), "instant")

TransceiverChannel(u) ==
  OfMap(u.val, LAMBDA vals :
    OfSlice(GetSlice(vals, "channel"), LAMBDA ch :
      LET state == GetMap(ch, "state")
      IN  IF state = Nil THEN <<>>
          ELSE << [interface_name |-> NormalizeInterfaceName(extractKey(u.path, "name")),
                   channel_index |-> IF GetString(state, "index") = Zero THEN GetString(ch, "index")
                                                                         ELSE GetString(state, "index"),
                   input_power |-> extractInstant(state, "input-power"),
                   laser_bias_current |-> extractInstant(state, "laser-bias-current")] >>))

-----------------------------------------------------------------------------
(* The system: one row for the call.                                       *)

getCpuId(cpu, state) == IF GetString(cpu, "index") = Zero THEN GetString(state, "index")
                                                          ELSE GetString(cpu, "index")

getStatInstant(state, key) ==
  IF GetMap(state, key) = Nil THEN GetString(state, key) ELSE GetString(GetMap(state, key), "instant")

CpuUsage(cpu) ==
  LET state == GetMap(cpu, "state")
  IN  IF state = Nil THEN <<>>
      ELSE << [cpuid |-> getCpuId(cpu, state), user |-> getStatInstant(state, "user"),
               idle |-> getStatInstant(state, "idle")] >>

SystemResources(msg, vals) ==
  LET cpus   == GetSlice(vals, "cpu")
      memory == GetMap(vals, "state")
  IN  (IF cpus = Nil THEN <<>> ELSE "cpu_usage" :> OfSlice(cpus, CpuUsage))
      @@ (IF memory = Nil THEN <<>> ELSE [memory_usage_total |-> GetString(memory, "physical"),
                                          memory_usage_reserved |-> GetString(memory, "reserved")])
      @@ msg

\* The names are written whether the update has them or not, the times only
\* if it has them.
SystemUptime(msg, vals) ==
  [hostname |-> GetString(vals, "hostname"), domain_name |-> GetString(vals, "domain-name")]
  @@ (IF GetString(vals, "boot-time") = Zero THEN <<>>
      ELSE "system_start_time" :> GetString(vals, "boot-time"))
  @@ (IF GetString(vals, "current-datetime") = Zero THEN <<>>
      ELSE "current_datetime" :> GetString(vals, "current-datetime"))
  @@ msg
=============================================================================
