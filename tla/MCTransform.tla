------------------------------ MODULE MCTransform ------------------------------
(* Instances of Transform for TLC: an Ethernet port, a VLAN and a component *)
(* named like a module; neighbors, fans or peers "a" and "b", and a peer    *)
(* that is a subnet.                                                        *)
EXTENDS Transform

T(p, forms, id, columns) == p :> [forms |-> forms, id |-> id, columns |-> columns]

Tables1 ==
  T("interface-counters", {"single"}, <<"interface_name">>, {"in_octets", "out_octets"})
  @@ T("if-ethernet", {"single", "vendor"}, <<"interface_name">>, {"speed", "mac_address", "in_crc_errors"})
  @@ T("interface-status", {"single", "plain"}, <<"port">>, {"name", "disabled", "connected"})
  @@ T("lldp-neighbors", {"list", "single"}, <<"local_port_id", "chassis_id">>,
       {"system_name", "management_address", "system_capabilities"})
  @@ T("arp-table", {"list", "single", "plain"}, <<"interface", "ip_address">>, {"mac_address", "age"})
  @@ T("mac-table", {"single", "plain"}, <<"port", "mac_address">>, {"vlan"})
  @@ T("bgp-global", {"single", "plain"}, <<"vrf_name">>, {"local_as", "router_id"})
  @@ T("bgp-neighbors", {"list", "inside", "single", "plain"}, <<"vrf_name", "neighbor_address">>,
       {"peer_as", "session_state", "messages_received_updates", "prefix_received"})
  @@ T("temperature", {"single"}, <<"module", "sensor">>, {"current_temp", "high_threshold", "status"})
  @@ T("power-supply", {"single", "plain"}, <<"ps_name">>, {"model", "status", "total_capacity"})
  @@ T("platform-inventory", {"list", "single"}, <<"name">>, {"serial_number"})
  @@ T("transceiver", {"single", "plain"}, <<"interface_name">>, {"type", "serial_number", "input_power"})
  @@ T("transceiver-channel", {"list", "plain"}, <<"interface_name", "channel_index">>, {"input_power"})
  @@ T("system-cpus", {"list", "plain"}, <<"cpuid">>, {"user", "idle"})

Tables2 ==
  T("nx-arp", {"list", "single"}, <<"interface", "ip_address">>, {"mac_address"})
  @@ T("nx-bgp-peers", {"list", "single"}, <<"vrf_name", "neighbor_address">>,
       {"peer_as", "msg_recvd", "prefix_received"})
  @@ T("nx-env-sensor", {"list", "single"}, <<"module", "sensor">>, {"current_temp", "high_threshold"})
  @@ T("nx-fan", {"list"}, <<"name">>, {"status"})
  @@ T("nx-env-psu", {"list", "single"}, <<"ps_name">>, {"status", "input_voltage", "software_alarm"})
  @@ T("nx-intf-errors", {"single", "plain"}, <<"interface_name">>, {"crc_align_errors", "collisions"})
  @@ T("nx-lldp", {"list", "single"}, <<"local_port_id", "chassis_id">>,
       {"system_name", "management_address", "system_capabilities"})
  @@ T("nx-mac-table", {"list", "plain"}, <<"port", "mac_address">>, {"vlan", "static"})
  @@ T("nx-route-summary", {"single"}, <<"vrf">>, {"route_total", "path_total"})
  @@ T("nx-transceiver", {"single"}, <<"interface_name">>, {"speed", "serial_number", "link_length", "temperature"})
  @@ T("nx-sys-cpu", {"list", "plain"}, <<"cpuid">>, {"idle", "user"})
  @@ T("sonic-temperature", {"list"}, <<"sensor">>, {"current_temp"})
  @@ T("sonic-psu", {"list"}, <<"ps_name">>, {"status", "input_voltage"})
  @@ T("sonic-fan", {"list"}, <<"name">>, {"speed", "drawer_name"})

Systems ==
  T("system-memory", {"single"}, <<>>, {"memory_usage_total", "memory_usage_reserved"})
  @@ T("system-state", {"single"}, <<>>, {"hostname", "system_start_time"})
  @@ T("nx-sys-load", {"single", "plain"}, <<>>, {"load_avg_1min", "processes_running"})
  @@ T("nx-sys-memory", {"single"}, <<>>, {"memory_usage_total", "memory_usage_free"})
  @@ T("nx-version", {"single"}, <<>>, {"nxos_version", "device_name"})
  @@ T("sonic-device-metadata", {"list", "inside", "plain"}, <<>>, {"hostname", "hwsku"})

All == Tables1 @@ Tables2 @@ Systems

MCPathName == DOMAIN All
MCFormsOf == [p \in MCPathName |-> All[p].forms]
MCColumnsOf == [p \in MCPathName |-> All[p].columns]
MCIdOfRow == [p \in MCPathName |-> All[p].id]
MCOwner == {<<"eth", "1">>, <<"module", "1">>}
MCItem == {<<"a">>, <<"b", "/">>}
=============================================================================
