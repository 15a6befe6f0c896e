------------------------- MODULE CapabilityRoutes --------------------------
(***************************************************************************)
(* The semantic read capabilities: which HTTP operation or TMP opcode the  *)
(* routing table declares for each, what the readers of the service send   *)
(* when they carry it out, and the gates that are passed on the way.  The  *)
(* table, the two readers, the endpoint catalogue and the classes of the   *)
(* opcodes are kept apart in the code and nothing compares them.           *)
(*                                                                         *)
(* "http" stands for http_luci and "tmp" for tmp_appv2.                    *)
(***************************************************************************)
EXTENDS EndpointCatalog, TmpOpcodes

CONSTANT None

-----------------------------------------------------------------------------
(* CAPABILITY_ROUTES: first over HTTP with an equivalent TMP read, then    *)
(* over TMP only.                                                          *)

HttpRoute(cap, sens, operation, opcode) ==
  [cap |-> cap, sens |-> sens, primary |-> "http", http |-> operation, tmp |-> opcode,
   fallback |-> TRUE]

TmpRoute(cap, sens, opcode) ==
  [cap |-> cap, sens |-> sens, primary |-> "tmp", http |-> None, tmp |-> opcode,
   fallback |-> FALSE]

HttpRoutes ==
  { HttpRoute("mesh_nodes", "private", <<"admin.device", "device_list", "read">>, \h400F),
    HttpRoute("clients", "secret", <<"admin.client", "client_list", "read">>, \h4012),
    HttpRoute("internet_status", "private", <<"admin.network", "internet", "read">>, \h400C),
    HttpRoute("address_reservations", "secret",
              <<"admin.client", "addr_reservation", "getlist">>, \h40C0),
    HttpRoute("fast_roaming", "normal", <<"admin.wireless", "ieee80211r", "read">>, \h4208),
    HttpRoute("beamforming", "normal", <<"admin.wireless", "beamforming", "read">>, \h421B),
    HttpRoute("wireless_operation_mode", "private",
              <<"admin.wireless", "operation_mode", "read">>, \h40A0),
    HttpRoute("wireless_bridge", "private", <<"admin.wireless", "bridge", "read">>, \h400A),
    HttpRoute("traffic", "secret", <<"admin.client", "traffic_stat", "list">>, \h4014),
    HttpRoute("blocked_clients", "secret", <<"admin.client", "black_list", "list">>, \h4018),
    HttpRoute("speed_test", "normal", <<"admin.device", "speedtest", "read">>, \h4010),
    HttpRoute("firmware_status", "private",
              <<"admin.cloud", "firmware_status", "check">>, \h401C),
    HttpRoute("ddns", "secret", <<"admin.cloud", "ddns", "get">>, \h40D0),
    HttpRoute("wlan_state", "secret", <<"admin.wireless", "wlan", "read">>, \h4009),
    HttpRoute("ipv4_configuration", "secret",
              <<"admin.network", "wan_ipv4", "read">>, \h4004) }

TmpNetworkRoutes ==
  { TmpRoute("lan_configuration", "secret", \h4211),
    TmpRoute("dhcp_configuration", "secret", \h4213),
    TmpRoute("qos_mode", "private", \h4036),
    TmpRoute("bandwidth_configuration", "private", \h4219),
    TmpRoute("vlan_configuration", "private", \h420D),
    TmpRoute("port_forwarding", "secret", \h40B0),
    TmpRoute("iptv_configuration", "private", \h4224),
    TmpRoute("sip_alg", "private", \h421D),
    TmpRoute("mac_clone", "private", \h4226) }

TmpRoutes ==
  { TmpRoute("led_configuration", "private", \h401A),
    TmpRoute("mesh_traffic", "private", \h422F),
    TmpRoute("wps_status", "private", \h4215),
    TmpRoute("monthly_report_settings", "private", \h4222),
    TmpRoute("monthly_reports", "secret", \h40E0),
    TmpRoute("notifications", "secret", \h4028),
    TmpRoute("speed_test_servers", "private", \h4228),
    TmpRoute("parental_control_profiles", "secret", \h4029),
    TmpRoute("parental_control_filter_levels", "private", \h4035),
    TmpRoute("parental_control_catalog", "private", \h403A),
    TmpRoute("access_permissions", "secret", \h4229),
    TmpRoute("ipv6_configuration", "secret", \h4006),
    TmpRoute("ipv6_firewall", "secret", \h4230),
    TmpRoute("ipv6_clients", "secret", \h4234) }
  \cup TmpNetworkRoutes

CAPABILITY_ROUTES == HttpRoutes \cup TmpRoutes

Capabilities == { route.cap : route \in CAPABILITY_ROUTES }

get_capability_route ==
  [cap \in Capabilities |-> CHOOSE route \in CAPABILITY_ROUTES : route.cap = cap]

\* MUTATION_CAPABILITY_ROUTES: the fixed no-ops, their write and their preflight.
MutationRoutes ==
  { [cap |-> "beamforming", write |-> <<"admin.wireless", "beamforming", "write">>,
     preflight |-> <<"admin.wireless", "beamforming", "read">>],
    [cap |-> "fast_roaming", write |-> <<"admin.wireless", "ieee80211r", "write">>,
     preflight |-> <<"admin.wireless", "ieee80211r", "read">>],
    [cap |-> "time_settings", write |-> <<"admin.device", "timesetting", "write">>,
     preflight |-> <<"admin.device", "timesetting", "read">>] }

-----------------------------------------------------------------------------
(* What the readers do: _read_http_capability through the typed reads of   *)
(* the client, and the opcode table of _read_tmp_capability.  Three of its *)
(* entries have no route: the reads of one parental-control profile, which *)
(* pass their owner along.                                                 *)

HttpOperation ==
  [mesh_nodes              |-> <<"admin.device", "device_list", "read">>,
   clients                 |-> <<"admin.client", "client_list", "read">>,
   internet_status         |-> <<"admin.network", "internet", "read">>,
   address_reservations    |-> <<"admin.client", "addr_reservation", "getlist">>,
   fast_roaming            |-> <<"admin.wireless", "ieee80211r", "read">>,
   beamforming             |-> <<"admin.wireless", "beamforming", "read">>,
   wireless_operation_mode |-> <<"admin.wireless", "operation_mode", "read">>,
   wireless_bridge         |-> <<"admin.wireless", "bridge", "read">>,
   traffic                 |-> <<"admin.client", "traffic_stat", "list">>,
   blocked_clients         |-> <<"admin.client", "black_list", "list">>,
   speed_test              |-> <<"admin.device", "speedtest", "read">>,
   firmware_status         |-> <<"admin.cloud", "firmware_status", "check">>,
   ddns                    |-> <<"admin.cloud", "ddns", "get">>,
   wlan_state              |-> <<"admin.wireless", "wlan", "read">>,
   ipv4_configuration      |-> <<"admin.network", "wan_ipv4", "read">>]

ParentalOperationFault ==
  [parental_control_profiles |-> \h402D, parental_control_profile |-> \h4029,
   parental_control_insights |-> \h402F, parental_control_history |-> \h4031,
   parental_control_filter_levels |-> \h4035, parental_control_catalog |-> \h403A]

ParentalOperation ==
  [parental_control_profiles |-> \h4029, parental_control_profile |-> \h402D,
   parental_control_insights |-> \h402F, parental_control_history |-> \h4031,
   parental_control_filter_levels |-> \h4035, parental_control_catalog |-> \h403A]

TmpOperation ==
  LET others ==
        [mesh_nodes |-> \h400F, clients |-> \h4012, internet_status |-> \h400C,
         address_reservations |-> \h40C0, fast_roaming |-> \h4208, beamforming |-> \h421B,
         wireless_operation_mode |-> \h40A0, wireless_bridge |-> \h400A, traffic |-> \h4014,
         blocked_clients |-> \h4018, speed_test |-> \h4010, firmware_status |-> \h401C,
         ddns |-> \h40D0, wlan_state |-> \h4009, ipv4_configuration |-> \h4004,
         led_configuration |-> \h401A, mesh_traffic |-> \h422F, wps_status |-> \h4215,
         monthly_report_settings |-> \h4222, monthly_reports |-> \h40E0, notifications |-> \h4028,
         speed_test_servers |-> \h4228, access_permissions |-> \h4229,
         ipv6_configuration |-> \h4006, ipv6_firewall |-> \h4230, ipv6_clients |-> \h4234,
         lan_configuration |-> \h4211, dhcp_configuration |-> \h4213, qos_mode |-> \h4036,
         bandwidth_configuration |-> \h4219, vlan_configuration |-> \h420D,
         port_forwarding |-> \h40B0, iptv_configuration |-> \h4224, sip_alg |-> \h421D,
         mac_clone |-> \h4226]
  IN  [cap \in DOMAIN others \cup DOMAIN ParentalOperation |->
         IF cap \in DOMAIN ParentalOperation THEN ParentalOperation[cap] ELSE others[cap]]

ProfileReads ==
  {"parental_control_profile", "parental_control_insights", "parental_control_history"}

TmpParamsFault(cap) == IF cap \in ProfileReads THEN {"owner_id"} ELSE {}

\* The keys of the parameters sent with a capability's opcode.
TmpParams(cap) ==
  IF cap = "parental_control_catalog" THEN {"version"}
  ELSE IF cap \in ProfileReads THEN {"owner_id"}
  ELSE {}

-----------------------------------------------------------------------------
(* The gates a read passes, and the way it takes.                          *)

Gates == [tmp : BOOLEAN, sensitive : BOOLEAN]

\* The checks _read_capability makes before it looks at the router, and what
\* capabilities and capability_routes report as the gate.
GateOpen(gates, cap) ==
  LET route == get_capability_route[cap]
  IN  /\ route.sens = "secret" => gates.sensitive
      /\ route.primary = "tmp" => gates.tmp

\* _tmp_fallback_available, for a controller whose profile is exact.
TmpEligible(gates, exact, sens) ==
  gates.tmp /\ exact /\ (sens = "secret" => gates.sensitive)

\* _parameterized_parental_control_resource has gates of its own.
ProfileGateOpen(gates) == gates.sensitive /\ gates.tmp

-----------------------------------------------------------------------------
(* Properties of one capability under one setting of the gates.            *)

\* The operation or opcode a response names as its source is the one that was
\* sent, over either interface: the routing table and the readers agree.
RouteTellsTheTruth(cap) ==
  LET route == get_capability_route[cap]
  IN  /\ cap \in DOMAIN TmpOperation /\ TmpOperation[cap] = route.tmp
      /\ route.primary = "http" <=> cap \in DOMAIN HttpOperation
      /\ route.primary = "http" => HttpOperation[cap] = route.http

\* A caller let through by the capability's gates is never refused further in:
\* what is sent over HTTP is a catalogued read the client can carry, no more
\* sensitive than the route says; what is sent over TMP passes every gate of
\* tmp_read with the parameters it is sent with.
GatesCover(gates, cap) ==
  /\ cap \in Capabilities /\ GateOpen(gates, cap) =>
       LET route == get_capability_route[cap]
       IN  /\ route.primary = "http" =>
                /\ route.http \in EndpointNames
                /\ LET endpoint == get_endpoint[route.http]
                   IN  /\ endpoint.safety = "read_only" /\ JsonCallSupported(endpoint)
                       /\ endpoint.sens = "secret" => gates.sensitive
                       /\ missing_params(endpoint.name, {}) = {}
           /\ gates.tmp => TmpReadAllowed(gates, TmpOperation[cap], TmpParams(cap))
  /\ cap \in ProfileReads /\ ProfileGateOpen(gates) =>
       TmpReadAllowed(gates, TmpOperation[cap], TmpParams(cap))

\* The bulk read of all TMP data has a request for every parameterized read it
\* selects, and sends it with parameters the read was confirmed with.
BulkReadComplete(code) ==
  TmpDataSelected(code) =>
    /\ ParameterizedRequests(code) = {} <=> ConfirmedParams(code) = {}
    /\ ParameterizedRequests(code) \subseteq ConfirmedParams(code)
=============================================================================
