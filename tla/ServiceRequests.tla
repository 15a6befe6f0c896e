-------------------------- MODULE ServiceRequests --------------------------
(***************************************************************************)
(* What each read operation of DecoService does, as the sequence of its    *)
(* steps.  A step is                                                       *)
(*   do     the kind of the step (ServiceReads has an action for each);    *)
(*   arg    the gate, the capability or the call; what an identity step    *)
(*          does (answers the cached or a fresh inventory, requires the    *)
(*          exact profile, or gives the provenance its attempts);          *)
(*   soft   an error _LIVE_READ_ERRORS names is noted and passed over;     *)
(*   on     the interface of the read context the step belongs to;         *)
(*   gated  the step is left out without the gate for sensitive reads.     *)
(***************************************************************************)
EXTENDS Sequences, Naturals

Kinds == {"gate", "identity", "snapshot", "capability", "section", "tmp", "read", "retry",
          "open", "call", "nodes", "compare", "unlock", "close", "hold", "raw", "bootstrap"}

Hard(do, arg) == [do |-> do, arg |-> arg, soft |-> FALSE, on |-> "any", gated |-> FALSE]

Soft(do, arg) == [Hard(do, arg) EXCEPT !.soft = TRUE]

OverHttp(step) == [step EXCEPT !.on = "http"]

OverTmp(step) == [step EXCEPT !.on = "tmp"]

Gated(step) == [step EXCEPT !.gated = TRUE]

\* get_client under the lock, calls to be made over it, and the end of the block.
Locked(calls) == <<Hard("open", "lock")>> \o calls \o <<Hard("unlock", "lock")>>

LockedOverHttp(calls) ==
  <<OverHttp(Hard("open", "lock"))>> \o calls \o <<OverHttp(Hard("unlock", "lock"))>>

-----------------------------------------------------------------------------
(* Identity, and the resources that are one capability.                    *)

device_inventory == <<Hard("identity", "cached")>>

\* The lists of capabilities and of mutations ask the router for nothing else.
capabilities == device_inventory

semantic_mutations == device_inventory

refresh_inventory == <<Hard("identity", "fresh")>>

CapabilityResource(cap) == <<Hard("capability", cap)>>

address_reservations == CapabilityResource("address_reservations")

SystemResources ==
  {"ipv4_configuration", "led_configuration", "mesh_traffic", "wps_status",
   "monthly_report_settings", "monthly_reports", "notifications", "speed_test_servers",
   "parental_control_profiles", "parental_control_filter_levels", "parental_control_catalog"}

AccessResources ==
  {"access_permissions", "ipv6_configuration", "ipv6_firewall", "ipv6_clients",
   "lan_configuration", "dhcp_configuration"}

NetworkResources ==
  {"vlan_configuration", "port_forwarding", "iptv_configuration", "sip_alg", "mac_clone"}

SemanticResources == SystemResources \cup AccessResources \cup NetworkResources

client_devices == [all |-> CapabilityResource("clients"), blocked |-> CapabilityResource("blocked_clients")]

\* The three reads of one parental-control profile.
parental_control(cap) ==
  <<Hard("gate", "sensitive"), Hard("gate", "tmp"), Hard("identity", "exact"), Hard("tmp", cap)>>

qos ==
  <<Hard("capability", "qos_mode"), Hard("capability", "bandwidth_configuration"),
    Hard("compare", "sources")>>

-----------------------------------------------------------------------------
(* The resources made of several reads.                                    *)

WirelessFeatures ==
  <<Soft("section", "wireless_operation_mode"), Soft("section", "wireless_bridge"),
    Soft("section", "fast_roaming"), Soft("section", "beamforming")>>

StatusSections ==
  <<Soft("section", "firmware_status"), Soft("section", "speed_test"),
    Gated(Soft("section", "clients"))>>

network_status ==
  <<Hard("identity", "fresh"), Hard("snapshot", "mesh"), Soft("capability", "internet_status")>>
  \o LockedOverHttp(<<OverHttp(Soft("call", "performance"))>>
                    \o [i \in 1..3 |-> OverHttp(StatusSections[i])])
  \o [i \in 1..3 |-> OverTmp(StatusSections[i])]

configuration ==
  <<Hard("identity", "cached"), Soft("capability", "internet_status")>>
  \o LockedOverHttp(<<OverHttp(Soft("call", "mode")), OverHttp(Soft("call", "wan_info")),
                      OverHttp(Soft("call", "dhcp")), OverHttp(Soft("call", "network_features")),
                      OverHttp(Soft("call", "time_settings")),
                      Gated(OverHttp(Soft("call", "nickname")))>>)
  \o <<OverTmp(Soft("section", "ipv4_configuration"))>>
  \o WirelessFeatures

client_device ==
  <<Hard("capability", "clients"),
    OverHttp(Soft("retry", "nodes")), OverHttp(Soft("read", "blocked_clients")),
    OverHttp(Soft("read", "traffic")), OverHttp(Soft("read", "address_reservations")),
    OverTmp(Soft("tmp", "blocked_clients")), OverTmp(Soft("tmp", "traffic")),
    OverTmp(Soft("tmp", "address_reservations"))>>

traffic == <<Hard("gate", "sensitive"), Soft("capability", "traffic")>>

wlan_state ==
  <<Hard("gate", "sensitive"), Hard("capability", "wlan_state"), Hard("identity", "attempts")>>
  \o WirelessFeatures

cloud_state ==
  <<Hard("gate", "sensitive"), Hard("capability", "ddns"), OverHttp(Soft("retry", "call"))>>

-----------------------------------------------------------------------------
(* The reads of the HTTP client alone.                                     *)

Calls(names) == [i \in 1..Len(names) |-> Hard("call", names[i])]

Overview(names) == <<Hard("gate", "sensitive")>> \o Locked(Calls(names))

network_overview ==
  Overview(<<"mode", "internet", "wan_info", "performance", "time_settings", "reservations",
             "wan_mode", "lan_ipv4", "lan_ip", "vlan", "mac_clone">>)

client_overview == Overview(<<"clients", "traffic", "black_list", "reservations">>)

system_overview == Overview(<<"speed_test", "firmware_status", "nickname", "log_types">>)

mesh_overview ==
  <<Hard("gate", "sensitive")>>
  \o Locked(<<Hard("nodes", "device_list"), Hard("call", "clients_by_node")>>)

logs == <<Soft("read", "log_types")>>

system_log_page ==
  <<Hard("gate", "sensitive"), Hard("gate", "bulk"), Hard("read", "system_log")>>

read_endpoint == <<Hard("retry", "call")>>

\* The same operation for the plaintext reads of the login page.
read_bootstrap_endpoint == <<Hard("bootstrap", "call")>>

read_binary_endpoint ==
  <<Hard("gate", "sensitive"), Hard("gate", "bulk"), Hard("retry", "binary")>>

get_clients_by_node == <<Hard("gate", "sensitive"), Hard("retry", "nodes")>>

discover_reads == Locked(<<Hard("call", "probe")>>)

sensitive_schemas == <<Hard("gate", "sensitive")>> \o discover_reads

compatibility_manifest == Locked(Calls(<<"device_list", "mode", "probe">>))

\* Loops over catalogued endpoints, each read under the lock on its own: three of
\* the endpoints selected (a plaintext login read, which the catalogue lists
\* first, and two others), and the three binary candidates.
SelectedReads == <<Soft("bootstrap", "call"), Soft("retry", "call"), Soft("retry", "call")>>

p9_http_data == [sensitive |-> <<Hard("gate", "sensitive")>> \o SelectedReads, plain |-> SelectedReads]

discover_p9_untested_http_reads == SelectedReads

discover_p9_binary_reads ==
  <<Hard("gate", "sensitive"), Hard("gate", "bulk")>>
  \o [i \in 1..3 |-> Soft("retry", "binary")]

close == <<Hard("close", "logout")>>

-----------------------------------------------------------------------------
(* The raw TMP reads, which look at the opcode and never at the profile.   *)

LockedTmp(requests) == <<Hard("hold", "tmp")>> \o requests \o <<Hard("unlock", "lock")>>

tmp_read == <<Hard("gate", "tmp"), Hard("raw", "json")>>

tmp_read_binary == <<Hard("gate", "tmp"), Hard("raw", "binary")>>

\* Two of the opcodes selected, under one hold of the lock.
p9_tmp_data ==
  <<Hard("gate", "tmp"), Hard("gate", "sensitive")>>
  \o LockedTmp(<<Soft("raw", "json"), Soft("raw", "json")>>)

discover_tmp_read_contracts ==
  <<Hard("gate", "tmp"), Hard("gate", "sensitive")>> \o LockedTmp(<<Hard("raw", "probe")>>)

discover_tmp_unverified_reads ==
  <<Hard("gate", "tmp")>> \o LockedTmp(<<Hard("raw", "probe")>>)

-----------------------------------------------------------------------------
NamedPrograms ==
  [mesh_nodes |-> CapabilityResource("mesh_nodes"), device_inventory |-> device_inventory,
   refresh_inventory |-> refresh_inventory,
   address_reservations |-> address_reservations, client_devices |-> client_devices.all,
   blocked_devices |-> client_devices.blocked, qos |-> qos,
   parental_control_profile |-> parental_control("parental_control_profile"),
   network_status |-> network_status, configuration |-> configuration,
   client_device |-> client_device, traffic |-> traffic, wlan_state |-> wlan_state,
   cloud_state |-> cloud_state, network_overview |-> network_overview,
   client_overview |-> client_overview, system_overview |-> system_overview,
   mesh_overview |-> mesh_overview, logs |-> logs, system_log_page |-> system_log_page,
   read_endpoint |-> read_endpoint, read_bootstrap_endpoint |-> read_bootstrap_endpoint,
   read_binary_endpoint |-> read_binary_endpoint,
   get_clients_by_node |-> get_clients_by_node, discover_reads |-> discover_reads,
   sensitive_schemas |-> sensitive_schemas,
   compatibility_manifest |-> compatibility_manifest, capabilities |-> capabilities,
   semantic_mutations |-> semantic_mutations, p9_http_data |-> p9_http_data.plain,
   p9_http_data_sensitive |-> p9_http_data.sensitive,
   discover_p9_untested_http_reads |-> discover_p9_untested_http_reads,
   discover_p9_binary_reads |-> discover_p9_binary_reads, tmp_read |-> tmp_read,
   tmp_read_binary |-> tmp_read_binary, p9_tmp_data |-> p9_tmp_data,
   discover_tmp_read_contracts |-> discover_tmp_read_contracts,
   discover_tmp_unverified_reads |-> discover_tmp_unverified_reads, close |-> close]

RequestProgram ==
  [op \in SemanticResources \cup DOMAIN NamedPrograms |->
     IF op \in SemanticResources THEN CapabilityResource(op) ELSE NamedPrograms[op]]
=============================================================================
