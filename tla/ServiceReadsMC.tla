--------------------------- MODULE ServiceReadsMC --------------------------
EXTENDS ServiceReads, ServiceRequests

CONSTANTS asker, other

MCThreads == {asker, other}

MCSecret ==
  {"clients", "address_reservations", "traffic", "blocked_clients", "ddns", "wlan_state",
   "ipv4_configuration", "monthly_reports", "parental_control_profile"}

MCTmpPrimary ==
  {"qos_mode", "bandwidth_configuration", "monthly_reports", "parental_control_profile"}

MCGates ==
  { [sensitive |-> s, tmp |-> t, bulk |-> s] : s \in BOOLEAN, t \in BOOLEAN }

MCRequests ==
  [t \in MCThreads |->
     IF t = asker
     THEN {"mesh_nodes", "read_bootstrap_endpoint", "p9_http_data_sensitive", "network_status",
           "configuration", "client_device", "wlan_state",
           "cloud_state", "traffic", "qos", "monthly_reports", "parental_control_profile", "logs",
           "system_log_page", "read_binary_endpoint", "get_clients_by_node", "client_overview",
           "sensitive_schemas", "p9_tmp_data", "discover_p9_binary_reads",
           "compatibility_manifest"}
     ELSE {"refresh_inventory", "mesh_overview", "read_endpoint", "close"}]
=============================================================================
