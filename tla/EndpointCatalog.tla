-------------------------- MODULE EndpointCatalog --------------------------
(***************************************************************************)
(* The catalogue of the router's HTTP operations: which page and form      *)
(* offers each operation, over which transport, whether it changes the     *)
(* router and how sensitive its answer is; and the selections and          *)
(* predicates the service takes from it.  The catalogue is the only thing  *)
(* that tells a read from a write, so it is kept whole: what a decision    *)
(* lets through depends on the rows that are there.                        *)
(*                                                                         *)
(* An operation is named by its path, form and operation; the source joins *)
(* the three with dots.                                                    *)
(***************************************************************************)
EXTENDS FiniteSets, Sequences

-----------------------------------------------------------------------------
(* The tables, one for a group of pages.  A row is the path, the safety and*)
(* sensitivity, the forms and the operations: every form of it has every   *)
(* one of the operations.  Before the path comes the transport, with what  *)
(* it returns, where that is not an object over an encrypted transport.    *)

\* The login pages.
LoginEndpoints ==
  { <<"bootstrap", "object", "login", "read_only", "normal", {"auth", "keys",
      "check_factory_default"}, {"read"}>>,
    <<"bootstrap", "object", "login", "mutation", "secret", {"login", "mini_login",
      "cloud_login"}, {"login"}>>,
    <<"bootstrap", "object", "login", "read_only", "secret", {"default_info"}, {"read"}>>,
    <<"domain_login", "read_only", "secret", {"dlogin"}, {"read"}>>,
    <<"domain_login", "mutation", "secret", {"dlogin"}, {"write"}>> }

\* WAN, LAN, routing and DHCP.
NetworkEndpoints ==
  { <<"admin.network", "read_only", "normal", {"wan_mode", "performance", "igmp_setting",
      "erp_setting", "flow_control", "fast_xmit_setting", "flow_control_lan_wan",
      "dsl_status"}, {"read"}>>,
    <<"admin.network", "mutation", "normal", {"wan_mode", "lan_block", "mac_clone",
      "igmp_setting", "wifi_network", "erp_setting", "flow_control", "fast_xmit_setting",
      "flow_control_lan_wan", "upnp"}, {"write"}>>,
    <<"admin.network", "read_only", "secret", {"wan_ipv4", "ipv6", "dhcp_dial"}, {"read"}>>,
    <<"admin.network", "mutation", "secret", {"wan_ipv4"}, {"write", "connect",
      "disconnect"}>>,
    <<"admin.network", "read_only", "private", {"lan_ipv4", "lan_ip", "lan_block",
      "internet", "mac_clone", "mac_clone_list", "wifi_network", "upnp"}, {"read"}>>,
    <<"admin.network", "mutation", "private", {"lan_ip", "ipv6"}, {"write"}>>,
    <<"admin.network", "read_only", "normal", {"vlan"}, {"read", "get_vlan"}>>,
    <<"admin.network", "mutation", "normal", {"vlan"}, {"write", "set_vlan"}>>,
    <<"admin.network", "mutation", "secret", {"dhcp_dial"}, {"write"}>>,
    <<"admin.network", "read_only", "private", {"routes_static", "routes_system"},
      {"getlist"}>>,
    <<"admin.network", "mutation", "private", {"routes_static"}, {"add", "modify",
      "remove"}>>,
    <<"admin.route", "read_only", "private", {"route"}, {"read"}>>,
    <<"admin.route", "mutation", "private", {"route"}, {"insert", "delete", "update"}>>,
    <<"admin.dhcp", "read_only", "private", {"dhcp_info"}, {"read"}>>,
    <<"admin.dhcp", "mutation", "private", {"dhcp_info"}, {"write"}>>,
    <<"admin.dhcp", "mutation", "normal", {"dhcp_dial", "dhcp_ap"}, {"set"}>>,
    <<"admin.dhcp", "read_only", "normal", {"dhcp_ap"}, {"get"}>> }

\* Wireless and channel optimisation.
WirelessEndpoints ==
  { <<"admin.wireless", "read_only", "secret", {"wlan", "mlo_network"}, {"read"}>>,
    <<"admin.wireless", "mutation", "secret", {"wlan", "mlo_network"}, {"write"}>>,
    <<"admin.wireless", "read_only", "normal", {"operation_mode", "ieee80211r",
      "beamforming", "bandwidth_enhance", "bandwidth_switch", "power", "smart_antenna",
      "wifi_schedule", "ofdma", "backhaul_optimization", "get_support"}, {"read"}>>,
    <<"admin.wireless", "mutation", "normal", {"operation_mode", "ieee80211r",
      "beamforming", "bandwidth_enhance", "bandwidth_switch", "power", "smart_antenna",
      "wifi_schedule", "ofdma", "backhaul_optimization"}, {"write"}>>,
    <<"admin.wireless", "read_only", "private", {"bridge"}, {"read", "get_bridge_status"}>>,
    <<"admin.wireless", "read_only", "private", {"check"}, {"check"}>>,
    <<"admin.network_optimize", "read_only", "normal", {"acs_optimize"}, {"read"}>>,
    <<"admin.network_optimize", "mutation", "normal", {"acs_optimize"}, {"write"}>>,
    <<"admin.network_optimize", "read_only", "private", {"acs_filter_macs"}, {"get"}>> }

\* Nodes, system, locale, eco mode and time.
DeviceEndpoints ==
  { <<"admin.device", "read_only", "private", {"device_list", "system", "mini_device_list",
      "signal_level_list"}, {"read"}>>,
    <<"admin.device", "destructive", "normal", {"device_list"}, {"remove"}>>,
    <<"admin.device", "read_only", "normal", {"mode", "speedtest", "speedinfo",
      "timesetting", "gateway", "envar", "get_server", "led", "sysmode", "detect_mode",
      "fixed_wan_port", "systime", "eco_mode"}, {"read"}>>,
    <<"admin.device", "mutation", "normal", {"speedtest"}, {"write", "stop"}>>,
    <<"admin.device", "mutation", "normal", {"timesetting", "system", "envar", "led",
      "set_backup", "fixed_wan_port", "eco_mode"}, {"write"}>>,
    <<"admin.device", "mutation", "normal", {"timesetting"}, {"gmt"}>>,
    <<"admin.device", "destructive", "normal", {"system"}, {"reboot"}>>,
    <<"admin.device", "destructive", "normal", {"reboot", "factory"}, {"write"}>>,
    <<"admin.device", "mutation", "normal", {"get_server"}, {"clear"}>>,
    <<"admin.device", "mutation", "normal", {"device_prefer_set"}, {"set"}>>,
    <<"plain", "object", "admin.system", "read_only", "normal", {"envar", "sysmode"},
      {"read"}>>,
    <<"plain", "object", "admin.system", "mutation", "normal", {"envar"}, {"write"}>>,
    <<"admin.system", "mutation", "normal", {"logout"}, {"write"}>>,
    <<"admin.system", "mutation", "normal", {"logout"}, {"logout"}>>,
    <<"admin.component_control", "read_only", "normal", {"switch_list"}, {"read"}>>,
    <<"admin.web", "read_only", "normal", {"extra_component_info"}, {"get"}>>,
    <<"locale", "read_only", "normal", {"lang", "country", "country_list"}, {"read"}>>,
    <<"locale", "mutation", "normal", {"lang", "country"}, {"write"}>>,
    <<"encrypted", "list", "locale", "read_only", "normal", {"list"}, {"read"}>>,
    <<"admin.eco_mode", "read_only", "normal", {"eco_mode", "get_period"}, {"read"}>>,
    <<"admin.eco_mode", "mutation", "normal", {"eco_mode", "skip_schedule"}, {"write"}>>,
    <<"admin.time_setting", "read_only", "normal", {"request"}, {"read"}>>,
    <<"admin.time_setting", "mutation", "normal", {"notify"}, {"write"}>> }

\* Clients, reservations and block lists.
ClientEndpoints ==
  { <<"admin.client", "read_only", "private", {"client_list", "client"}, {"read"}>>,
    <<"admin.client", "mutation", "private", {"client", "block", "unblock",
      "access_refuse"}, {"write"}>>,
    <<"admin.client", "read_only", "private", {"traffic_stat"}, {"read", "list"}>>,
    <<"admin.client", "read_only", "private", {"black_list"}, {"getlist", "list"}>>,
    <<"admin.client", "mutation", "private", {"black_list"}, {"add", "remove"}>>,
    <<"admin.client", "read_only", "private", {"addr_reservation"}, {"getlist"}>>,
    <<"admin.client", "mutation", "private", {"addr_reservation"}, {"add", "modify",
      "remove"}>>,
    <<"admin.client", "mutation", "normal", {"client_access", "client_isolation"},
      {"write"}>>,
    <<"admin.client", "read_only", "normal", {"client_isolation"}, {"read"}>>,
    <<"admin.client", "read_only", "private", {"access_refuse", "apply_list", "white_list",
      "lease"}, {"get"}>>,
    <<"admin.client", "mutation", "private", {"apply_list"}, {"set"}>>,
    <<"admin.nrd", "read_only", "private", {"black_list"}, {"list"}>>,
    <<"admin.nrd", "mutation", "private", {"black_list"}, {"block", "unblock"}>> }

\* Parental control, QoS and HomeShield.
SmartNetworkEndpoints ==
  { <<"admin.smart_network", "read_only", "normal", {"tm_qos"}, {"read"}>>,
    <<"admin.smart_network", "mutation", "normal", {"tm_qos"}, {"write"}>>,
    <<"admin.smart_network", "read_only", "normal", {"bandwidth"}, {"get"}>>,
    <<"admin.smart_network", "mutation", "normal", {"bandwidth"}, {"set"}>>,
    <<"admin.smart_network", "read_only", "private", {"patrol_owner"}, {"list", "get"}>>,
    <<"admin.smart_network", "mutation", "private", {"patrol_owner"}, {"add", "del",
      "block", "set"}>>,
    <<"admin.smart_network", "read_only", "private", {"patrol_insights"}, {"get",
      "history"}>>,
    <<"admin.smart_network", "mutation", "private", {"patrol_insights"}, {"remove"}>>,
    <<"admin.smart_network", "mutation", "private", {"patrol_cli", "patrol_filter"}, {"add",
      "del"}>>,
    <<"admin.smart_network", "read_only", "private", {"patrol_filter",
      "patrol_owner_avatar", "white_list"}, {"get"}>>,
    <<"admin.smart_network", "mutation", "private", {"patrol_owner_avatar"}, {"set"}>>,
    <<"admin.smart_network", "mutation", "private", {"white_list"}, {"add", "remove"}>>,
    <<"admin.smart_network", "read_only", "private", {"app_block_list"}, {"read"}>>,
    <<"admin.smart_network", "mutation", "private", {"app_dpi"}, {"add", "modify",
      "remove"}>>,
    <<"admin.smart_network", "mutation", "private", {"time_limit_add", "time_limit_modify",
      "time_limit_remove"}, {"write"}>>,
    <<"admin.smart_network", "read_only", "secret", {"tmp_avira"}, {"getOwnerInList",
      "getFamilyTimeInfo", "getTodayInsightTimeUsagePro", "getInsightData", "scanGet",
      "ispGet", "service_state_check", "service_status_check", "cloud_service_state_check",
      "get_sec_whitelist"}>>,
    <<"admin.smart_network", "mutation", "secret", {"tmp_avira"}, {"addOwnerInList",
      "delOwnerInList", "modifyBaseInfo", "bonusTimeSet", "ownerClientListSet",
      "white_list_add", "white_list_remove", "setFamilyTimeInfo", "ignoreReq", "scanStart",
      "scanStop", "networkQualityStartOptimize", "add_sec_whitelist",
      "remove_sec_whitelist"}>>,
    <<"admin.security", "read_only", "private", {"info"}, {"read"}>>,
    <<"admin.security", "mutation", "normal", {"info", "update"}, {"write"}>>,
    <<"admin.security", "read_only", "normal", {"category", "rule"}, {"read"}>>,
    <<"admin.security", "read_only", "private", {"history"}, {"get"}>>,
    <<"admin.security", "mutation", "private", {"history"}, {"clear", "remove"}>> }

\* Cameras, firmware files and the cloud.
CloudEndpoints ==
  { <<"admin.camera_security", "read_only", "private", {"camera_security",
      "camera_security_blocked_period"}, {"get"}>>,
    <<"admin.camera_security", "mutation", "normal", {"camera_security",
      "camera_security_blocked_period"}, {"set"}>>,
    <<"admin.firmware", "read_only", "secret", {"config"}, {"read", "check"}>>,
    <<"encrypted", "binary", "admin.firmware", "read_only", "secret", {"config"},
      {"backup"}>>,
    <<"admin.firmware", "destructive", "secret", {"config"}, {"restore"}>>,
    <<"multipart", "value", "admin.firmware", "destructive", "secret", {"config_multipart"},
      {"upload"}>>,
    <<"multipart", "binary", "admin.firmware", "read_only", "secret", {"config_multipart"},
      {"backup"}>>,
    <<"multipart", "value", "admin.firmware", "destructive", "secret", {"config_multipart"},
      {"restore"}>>,
    <<"admin.firmware", "read_only", "normal", {"upgrade"}, {"read"}>>,
    <<"admin.firmware", "destructive", "normal", {"upgrade"}, {"write"}>>,
    <<"admin.isp", "read_only", "normal", {"isp_upgrade"}, {"read"}>>,
    <<"multipart", "value", "admin.isp", "destructive", "normal", {"isp_upgrade"},
      {"upgrade"}>>,
    <<"mcu_upgrade", "destructive", "normal", {"mcu_upgrade"}, {"check"}>>,
    <<"admin.cloud", "read_only", "private", {"nickname"}, {"read"}>>,
    <<"admin.cloud", "mutation", "normal", {"nickname"}, {"write"}>>,
    <<"plain", "object", "admin.cloud", "read_only", "normal", {"firmware"}, {"check",
      "status", "firmware_status", "sync_check_firmware", "get_sync"}>>,
    <<"plain", "object", "admin.cloud", "destructive", "normal", {"firmware"}, {"upgrade",
      "download", "local_upgrade"}>>,
    <<"plain", "object", "admin.cloud", "mutation", "normal", {"firmware"},
      {"auto_upgrade"}>>,
    <<"multipart", "value", "admin.cloud", "destructive", "secret", {"firmware"},
      {"upload"}>>,
    <<"admin.cloud", "read_only", "normal", {"firmware_status"}, {"read", "check",
      "check_upgrade"}>>,
    <<"admin.cloud", "destructive", "normal", {"firmware_status"}, {"upgrade",
      "local_upgrade"}>>,
    <<"admin.cloud", "read_only", "secret", {"group", "ddns", "manager"}, {"get"}>>,
    <<"admin.cloud", "read_only", "secret", {"group"}, {"iot_read"}>>,
    <<"admin.cloud", "mutation", "secret", {"group"}, {"create", "add", "set", "update",
      "remove", "report", "message", "push", "push_weekly"}>>,
    <<"admin.cloud", "destructive", "secret", {"system"}, {"bind", "unbind", "remove_all",
      "transfer"}>>,
    <<"admin.cloud", "mutation", "secret", {"system"}, {"proxy", "account"}>>,
    <<"admin.cloud", "internal", "secret", {"system"}, {"notify", "sync"}>>,
    <<"admin.cloud", "mutation", "secret", {"ddns", "manager"}, {"set"}>>,
    <<"admin.cloud", "read_only", "private", {"homecare_service"}, {"get"}>> }

\* The cloud account.
AccountEndpoints ==
  { <<"admin.cloud_account", "read_only", "secret", {"read"}, {"read_keys"}>>,
    <<"admin.cloud_account", "read_only", "secret", {"read"}, {"get_device_token",
      "get_deviceInfo"}>>,
    <<"admin.cloud_account", "mutation", "secret", {"login"}, {"user_login",
      "bind_and_login", "cloud_bind_and_login"}>>,
    <<"admin.cloud_account", "read_only", "normal", {"check_internet", "check_device",
      "check_connection", "check_cloud_connection", "check_support"}, {"read"}>>,
    <<"admin.cloud_account", "read_only", "secret", {"check_login", "load", "get_token"},
      {"read"}>>,
    <<"admin.cloud_account", "destructive", "normal", {"bind_owner", "unbind_owner"},
      {"write"}>>,
    <<"admin.cloud_account", "read_only", "private", {"get_dev_info", "get_deviceInfo"},
      {"read"}>>,
    <<"admin.cloud_account", "mutation", "normal", {"set_dev_info"}, {"write"}>>,
    <<"admin.cloud_account", "internal", "secret", {"cloud_pass_through",
      "tmp_cloud_pass_through", "tmp_cmd"}, {"write"}>>,
    <<"admin.cloud_account", "destructive", "secret", {"upgrade", "cloud_upgrade"},
      {"write"}>>,
    <<"admin.cloud_account", "mutation", "secret", {"write"}, {"write"}>> }

\* Smart-home devices and automations.
IotEndpoints ==
  { <<"admin.iot_device", "read_only", "private", {"iotdevice"}, {"getlist",
      "getlist_by_mod"}>>,
    <<"admin.iot_device", "mutation", "private", {"iotdevice"}, {"add", "modify", "remove",
      "scan", "begin_scan", "end_scan", "identify"}>>,
    <<"admin.iot_device", "mutation", "secret", {"iotdevice"}, {"account_sync"}>>,
    <<"admin.iot_device", "internal", "secret", {"iotdevice"}, {"inner_getlist",
      "inner_remove", "inner_modify", "inner_scan", "inner_begin_scan", "inner_inquiry",
      "inner_begin_assoc", "inner_get", "inner_act", "inner_act_qr", "inner_upnp_get",
      "inner_dhcpd_get", "inner_file_pull", "inner_file_push", "inner_client_mgmt",
      "inner_client_netdev_req"}>>,
    <<"admin.iot_device", "mutation", "secret", {"iotprofile"}, {"get_and_update_pwd"}>>,
    <<"admin.iot_device", "mutation", "private", {"iotspace"}, {"set", "set_network_device",
      "remove_network_device"}>>,
    <<"admin.iot_device", "read_only", "private", {"iotowner"}, {"get", "getlist"}>>,
    <<"admin.iot_device", "mutation", "private", {"iotowner"}, {"set"}>>,
    <<"admin.iot_device", "internal", "private", {"iotowner"}, {"testcmd",
      "inner_report_sensor", "inner_network", "form_network"}>>,
    <<"admin.iot_device", "destructive", "private", {"iotowner"}, {"remove_all"}>>,
    <<"admin.iot_device", "read_only", "private", {"iotrole"}, {"get_init_info",
      "get_avail_node_id", "check_node_status"}>>,
    <<"admin.iot_device", "mutation", "secret", {"iotrole"}, {"commission_complete",
      "get_pairing_code"}>>,
    <<"admin.iot_device", "internal", "secret", {"iotrole"}, {"inner_update_config"}>>,
    <<"admin.iot_automation", "read_only", "private", {"iotautomation"}, {"get_tasklist"}>>,
    <<"admin.iot_automation", "mutation", "private", {"iotautomation"}, {"add_task",
      "modify_task", "modify_task_list", "remove_tasklist", "add_trigger", "modify_trigger",
      "remove_triggerlist"}>>,
    <<"admin.iot_automation", "read_only", "private", {"iotoneclick"}, {"getlist",
      "get_history"}>>,
    <<"admin.iot_automation", "mutation", "private", {"iotoneclick"}, {"set", "add_scene",
      "modify_scene", "remove_scene", "add_action", "modify_action", "remove_actionlist",
      "remove_history"}>> }

\* WPS, VPN, NAT, storage and administration.
ServiceEndpoints ==
  { <<"admin.wps", "read_only", "normal", {"status"}, {"get"}>>,
    <<"admin.wps", "mutation", "secret", {"state"}, {"set"}>>,
    <<"admin.vpn_client", "read_only", "secret", {"config"}, {"read", "load"}>>,
    <<"admin.vpn_client", "mutation", "secret", {"config"}, {"write", "insert", "update",
      "remove"}>>,
    <<"admin.vpn_server", "read_only", "secret", {"server"}, {"read"}>>,
    <<"admin.vpn_server", "mutation", "secret", {"server", "accounts"}, {"insert", "remove",
      "update"}>>,
    <<"admin.vpn_server", "read_only", "secret", {"cert"}, {"get"}>>,
    <<"admin.vpn_server", "mutation", "secret", {"cert"}, {"set"}>>,
    <<"admin.vpn_server", "read_only", "secret", {"key"}, {"gets", "getc"}>>,
    <<"admin.vpn_server", "mutation", "secret", {"key"}, {"renews", "renewc"}>>,
    <<"admin.vpnconn", "read_only", "private", {"conn"}, {"list"}>>,
    <<"admin.vpnconn", "mutation", "normal", {"conn"}, {"disconnect"}>>,
    <<"admin.vpnconn", "internal", "secret", {"cert"}, {"sync"}>>,
    <<"admin.nat", "read_only", "normal", {"setting"}, {"read"}>>,
    <<"admin.nat", "mutation", "normal", {"setting", "alg"}, {"write"}>>,
    <<"admin.nat", "read_only", "private", {"vs"}, {"getlist"}>>,
    <<"admin.nat", "mutation", "private", {"vs"}, {"add", "modify", "batch_remove",
      "remove"}>>,
    <<"admin.nat", "read_only", "private", {"pt"}, {"load"}>>,
    <<"admin.nat", "mutation", "normal", {"pt"}, {"insert", "update"}>>,
    <<"admin.nat", "read_only", "private", {"dmz"}, {"read"}>>,
    <<"admin.nat", "mutation", "private", {"dmz"}, {"write"}>>,
    <<"admin.nat", "read_only", "normal", {"alg", "sip_alg"}, {"get"}>>,
    <<"admin.nat", "mutation", "normal", {"sip_alg"}, {"set"}>>,
    <<"admin.ddns", "read_only", "secret", {"ddns"}, {"get"}>>,
    <<"admin.ddns", "mutation", "secret", {"ddns"}, {"set"}>>,
    <<"admin.ipv6_firewall", "read_only", "private", {"firewall", "client"}, {"read"}>>,
    <<"admin.ipv6_firewall", "mutation", "private", {"firewall"}, {"write", "remove",
      "modify"}>>,
    <<"admin.iptv", "read_only", "normal", {"iptv"}, {"get"}>>,
    <<"admin.iptv", "mutation", "normal", {"iptv"}, {"set"}>>,
    <<"admin.usbshare", "read_only", "private", {"device"}, {"list", "list_all"}>>,
    <<"admin.usbshare", "mutation", "private", {"device"}, {"scan", "remove",
      "remove_list"}>>,
    <<"admin.usbshare", "read_only", "secret", {"server"}, {"read", "read_list"}>>,
    <<"admin.usbshare", "mutation", "secret", {"server"}, {"write", "write_list"}>>,
    <<"admin.usbshare", "read_only", "normal", {"status"}, {"read"}>>,
    <<"admin.usbshare", "internal", "normal", {"sync"}, {"read"}>>,
    <<"admin.time_machine", "read_only", "secret", {"settings"}, {"read"}>>,
    <<"admin.time_machine", "mutation", "secret", {"settings"}, {"write"}>>,
    <<"admin.time_machine", "read_only", "private", {"info", "content"}, {"read"}>>,
    <<"admin.administration", "read_only", "secret", {"account"}, {"read", "appget",
      "mcu_read", "mcu_check"}>>,
    <<"admin.administration", "mutation", "secret", {"account"}, {"write", "set", "appset",
      "mcu_write"}>>,
    <<"admin.administration", "read_only", "secret", {"recovery", "remote", "login"},
      {"read"}>>,
    <<"admin.administration", "destructive", "secret", {"recovery"}, {"update"}>>,
    <<"admin.administration", "mutation", "normal", {"mode"}, {"local", "remote"}>>,
    <<"admin.administration", "read_only", "secret", {"local"}, {"load", "view"}>>,
    <<"admin.administration", "mutation", "secret", {"local"}, {"insert", "update",
      "remove"}>>,
    <<"admin.administration", "mutation", "secret", {"remote", "login"}, {"write"}>> }

\* Mesh discovery, logs, diagnostics and small services.
DiagnosticEndpoints ==
  { <<"group_key", "object", "discover", "internal", "private", {"_discover"}, {"read"}>>,
    <<"group_key", "object", "discover", "internal", "secret", {"sync_config",
      "sync_config_emmc", "sync_slave_check", "sync_master_check"}, {"read"}>>,
    <<"admin.log", "read_only", "secret", {"log"}, {"read", "load"}>>,
    <<"admin.log", "mutation", "secret", {"log"}, {"write"}>>,
    <<"encrypted", "list", "admin.log_export", "read_only", "normal", {"types"}, {"read"}>>,
    <<"admin.log_export", "mutation", "secret", {"save"}, {"write"}>>,
    <<"download", "binary", "admin.log_export", "read_only", "secret", {"save_log"},
      {"download"}>>,
    <<"admin.log_export", "mutation", "secret", {"feedback_log"}, {"build"}>>,
    <<"admin.log_export", "read_only", "secret", {"feedback_log"}, {"read"}>>,
    <<"admin.syslog", "read_only", "secret", {"mail"}, {"read"}>>,
    <<"admin.syslog", "mutation", "secret", {"mail"}, {"write"}>>,
    <<"admin.syslog", "mutation", "secret", {"log"}, {"mail"}>>,
    <<"admin.telemetry_collect", "read_only", "private", {"telemetry_device",
      "telemetry_client", "telemetry_system", "telemetry_usb"}, {"read"}>>,
    <<"admin.telemetry_collect", "read_only", "normal", {"telemetry_control"}, {"read"}>>,
    <<"admin.telemetry_collect", "mutation", "normal", {"telemetry_control"}, {"write"}>>,
    <<"admin.debug", "internal", "secret", {"qlog", "simplecom", "tty2tcp", "tm"}, {"start",
      "stop"}>>,
    <<"admin.auto_test", "internal", "normal", {"test"}, {"nat", "upnp", "dhcp", "wifi"}>>,
    <<"admin.auto_test", "internal", "secret", {"test"}, {"all_info"}>>,
    <<"admin.arptbl", "internal", "private", {"syn"}, {"tbl_op"}>>,
    <<"admin.cwmp", "read_only", "secret", {"cwmp"}, {"get"}>>,
    <<"admin.cwmp", "mutation", "secret", {"cwmp"}, {"set"}>>,
    <<"admin.cwmp", "read_only", "secret", {"cwmp_info"}, {"read"}>>,
    <<"admin.cwmp", "mutation", "secret", {"cwmp_info"}, {"write"}>>,
    <<"admin.folder_sharing", "read_only", "private", {"tree"}, {"read"}>>,
    <<"admin.combo_port", "read_only", "normal", {"list"}, {"read"}>>,
    <<"admin.combo_port", "mutation", "normal", {"switch"}, {"set"}>>,
    <<"admin.component_list", "read_only", "normal", {"mobile", "bluetooth", "profile"},
      {"read"}>>,
    <<"admin.ga_info", "read_only", "private", {"status"}, {"read", "get",
      "get_internal"}>>,
    <<"admin.ga_info", "mutation", "normal", {"status"}, {"write"}>>,
    <<"admin.op_manager", "internal", "normal", {"read"}, {"get", "list", "getlist"}>>,
    <<"admin.wifidog", "read_only", "secret", {"portal_content"}, {"read"}>>,
    <<"admin.wifidog", "mutation", "secret", {"portal_content"}, {"upload"}>>,
    <<"admin.iot_cloud", "internal", "secret", {"iot_cloud_req"}, {"index"}>>,
    <<"admin.iot_client_mesh", "internal", "private", {"client_mesh"}, {"set", "tss",
      "sync_device_msg", "sync_cloud_msg"}>>,
    <<"admin.msg_server", "internal", "normal", {"coordinator", "notify"}, {"notify"}>>,
    <<"admin.wpsd", "internal", "secret", {"main", "code"}, {"report"}>> }

\* Onboarding.
SetupEndpoints ==
  { <<"admin.quick_setup", "destructive", "secret", {"newgroup", "newdevice",
      "batchdevices", "dcmp_pre_config"}, {"write"}>>,
    <<"admin.quick_setup", "read_only", "secret", {"preconf"}, {"read"}>>,
    <<"admin.quick_setup", "destructive", "secret", {"preconf"}, {"write", "add"}>>,
    <<"admin.quick_setup", "internal", "normal", {"heartbeat"}, {"read"}>>,
    <<"admin.quick_setup", "internal", "secret", {"sync", "bluetooth"}, {"write"}>>,
    <<"admin.quick_setup", "internal", "private", {"eponymous_detect", "get_dev_list"},
      {"read"}>>,
    <<"admin.quick_setup", "internal", "private", {"tss", "sync_dev_list"}, {"write"}>>,
    <<"admin.tipc_controller", "internal", "secret", {"newdevice", "sync"}, {"write"}>> }

\* Node synchronisation and the last small services.
SyncEndpoints ==
  { <<"token", "object", "admin.sync", "internal", "secret", {"sync_check",
      "sync_emmc_check", "sync_get_info", "sync_get_cfg"}, {"read"}>>,
    <<"token", "object", "admin.sync", "internal", "secret", {"sync_config",
      "sync_emmc_config", "sync_subconfig", "sync_isp_profile"}, {"write"}>>,
    <<"token", "object", "admin.sync", "internal", "private", {"sync_update_dev_list",
      "sync_re_handle_fap_fdb"}, {"write"}>>,
    <<"token", "object", "admin.sync", "internal", "private", {"sync_detect_slave"},
      {"read"}>>,
    <<"token", "object", "admin.sync", "internal", "normal", {"check_firmware",
      "sync_download_status_bigfirm", "sync_download_status_lte"}, {"read"}>>,
    <<"token", "object", "admin.sync", "internal", "normal", {"sync_firmware",
      "sync_download_bigfirm", "sync_download_lte"}, {"write"}>>,
    <<"token", "object", "admin.sync", "destructive", "normal", {"sync_upgrade",
      "force_upgrade", "force_upgrade_lte"}, {"write"}>>,
    <<"blocking", "read_only", "private", {"check"}, {"get"}>>,
    <<"blocking", "mutation", "private", {"check"}, {"set"}>>,
    <<"blocking", "read_only", "secret", {"vercode"}, {"read"}>>,
    <<"blocking", "mutation", "secret", {"vercode"}, {"write"}>>,
    <<"admin.conn_indicator", "internal", "normal", {"internet"}, {"down", "sync"}>>,
    <<"admin.re_disconnect_cloud", "internal", "normal", {"notify"}, {"write"}>> }

-----------------------------------------------------------------------------
(* Parameters.  An operation without a row takes none.                     *)

DefaultParams ==
  { <<<<"admin.network", "wan_ipv4", "read">>, {"device_mac"}>>,
    <<<<"admin.network", "lan_ipv4", "read">>, {"device_mac"}>>,
    <<<<"admin.network", "lan_ip", "read">>, {"device_mac"}>>,
    <<<<"admin.network", "dsl_status", "read">>, {"device_mac"}>>,
    <<<<"admin.wireless", "power", "read">>, {"device_mac"}>>,
    <<<<"admin.client", "client_list", "read">>, {"device_mac"}>> }

RequiredParams ==
  { <<<<"admin.network", "wan_mode", "write">>, {"mode"}>>,
    <<<<"admin.network", "lan_ip", "write">>, {"ip", "mask"}>>,
    <<<<"admin.network", "dhcp_dial", "write">>, {"enable_unicast"}>>,
    <<<<"admin.network", "igmp_setting", "write">>, {"enable_join_igmpv3"}>>,
    <<<<"admin.network", "wifi_network", "write">>, {"enable_wfnetwork"}>>,
    <<<<"admin.network", "flow_control", "write">>, {"enable_flow_control"}>>,
    <<<<"admin.network", "fast_xmit_setting", "write">>, {"enable"}>>,
    <<<<"admin.network", "vlan", "set_vlan">>, {"vlan_id"}>>,
    <<<<"admin.network", "vlan", "write">>, {"vlan_id"}>>,
    <<<<"admin.network", "mac_clone", "write">>, {"clone_mode"}>>,
    <<<<"admin.network", "routes_static", "add">>, {"name", "target", "netmask", "gateway", "interface"}>>,
    <<<<"admin.network", "routes_static", "modify">>, {"key", "name", "target", "netmask", "gateway", "interface"}>>,
    <<<<"admin.network", "routes_static", "remove">>, {"key"}>>,
    <<<<"admin.dhcp", "dhcp_info", "write">>, {"startIpAddress", "endIpAddress"}>>,
    <<<<"admin.wireless", "ieee80211r", "write">>, {"enable"}>>,
    <<<<"admin.wireless", "beamforming", "write">>, {"enable"}>>,
    <<<<"admin.wireless", "operation_mode", "write">>, {"mode"}>>,
    <<<<"admin.wireless", "bandwidth_enhance", "write">>, {"enable_ht160"}>>,
    <<<<"admin.wireless", "ofdma", "write">>, {"enable"}>>,
    <<<<"admin.device", "timesetting", "write">>, {"timezone", "continent", "tz_region"}>>,
    <<<<"admin.device", "system", "reboot">>, {"mac_list"}>>,
    <<<<"admin.device", "device_list", "remove">>, {"device_id"}>>,
    <<<<"admin.device", "reboot", "write">>, {"device_id"}>>,
    <<<<"admin.device", "led", "write">>, {"enable"}>>,
    <<<<"locale", "lang", "write">>, {"locale"}>>,
    <<<<"locale", "country", "write">>, {"value"}>>,
    <<<<"admin.client", "client", "write">>, {"mac"}>>,
    <<<<"admin.client", "client_access", "write">>, {"mac", "action"}>>,
    <<<<"admin.client", "black_list", "add">>, {"mac"}>>,
    <<<<"admin.client", "black_list", "remove">>, {"mac"}>>,
    <<<<"admin.client", "block", "write">>, {"mac"}>>,
    <<<<"admin.client", "unblock", "write">>, {"mac"}>>,
    <<<<"admin.client", "addr_reservation", "add">>, {"mac", "ip"}>>,
    <<<<"admin.client", "addr_reservation", "modify">>, {"mac", "ip"}>>,
    <<<<"admin.client", "addr_reservation", "remove">>, {"mac"}>>,
    <<<<"admin.smart_network", "bandwidth", "set">>, {"upstream_bandwidth", "downstream_bandwidth"}>>,
    <<<<"admin.nat", "vs", "add">>, {"name", "external_port", "internal_ip", "internal_port", "protocol"}>>,
    <<<<"admin.nat", "vs", "modify">>, {"port_forwarding_id"}>>,
    <<<<"admin.nat", "vs", "remove">>, {"port_forwarding_id"}>>,
    <<<<"admin.nat", "dmz", "write">>, {"enable"}>>,
    <<<<"admin.nat", "sip_alg", "set">>, {"enable"}>>,
    <<<<"admin.ddns", "ddns", "set">>, {"ddns_status"}>>,
    <<<<"admin.ipv6_firewall", "firewall", "remove">>, {"id"}>>,
    <<<<"admin.iptv", "iptv", "set">>, {"enable"}>>,
    <<<<"admin.wps", "state", "set">>, {"state"}>>,
    <<<<"admin.cloud", "firmware", "upload">>, {"hw_id", "oem_id", "device_model"}>>,
    <<<<"admin.log_export", "feedback_log", "build">>, {"level"}>>,
    <<<<"admin.log_export", "feedback_log", "read">>, {"index", "limit"}>>,
    <<<<"admin.syslog", "mail", "write">>, {"from", "password", "smtp_server", "port", "to"}>> }

ParamsIn(table, n) == UNION { entry[2] : entry \in { e \in table : e[1] = n } }

-----------------------------------------------------------------------------
(* The catalogue.                                                          *)

Full(row) == IF Len(row) = 5 THEN <<"encrypted", "object">> \o row ELSE row

Rows ==
  { Full(row) :
      row \in LoginEndpoints \cup NetworkEndpoints \cup WirelessEndpoints \cup DeviceEndpoints
              \cup ClientEndpoints \cup SmartNetworkEndpoints \cup CloudEndpoints
              \cup AccountEndpoints \cup IotEndpoints \cup ServiceEndpoints
              \cup DiagnosticEndpoints \cup SetupEndpoints \cup SyncEndpoints }

ENDPOINT_CATALOG ==
  UNION { { [name |-> <<row[3], form, op>>, auth |-> row[1], kind |-> row[2],
             safety |-> row[4], sens |-> row[5]] : form \in row[6], op \in row[7] } : row \in Rows }

EndpointNames == {e.name : e \in ENDPOINT_CATALOG}

\* _BY_NAME: were two rows to share a name, only one of them could be called.
get_endpoint == [n \in EndpointNames |-> CHOOSE e \in ENDPOINT_CATALOG : e.name = n]

required_params == [n \in EndpointNames |-> ParamsIn(RequiredParams, n)]

default_params == [n \in EndpointNames |-> ParamsIn(DefaultParams, n)]

\* What is missing from a call; a call without parameters stands for the defaults.
missing_params(n, given) == required_params[n] \ (IF given = {} THEN default_params[n] ELSE given)

-----------------------------------------------------------------------------
(* Which method of the client can carry an operation.                      *)

generic_call_supported(e) == e.auth \in {"encrypted", "plain"} /\ e.kind # "binary"

binary_call_supported(e) ==
  /\ e.kind = "binary"
  /\ \/ e.auth \in {"download", "encrypted"}
     \/ /\ e.auth = "multipart"
        /\ e.name = <<"admin.firmware", "config_multipart", "backup">>

bootstrap_call_supported(e) ==
  /\ e.auth = "bootstrap"
  /\ e.name[1] = "login" /\ e.name[3] = "read"
  /\ e.kind # "binary"

JsonCallSupported(e) == generic_call_supported(e) \/ bootstrap_call_supported(e)

-----------------------------------------------------------------------------
(* The selections other modules take.                                      *)

READ_ONLY_ENDPOINTS == {e \in ENDPOINT_CATALOG : e.safety = "read_only"}

MUTATION_ENDPOINTS == {e \in ENDPOINT_CATALOG : e.safety # "read_only"}

DISCOVERABLE_READ_ENDPOINTS ==
  {e \in READ_ONLY_ENDPOINTS : e.sens # "secret" /\ JsonCallSupported(e)}

SENSITIVE_SCHEMA_ENDPOINTS ==
  {e \in READ_ONLY_ENDPOINTS : e.sens = "secret" /\ JsonCallSupported(e)}

Reads(path, forms) == {<<path, form, "read">> : form \in forms}

CAPABILITY_ENDPOINTS ==
  {e \in ENDPOINT_CATALOG : e.name \in
     { <<"admin.component_control", "switch_list", "read">>,
       <<"admin.web", "extra_component_info", "get">>,
       <<"admin.component_list", "mobile", "read">>,
       <<"admin.wireless", "get_support", "read">> }}

P9_READ_ENDPOINTS ==
  {e \in ENDPOINT_CATALOG : e.name \in
     Reads("admin.network", {"wan_mode", "lan_ipv4", "lan_ip", "internet", "vlan",
                             "mac_clone", "performance"})
     \cup Reads("admin.wireless", {"operation_mode", "bridge", "ieee80211r", "beamforming"})
     \cup Reads("admin.device", {"device_list", "mode", "speedtest", "timesetting"})
     \cup Reads("admin.component_control", {"switch_list"})
     \cup Reads("locale", {"lang", "country", "country_list"})
     \cup Reads("admin.client", {"client_list"})
     \cup Reads("admin.cloud", {"nickname", "firmware_status"})
     \cup Reads("admin.cloud_account", {"check_internet", "check_device", "check_connection",
                                        "check_cloud_connection", "check_support",
                                        "get_dev_info"})
     \cup Reads("admin.log_export", {"types"})
     \cup Reads("login", {"auth", "keys", "check_factory_default"})
     \cup { <<"admin.client", "traffic_stat", "list">>,
            <<"admin.client", "black_list", "list">>,
            <<"admin.client", "addr_reservation", "getlist">>,
            <<"admin.cloud", "firmware_status", "check">>,
            <<"admin.cloud", "firmware_status", "check_upgrade">> }}

\* A write is a candidate when a read of its form is known to work on the P9.
P9_MUTATION_CANDIDATES ==
  LET supported == {<<e.name[1], e.name[2]>> : e \in P9_READ_ENDPOINTS}
  IN {e \in MUTATION_ENDPOINTS :
        \/ <<e.name[1], e.name[2]>> \in supported
        \/ e.name = <<"admin.log_export", "feedback_log", "build">>}
=============================================================================
