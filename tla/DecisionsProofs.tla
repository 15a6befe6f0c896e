--------------------------- MODULE DecisionsProofs --------------------------
(***************************************************************************)
(* The decisions, for every question.  A write whose preflight passed can  *)
(* be undone, for tables of any size, any limit and any values: half of it *)
(* is about the tables and the parameters the preflights keep, half about  *)
(* the catalogue, where what undoes an operation takes these parameters    *)
(* and the read of its form can be sent without any.  Plan, inventory and  *)
(* executor agree on every write, and no operation has two doors: both     *)
(* rest on the catalogue's classification, established row by row.  The    *)
(* routes name what is sent, and their gates suffice for it: also row by   *)
(* row.  What undoes a TMP write works on the state its read shows, and a  *)
(* candidate's undoing leaves the connection alone: established of the     *)
(* opcodes the source lists code by code, and of whatever else the         *)
(* registry file brings from the inferences alone.                         *)
(***************************************************************************)
EXTENDS Decisions, FiniteSetTheorems, SequenceTheorems, TLAPS

-----------------------------------------------------------------------------
(* The rows of the catalogue.                                              *)

LEMMA FullFive ==
  ASSUME NEW a, NEW b, NEW c, NEW d, NEW e
  PROVE  Full(<<a, b, c, d, e>>) = <<"encrypted", "object", a, b, c, d, e>>
  <1> DEFINE S == {"encrypted", "object", a, b, c, d, e}
             s == <<"encrypted", "object">>
             t == <<a, b, c, d, e>>
             u == s \o t
             v == <<"encrypted", "object", a, b, c, d, e>>
  <1>1. s \in Seq(S) /\ t \in Seq(S) /\ Len(s) = 2 /\ Len(t) = 5
    OBVIOUS
  <1>2. u \in Seq(S) /\ Len(u) = 7 /\ \A i \in 1 .. 7 : u[i] = IF i <= 2 THEN s[i] ELSE t[i - 2]
    <2> HIDE DEF s, t, S
    <2>1. /\ s \o t \in Seq(S)
          /\ Len(s \o t) = Len(s) + Len(t)
          /\ \A i \in 1 .. Len(s) + Len(t) :
               (s \o t)[i] = IF i <= Len(s) THEN s[i] ELSE t[i - Len(s)]
      BY <1>1, ConcatProperties
    <2> HIDE DEF u
    <2>2. u \in Seq(S) /\ Len(u) = 2 + 5
      BY <1>1, <2>1 DEF u
    <2>3. \A i \in 1 .. 2 + 5 : u[i] = IF i <= 2 THEN s[i] ELSE t[i - 2]
      BY <1>1, <2>1 DEF u
    <2> QED BY <2>2, <2>3
  <1>3. v \in Seq(S) /\ Len(v) = 7
    OBVIOUS
  <1>4. \A i \in 1 .. 7 : u[i] = v[i]
    <2>1. /\ u[1] = "encrypted" /\ u[2] = "object" /\ u[3] = a /\ u[4] = b
          /\ u[5] = c /\ u[6] = d /\ u[7] = e
      <3> HIDE DEF u
      <3> QED BY <1>2
    <2>2. \A i \in 1 .. 7 : i = 1 \/ i = 2 \/ i = 3 \/ i = 4 \/ i = 5 \/ i = 6 \/ i = 7
      OBVIOUS
    <2> HIDE DEF u
    <2> QED BY <2>1, <2>2
  <1> HIDE DEF u, v, S
  <1>5. u = v
    BY <1>2, <1>3, <1>4
  <1>6. Len(<<a, b, c, d, e>>) = 5
    OBVIOUS
  <1> QED BY <1>5, <1>6 DEF u, v, Full

LEMMA FullSeven ==
  ASSUME NEW a, NEW b, NEW c, NEW d, NEW e, NEW f, NEW g
  PROVE  Full(<<a, b, c, d, e, f, g>>) = <<a, b, c, d, e, f, g>>
  <1>1. Len(<<a, b, c, d, e, f, g>>) = 7
    OBVIOUS
  <1> QED BY <1>1 DEF Full

\* The reads of the forms that have a live preflight.
Shown ==
  { <<"admin.network", "wan_mode", "read">>, <<"admin.wireless", "ieee80211r", "read">>,
    <<"admin.wireless", "operation_mode", "read">>, <<"admin.wireless", "beamforming", "read">>,
    <<"admin.device", "timesetting", "read">>, <<"admin.client", "black_list", "list">>,
    <<"admin.client", "addr_reservation", "getlist">> }

\* The reads the capabilities are routed to, first those that are no secrets.
OpenReads ==
  { <<"admin.device", "device_list", "read">>, <<"admin.network", "internet", "read">>,
    <<"admin.wireless", "ieee80211r", "read">>, <<"admin.wireless", "beamforming", "read">>,
    <<"admin.wireless", "operation_mode", "read">>, <<"admin.wireless", "bridge", "read">>,
    <<"admin.device", "speedtest", "read">>, <<"admin.cloud", "firmware_status", "check">> }

Routed ==
  OpenReads \cup
  { <<"admin.client", "client_list", "read">>, <<"admin.client", "addr_reservation", "getlist">>,
    <<"admin.client", "traffic_stat", "list">>, <<"admin.client", "black_list", "list">>,
    <<"admin.cloud", "ddns", "get">>, <<"admin.wireless", "wlan", "read">>,
    <<"admin.network", "wan_ipv4", "read">> }

LEMMA LiveNames ==
  LivePreflights =
    { <<"admin.network", "wan_mode", "write">>, <<"admin.wireless", "ieee80211r", "write">>,
      <<"admin.wireless", "operation_mode", "write">>,
      <<"admin.wireless", "beamforming", "write">>, <<"admin.device", "timesetting", "write">>,
      <<"admin.client", "black_list", "add">>, <<"admin.client", "black_list", "remove">>,
      <<"admin.client", "addr_reservation", "add">>,
      <<"admin.client", "addr_reservation", "modify">>,
      <<"admin.client", "addr_reservation", "remove">> }
  BY DEF LivePreflights, SettingWrites, Client

\* The last word of an operation's name tells a read from a write, but for the
\* operations of WriteNamedAsRead.
ReadVerbs ==
  { "read", "get", "getlist", "list", "check", "load", "view", "history", "status", "backup",
    "download", "gets", "getc", "list_all", "read_list", "read_keys", "iot_read", "appget",
    "mcu_read", "mcu_check", "check_upgrade", "check_node_status", "firmware_status",
    "sync_check_firmware", "get_sync", "get_vlan", "get_bridge_status", "get_internal",
    "get_device_token", "get_deviceInfo", "getlist_by_mod", "get_init_info",
    "get_avail_node_id", "get_tasklist", "get_history", "getOwnerInList", "getFamilyTimeInfo",
    "getTodayInsightTimeUsagePro", "getInsightData", "scanGet", "ispGet", "service_state_check",
    "service_status_check", "cloud_service_state_check", "get_sec_whitelist" }

FirmwareDownload == <<"admin.cloud", "firmware", "download">>

MultipartBackup == <<"admin.firmware", "config_multipart", "backup">>

WriteNamedAsRead(n) ==
  \/ n[1] \in {"mcu_upgrade", "discover", "admin.op_manager", "admin.sync"}
  \/ n[2] \in {"heartbeat", "eponymous_detect", "get_dev_list", "sync"}
  \/ n = FirmwareDownload

ReadByName(n) == n[3] \in ReadVerbs /\ ~WriteNamedAsRead(n)

\* What the rows have in common, and what they say of the operations that the
\* service names one by one.
EndpointRight(n, auth, kind, safety, sens) ==
  /\ safety \in {"read_only", "mutation", "destructive", "internal"}
  /\ safety = "read_only" <=> ReadByName(n)
  /\ safety = "read_only" /\ kind = "binary" =>
       auth \in {"download", "encrypted"} \/ (auth = "multipart" /\ n = MultipartBackup)
  /\ n \in BinaryReads => safety = "read_only" /\ kind = "binary"
  /\ n = FirmwareDownload => auth = "plain" /\ kind = "object"
  /\ n \in LivePreflights => auth = "encrypted" /\ kind = "object" /\ safety = "mutation"
  /\ n \in Shown \cup Routed => auth = "encrypted" /\ kind # "binary" /\ safety = "read_only"
  /\ n \in OpenReads => sens # "secret"

RowsRight(rows) ==
  \A r \in rows : \A form \in Full(r)[6], op \in Full(r)[7] :
    EndpointRight(<<Full(r)[3], form, op>>, Full(r)[1], Full(r)[2], Full(r)[4], Full(r)[5])

LEMMA LoginRight == RowsRight(LoginEndpoints)
  BY FullFive, FullSeven, LiveNames
     DEF LoginEndpoints, RowsRight, EndpointRight, ReadByName, ReadVerbs,
         WriteNamedAsRead, FirmwareDownload, MultipartBackup, BinaryReads, Shown,
         Routed, OpenReads
LEMMA NetworkRight == RowsRight(NetworkEndpoints)
  BY FullFive, FullSeven, LiveNames
     DEF NetworkEndpoints, RowsRight, EndpointRight, ReadByName, ReadVerbs,
         WriteNamedAsRead, FirmwareDownload, MultipartBackup, BinaryReads, Shown,
         Routed, OpenReads
LEMMA WirelessRight == RowsRight(WirelessEndpoints)
  BY FullFive, FullSeven, LiveNames
     DEF WirelessEndpoints, RowsRight, EndpointRight, ReadByName, ReadVerbs,
         WriteNamedAsRead, FirmwareDownload, MultipartBackup, BinaryReads, Shown,
         Routed, OpenReads
LEMMA DeviceRight == RowsRight(DeviceEndpoints)
  BY FullFive, FullSeven, LiveNames
     DEF DeviceEndpoints, RowsRight, EndpointRight, ReadByName, ReadVerbs,
         WriteNamedAsRead, FirmwareDownload, MultipartBackup, BinaryReads, Shown,
         Routed, OpenReads
LEMMA ClientRight == RowsRight(ClientEndpoints)
  BY FullFive, FullSeven, LiveNames
     DEF ClientEndpoints, RowsRight, EndpointRight, ReadByName, ReadVerbs,
         WriteNamedAsRead, FirmwareDownload, MultipartBackup, BinaryReads, Shown,
         Routed, OpenReads
LEMMA SmartNetworkRight == RowsRight(SmartNetworkEndpoints)
  BY FullFive, FullSeven, LiveNames
     DEF SmartNetworkEndpoints, RowsRight, EndpointRight, ReadByName, ReadVerbs,
         WriteNamedAsRead, FirmwareDownload, MultipartBackup, BinaryReads, Shown,
         Routed, OpenReads
LEMMA CloudRight == RowsRight(CloudEndpoints)
  BY FullFive, FullSeven, LiveNames
     DEF CloudEndpoints, RowsRight, EndpointRight, ReadByName, ReadVerbs,
         WriteNamedAsRead, FirmwareDownload, MultipartBackup, BinaryReads, Shown,
         Routed, OpenReads
LEMMA AccountRight == RowsRight(AccountEndpoints)
  BY FullFive, FullSeven, LiveNames
     DEF AccountEndpoints, RowsRight, EndpointRight, ReadByName, ReadVerbs,
         WriteNamedAsRead, FirmwareDownload, MultipartBackup, BinaryReads, Shown,
         Routed, OpenReads
LEMMA IotRight == RowsRight(IotEndpoints)
  BY FullFive, FullSeven, LiveNames
     DEF IotEndpoints, RowsRight, EndpointRight, ReadByName, ReadVerbs,
         WriteNamedAsRead, FirmwareDownload, MultipartBackup, BinaryReads, Shown,
         Routed, OpenReads
LEMMA ServiceRight == RowsRight(ServiceEndpoints)
  BY FullFive, FullSeven, LiveNames
     DEF ServiceEndpoints, RowsRight, EndpointRight, ReadByName, ReadVerbs,
         WriteNamedAsRead, FirmwareDownload, MultipartBackup, BinaryReads, Shown,
         Routed, OpenReads
LEMMA DiagnosticRight == RowsRight(DiagnosticEndpoints)
  BY FullFive, FullSeven, LiveNames
     DEF DiagnosticEndpoints, RowsRight, EndpointRight, ReadByName, ReadVerbs,
         WriteNamedAsRead, FirmwareDownload, MultipartBackup, BinaryReads, Shown,
         Routed, OpenReads
LEMMA SetupRight == RowsRight(SetupEndpoints)
  BY FullFive, FullSeven, LiveNames
     DEF SetupEndpoints, RowsRight, EndpointRight, ReadByName, ReadVerbs,
         WriteNamedAsRead, FirmwareDownload, MultipartBackup, BinaryReads, Shown,
         Routed, OpenReads
LEMMA SyncRight == RowsRight(SyncEndpoints)
  BY FullFive, FullSeven, LiveNames
     DEF SyncEndpoints, RowsRight, EndpointRight, ReadByName, ReadVerbs,
         WriteNamedAsRead, FirmwareDownload, MultipartBackup, BinaryReads, Shown,
         Routed, OpenReads

LEMMA CatalogRight ==
  ASSUME NEW e \in ENDPOINT_CATALOG
  PROVE  EndpointRight(e.name, e.auth, e.kind, e.safety, e.sens)
  <1>1. PICK row \in Rows :
          \E form \in row[6], op \in row[7] :
            e = [name |-> <<row[3], form, op>>, auth |-> row[1], kind |-> row[2],
                 safety |-> row[4], sens |-> row[5]]
    BY DEF ENDPOINT_CATALOG
  <1>2. PICK r : /\ row = Full(r)
                 /\ r \in LoginEndpoints \cup NetworkEndpoints \cup WirelessEndpoints \cup DeviceEndpoints
                          \cup ClientEndpoints \cup SmartNetworkEndpoints \cup CloudEndpoints
                          \cup AccountEndpoints \cup IotEndpoints \cup ServiceEndpoints
                          \cup DiagnosticEndpoints \cup SetupEndpoints \cup SyncEndpoints
    BY DEF Rows
  <1>3. \E rows : r \in rows /\ RowsRight(rows)
    BY <1>2, LoginRight, NetworkRight, WirelessRight, DeviceRight, ClientRight, SmartNetworkRight,
       CloudRight, AccountRight, IotRight, ServiceRight, DiagnosticRight, SetupRight, SyncRight
  <1>4. PICK form \in row[6], op \in row[7] :
          e = [name |-> <<row[3], form, op>>, auth |-> row[1], kind |-> row[2],
               safety |-> row[4], sens |-> row[5]]
    BY <1>1
  <1>5. EndpointRight(<<row[3], form, op>>, row[1], row[2], row[4], row[5])
    BY <1>2, <1>3, <1>4 DEF RowsRight
  <1>6. /\ e.name = <<row[3], form, op>> /\ e.auth = row[1] /\ e.kind = row[2]
        /\ e.safety = row[4] /\ e.sens = row[5]
    BY <1>4
  <1> QED BY <1>5, <1>6

LEMMA Catalogued ==
  ASSUME NEW n \in EndpointNames
  PROVE  LET endpoint == get_endpoint[n]
         IN  /\ endpoint \in ENDPOINT_CATALOG
             /\ endpoint.name = n
             /\ EndpointRight(n, endpoint.auth, endpoint.kind, endpoint.safety, endpoint.sens)
  <1>1. \E e \in ENDPOINT_CATALOG : e.name = n
    BY DEF EndpointNames
  <1>2. get_endpoint[n] = CHOOSE e \in ENDPOINT_CATALOG : e.name = n
    BY DEF get_endpoint
  <1>3. get_endpoint[n] \in ENDPOINT_CATALOG /\ get_endpoint[n].name = n
    BY <1>1, <1>2
  <1> QED BY <1>3, CatalogRight

\* A row of a group offers an operation.
Offers(rows, n) == \E r \in rows : Full(r)[3] = n[1] /\ n[2] \in Full(r)[6] /\ n[3] \in Full(r)[7]

LEMMA NamedOffered ==
  ASSUME NEW n \in LivePreflights \cup Shown \cup Routed
  PROVE  \/ Offers(NetworkEndpoints, n) \/ Offers(WirelessEndpoints, n) \/ Offers(CloudEndpoints, n)
         \/ Offers(DeviceEndpoints, n) \/ Offers(ClientEndpoints, n)
  <1>1. CASE n[1] = "admin.network"
    <2>1. \/ n \in {"admin.network"} \X {"wan_mode"} \X {"read", "write"}
          \/ n \in {"admin.network"} \X {"internet", "wan_ipv4"} \X {"read"}
      BY <1>1, LiveNames DEF Shown, Routed, OpenReads
    <2> QED BY <2>1, FullFive DEF Offers, NetworkEndpoints
  <1>2. CASE n[1] = "admin.wireless"
    <2>1. \/ n \in {"admin.wireless"} \X {"operation_mode", "ieee80211r", "beamforming"} \X {"read", "write"}
          \/ n \in {"admin.wireless"} \X {"bridge", "wlan"} \X {"read"}
      BY <1>2, LiveNames DEF Shown, Routed, OpenReads
    <2> QED BY <2>1, FullFive DEF Offers, WirelessEndpoints
  <1>3. CASE n[1] = "admin.device"
    <2>1. \/ n \in {"admin.device"} \X {"timesetting"} \X {"read", "write"}
          \/ n \in {"admin.device"} \X {"device_list", "speedtest"} \X {"read"}
      BY <1>3, LiveNames DEF Shown, Routed, OpenReads
    <2> QED BY <2>1, FullFive DEF Offers, DeviceEndpoints
  <1>4. CASE n[1] = "admin.client"
    <2>1. \/ n \in {"admin.client"} \X {"black_list"} \X {"list", "add", "remove"}
          \/ n \in {"admin.client"} \X {"addr_reservation"} \X {"getlist", "add", "modify", "remove"}
          \/ n = <<"admin.client", "client_list", "read">>
          \/ n = <<"admin.client", "traffic_stat", "list">>
      BY <1>4, LiveNames DEF Shown, Routed, OpenReads
    <2> QED BY <2>1, FullFive DEF Offers, ClientEndpoints
  <1>5. CASE n[1] = "admin.cloud"
    <2>1. n = <<"admin.cloud", "firmware_status", "check">> \/ n = <<"admin.cloud", "ddns", "get">>
      BY <1>5, LiveNames DEF Shown, Routed, OpenReads
    <2> QED BY <2>1, FullFive DEF Offers, CloudEndpoints
  <1> QED BY <1>1, <1>2, <1>3, <1>4, <1>5, LiveNames DEF Shown, Routed, OpenReads

LEMMA NamedCatalogued ==
  ASSUME NEW n \in LivePreflights \cup Shown \cup Routed
  PROVE  /\ n \in EndpointNames
         /\ get_endpoint[n] \in ENDPOINT_CATALOG
         /\ get_endpoint[n].name = n
  <1>1. n = <<n[1], n[2], n[3]>>
    BY LiveNames DEF Shown, Routed, OpenReads
  <1>2. PICK rows : /\ Offers(rows, n)
                    /\ rows \in {NetworkEndpoints, WirelessEndpoints, DeviceEndpoints,
                                ClientEndpoints, CloudEndpoints}
    BY NamedOffered
  <1>3. PICK r \in rows : Full(r)[3] = n[1] /\ n[2] \in Full(r)[6] /\ n[3] \in Full(r)[7]
    BY <1>2 DEF Offers
  <1>4. Full(r) \in Rows
    BY <1>2, <1>3 DEF Rows
  <1> DEFINE row == Full(r)
             e == [name |-> <<row[3], n[2], n[3]>>, auth |-> row[1], kind |-> row[2],
                   safety |-> row[4], sens |-> row[5]]
  <1>5. e \in ENDPOINT_CATALOG
    <2>1. row \in Rows /\ n[2] \in row[6] /\ n[3] \in row[7]
      BY <1>3, <1>4
    <2> HIDE DEF row
    <2> QED BY <2>1 DEF ENDPOINT_CATALOG
  <1>6. e.name = n
    BY <1>1, <1>3
  <1> HIDE DEF e
  <1>7. n \in EndpointNames
    BY <1>5, <1>6 DEF EndpointNames
  <1> QED BY <1>7, Catalogued

LEMMA LiveEndpoint ==
  ASSUME NEW n \in LivePreflights
  PROVE  /\ get_endpoint[n] \in MUTATION_ENDPOINTS
         /\ generic_call_supported(get_endpoint[n])
  BY NamedCatalogued, CatalogRight DEF EndpointRight, MUTATION_ENDPOINTS, generic_call_supported

-----------------------------------------------------------------------------
(* The parameters of the live operations.                                  *)

LiveRequired ==
  { <<<<"admin.network", "wan_mode", "write">>, {"mode"}>>,
    <<<<"admin.wireless", "ieee80211r", "write">>, {"enable"}>>,
    <<<<"admin.wireless", "beamforming", "write">>, {"enable"}>>,
    <<<<"admin.wireless", "operation_mode", "write">>, {"mode"}>>,
    <<<<"admin.device", "timesetting", "write">>, {"timezone", "continent", "tz_region"}>>,
    <<<<"admin.client", "black_list", "add">>, {"mac"}>>,
    <<<<"admin.client", "black_list", "remove">>, {"mac"}>>,
    <<<<"admin.client", "addr_reservation", "add">>, {"mac", "ip"}>>,
    <<<<"admin.client", "addr_reservation", "modify">>, {"mac", "ip"}>>,
    <<<<"admin.client", "addr_reservation", "remove">>, {"mac"}>> }

LEMMA ParamsOfRow ==
  ASSUME NEW table, NEW n, NEW row \in table, row[1] = n,
         \A other \in table : other[1] = n => other = row
  PROVE  ParamsIn(table, n) = row[2]
  BY DEF ParamsIn

LEMMA LiveRequiredRows ==
  /\ LiveRequired \subseteq RequiredParams
  /\ \A row \in RequiredParams : row[1] \in LivePreflights => row \in LiveRequired
  /\ \A row \in RequiredParams : row[1] \notin Shown \cup Routed
  <1>1. LiveRequired \subseteq RequiredParams
    BY DEF LiveRequired, RequiredParams
  <1>2. \A row \in RequiredParams : row[1] \in LivePreflights => row \in LiveRequired
    BY LiveNames DEF LiveRequired, RequiredParams
  <1>3. \A row \in RequiredParams : row[1] \notin Shown \cup Routed
    BY DEF RequiredParams, Shown, Routed, OpenReads
  <1> QED BY <1>1, <1>2, <1>3

LEMMA RequiredOf ==
  ASSUME NEW row \in LiveRequired
  PROVE  row[1] \in LivePreflights /\ required_params[row[1]] = row[2]
  <1>1. row[1] \in LivePreflights
    BY LiveNames DEF LiveRequired
  <1>2. \A other \in LiveRequired : other[1] = row[1] => other = row
    BY DEF LiveRequired
  <1>3. ParamsIn(RequiredParams, row[1]) = row[2]
    BY <1>1, <1>2, LiveRequiredRows, ParamsOfRow
  <1>4. row[1] \in EndpointNames
    BY <1>1, NamedCatalogued
  <1> QED BY <1>1, <1>3, <1>4 DEF required_params

LEMMA SettingRequired ==
  ASSUME NEW n \in SettingWrites
  PROVE  required_params[n] = SettingKeys(n)
  <1>1. <<n, SettingKeys(n)>> \in LiveRequired
    BY DEF SettingWrites, SettingKeys, LiveRequired
  <1> QED BY <1>1, RequiredOf

LEMMA ClientRequired ==
  /\ \A op \in {"add", "remove"} : required_params[Client("black_list", op)] \subseteq {"mac"}
  /\ \A op \in {"add", "modify", "remove"} :
       required_params[Client("addr_reservation", op)] \subseteq {"mac", "ip"}
  <1>1. ASSUME NEW op \in {"add", "remove"}
        PROVE  required_params[Client("black_list", op)] \subseteq {"mac"}
    <2>1. <<Client("black_list", op), {"mac"}>> \in LiveRequired
      BY DEF LiveRequired, Client
    <2> QED BY <2>1, RequiredOf
  <1>2. ASSUME NEW op \in {"add", "modify", "remove"}
        PROVE  required_params[Client("addr_reservation", op)] \subseteq {"mac", "ip"}
    <2>1. \/ <<Client("addr_reservation", op), {"mac", "ip"}>> \in LiveRequired
          \/ <<Client("addr_reservation", op), {"mac"}>> \in LiveRequired
      BY DEF LiveRequired, Client
    <2> QED BY <2>1, RequiredOf
  <1> QED BY <1>1, <1>2

LEMMA ShownTakesNothing ==
  ASSUME NEW read \in Shown \cup Routed
  PROVE  missing_params(read, {}) = {}
  <1>1. read \in EndpointNames
    BY NamedCatalogued
  <1>2. ParamsIn(RequiredParams, read) = {}
    BY LiveRequiredRows DEF ParamsIn
  <1> QED BY <1>1, <1>2 DEF missing_params, required_params

-----------------------------------------------------------------------------
(* What undoes a live operation.                                           *)

\* The operation of the same form that undoes n.
Undoing(n) ==
  <<n[1], n[2], IF n[3] = "add" THEN "remove" ELSE IF n[3] = "remove" THEN "add" ELSE n[3]>>

LEMMA UndoingIsRollback ==
  ASSUME NEW n \in LivePreflights
  PROVE  RollbackOperation(n) = {Undoing(n)}
  <1>1. \A pair : pair \in ReversedBy <=>
          \/ \E m \in SettingWrites \cup {Client("addr_reservation", "modify")} : pair = <<m, m>>
          \/ pair \in { <<Client("black_list", "add"), Client("black_list", "remove")>>,
                        <<Client("black_list", "remove"), Client("black_list", "add")>>,
                        <<Client("addr_reservation", "add"), Client("addr_reservation", "remove")>>,
                        <<Client("addr_reservation", "remove"), Client("addr_reservation", "add")>> }
    BY DEF ReversedBy
  <1>2. <<n, Undoing(n)>> \in ReversedBy
    <2>1. CASE n \in SettingWrites \cup {Client("addr_reservation", "modify")}
      <3>1. Undoing(n) = n
        BY <2>1 DEF SettingWrites, Client, Undoing
      <3> QED BY <1>1, <2>1, <3>1
    <2>2. CASE n \notin SettingWrites \cup {Client("addr_reservation", "modify")}
      <3>1. n \in { Client("black_list", "add"), Client("black_list", "remove"),
                    Client("addr_reservation", "add"), Client("addr_reservation", "remove") }
        BY <2>2 DEF LivePreflights
      <3> QED BY <1>1, <3>1 DEF Client, Undoing
    <2> QED BY <2>1, <2>2
  <1>3. ASSUME NEW pair \in ReversedBy, pair[1] = n
        PROVE  pair[2] = Undoing(n)
    BY <1>1, <1>3 DEF SettingWrites, Client, Undoing
  <1>4. \A undo : undo \in RollbackOperation(n) <=> \E pair \in ReversedBy : pair[1] = n /\ pair[2] = undo
    BY DEF RollbackOperation
  <1> QED BY <1>2, <1>3, <1>4

LEMMA UndoingLive ==
  ASSUME NEW n \in LivePreflights
  PROVE  /\ Undoing(n) \in LivePreflights
         /\ Undoing(Undoing(n)) = n
         /\ PreflightRead(Undoing(n)) = PreflightRead(n)
         /\ PreflightRead(n) \subseteq Shown
  <1>1. Undoing(n) \in LivePreflights /\ Undoing(Undoing(n)) = n
    BY LiveNames DEF Undoing
  <1>2. PreflightRead(Undoing(n)) = PreflightRead(n)
    BY DEF PreflightRead, Undoing
  <1>3. PreflightRead(n) \subseteq Shown
    BY LiveNames DEF PreflightRead, FormReads, Reads, Client, Shown
  <1> QED BY <1>1, <1>2, <1>3

\* The rollback of a live operation can be sent with what its preflight keeps.
LEMMA UndoAccepted ==
  ASSUME NEW n \in LivePreflights, NEW keys, required_params[Undoing(n)] \subseteq keys
  PROVE  UndoIsAccepted(n, keys)
  <1>1. /\ get_endpoint[Undoing(n)] \in MUTATION_ENDPOINTS
        /\ generic_call_supported(get_endpoint[Undoing(n)])
    BY UndoingLive, LiveEndpoint
  <1>2. RollbackOperation(Undoing(n)) = {n}
    BY UndoingLive, UndoingIsRollback
  <1>3. ASSUME NEW read \in PreflightRead(n)
        PROVE  ReadDoor([sensitive |-> TRUE, bulk |-> FALSE, binary |-> FALSE], read, {})
    <2>1. read \in Shown
      BY UndoingLive
    <2>2. /\ get_endpoint[read] \in ENDPOINT_CATALOG
          /\ get_endpoint[read].name = read
      BY <2>1, NamedCatalogued
    <2>3. get_endpoint[read].safety = "read_only" /\ JsonCallSupported(get_endpoint[read])
      BY <2>1, <2>2, CatalogRight DEF EndpointRight, JsonCallSupported, generic_call_supported
    <2> QED BY <2>1, <2>3, ShownTakesNothing DEF ReadDoor
  <1>4. PreflightRead(Undoing(n)) = PreflightRead(n)
    BY UndoingLive
  <1> QED BY <1>1, <1>2, <1>3, <1>4, UndoingIsRollback DEF UndoIsAccepted

-----------------------------------------------------------------------------
(* The tables.                                                             *)

LEMMA TableFacts ==
  ASSUME NEW table \in Tables
  PROVE  /\ table = [rows |-> table.rows, max |-> table.max]
         /\ table.rows \subseteq [mac : Macs, ip : Ips]
         /\ Unique(table.rows)
         /\ IsFiniteSet(table.rows)
         /\ Cardinality(table.rows) \in Nat
         /\ table.max \in Nat
         /\ table.max = 0 \/ Cardinality(table.rows) <= table.max
  <1>1. /\ table = [rows |-> table.rows, max |-> table.max]
        /\ table.rows \subseteq [mac : Macs, ip : Ips]
        /\ Unique(table.rows)
        /\ table.max \in Nat
        /\ table.max = 0 \/ Cardinality(table.rows) <= table.max
    BY TableAssumption DEF Tables
  <1> DEFINE f == [row \in table.rows |-> row.mac]
  <1>2. f \in [table.rows -> Macs] /\ \A a, b \in table.rows : f[a] = f[b] => a = b
    BY <1>1 DEF Unique
  <1>3. IsFiniteSet(table.rows)
    <2> HIDE DEF f
    <2>1. f \in Injection(table.rows, Macs)
      BY <1>2 DEF Injection, IsInjective
    <2> QED BY <2>1, TableAssumption, FS_Injection
  <1> QED BY <1>1, <1>3, FS_CardinalityType

\* Adding a row, and taking it out.
LEMMA AddThenRemove ==
  ASSUME NEW table \in Tables, NEW row, ~is_full(table),
         \A r \in table.rows : r.mac # row.mac /\ r.ip # row.ip
  PROVE  LET after == Reserved("add", row, table)
         IN  /\ after = [rows |-> table.rows \cup {row}, max |-> table.max]
             /\ row \notin table.rows
             /\ Reserved("remove", row, after) = table
  <1> DEFINE rows == table.rows
             after == [rows |-> rows \cup {row}, max |-> table.max]
  <1>1. /\ table = [rows |-> rows, max |-> table.max]
        /\ Cardinality(rows) \in Nat /\ table.max \in Nat
    BY TableFacts
  <1>2. {r \in rows : r.mac # row.mac} = rows /\ row \notin rows
    OBVIOUS
  <1>3. ~(table.max > 0 /\ Cardinality(rows) = table.max)
    BY <1>1 DEF is_full
  <1>4. ~\E r \in rows : r.ip = row.ip
    OBVIOUS
  <1>5. Reserved("add", row, table) = [table EXCEPT !.rows = rows \cup {row}]
    BY <1>2, <1>3, <1>4 DEF Reserved
  <1>6. Reserved("add", row, table) = after
    BY <1>1, <1>5
  <1>7. {r \in after.rows : r.mac # row.mac} = rows
    BY <1>2
  <1>8. Reserved("remove", row, after) = [after EXCEPT !.rows = rows]
    BY <1>7 DEF Reserved
  <1>9. [after EXCEPT !.rows = rows] = table
    BY <1>1
  <1> QED BY <1>2, <1>6, <1>8, <1>9

\* Taking a row out, and adding it again.
LEMMA RemoveThenAdd ==
  ASSUME NEW table \in Tables, NEW old \in table.rows, NEW row, row.mac = old.mac
  PROVE  LET after == Reserved("remove", row, table)
         IN  /\ after = [rows |-> table.rows \ {old}, max |-> table.max]
             /\ Reserved("add", old, after) = table
  <1> DEFINE rows == table.rows
             others == rows \ {old}
             after == [rows |-> others, max |-> table.max]
  <1>1. /\ table = [rows |-> rows, max |-> table.max]
        /\ IsFiniteSet(rows) /\ Cardinality(rows) \in Nat /\ table.max \in Nat
        /\ table.max = 0 \/ Cardinality(rows) <= table.max
        /\ \A r \in others : r.mac # old.mac /\ r.ip # old.ip
    BY TableFacts DEF Unique
  <1>2. {r \in rows : r.mac # row.mac} = others
    BY <1>1
  <1>3. Reserved("remove", row, table) = [table EXCEPT !.rows = others]
    BY <1>2 DEF Reserved
  <1>4. Reserved("remove", row, table) = after
    BY <1>1, <1>3
  <1>5. ~(table.max > 0 /\ Cardinality(others) = table.max)
    <2>1. Cardinality(others) = Cardinality(rows) - 1
      BY <1>1, FS_RemoveElement
    <2> QED BY <1>1, <2>1
  <1>6. {r \in after.rows : r.mac # old.mac} = others
    BY <1>1
  <1>7. ~\E r \in others : r.ip = old.ip
    BY <1>1
  <1>8. Reserved("add", old, after) = [after EXCEPT !.rows = others \cup {old}]
    BY <1>5, <1>6, <1>7 DEF Reserved
  <1>9. [after EXCEPT !.rows = others \cup {old}] = table
    <2>1. others \cup {old} = rows
      OBVIOUS
    <2> QED BY <1>1, <2>1
  <1> QED BY <1>4, <1>8, <1>9

\* Changing a row, and changing it back.
LEMMA ModifyTwice ==
  ASSUME NEW table \in Tables, NEW old \in table.rows, NEW row, row.mac = old.mac,
         \A r \in table.rows : r.ip = row.ip => r = old
  PROVE  LET after == Reserved("modify", row, table)
         IN  /\ after = [rows |-> (table.rows \ {old}) \cup {row}, max |-> table.max]
             /\ Reserved("modify", old, after) = table
  <1> DEFINE rows == table.rows
             others == rows \ {old}
             after == [rows |-> others \cup {row}, max |-> table.max]
  <1>1. /\ table = [rows |-> rows, max |-> table.max]
        /\ \A r \in others : r.mac # old.mac /\ r.ip # old.ip
    BY TableFacts DEF Unique
  <1>2. {r \in rows : r.mac # row.mac} = others /\ others # rows
    BY <1>1
  <1>3. ~\E r \in others : r.ip = row.ip
    OBVIOUS
  <1>4. Reserved("modify", row, table) = [table EXCEPT !.rows = others \cup {row}]
    BY <1>2, <1>3 DEF Reserved
  <1>5. Reserved("modify", row, table) = after
    BY <1>1, <1>4
  <1>6. {r \in after.rows : r.mac # old.mac} = others /\ others # after.rows
    BY <1>1
  <1>7. ~\E r \in others : r.ip = old.ip
    BY <1>1
  <1>8. Reserved("modify", old, after) = [after EXCEPT !.rows = others \cup {old}]
    BY <1>6, <1>7 DEF Reserved
  <1>9. [after EXCEPT !.rows = others \cup {old}] = table
    <2>1. others \cup {old} = rows
      OBVIOUS
    <2> QED BY <1>1, <2>1
  <1> QED BY <1>5, <1>8, <1>9

-----------------------------------------------------------------------------
(* The three kinds of write.                                               *)

\* What undoes a live operation is named by CHOOSE.
LEMMA UndoChosen ==
  ASSUME NEW n \in LivePreflights
  PROVE  (CHOOSE name \in RollbackOperation(n) : TRUE) = Undoing(n)
  BY UndoingIsRollback

LEMMA Reservations ==
  ASSUME NEW op \in {"add", "modify", "remove"}, NEW params \in ReservationParams,
         NEW table \in Tables, NEW answer
  PROVE  ReservationReversible(op, params, table, answer)
  <1> DEFINE n == Client("addr_reservation", op)
             target == normalize_mac(params.mac)
             row == [mac |-> target, ip |-> params.ip]
             preflight == ReservationPreflight(op, params, answer)
             after == Reserved(op, row, table)
             undo == CHOOSE name \in RollbackOperation(n) : TRUE
             kept == IF op = "add" THEN {row} ELSE preflight.undo
             match == {r \in answer.rows : r.mac = target}
  <1>1. n \in LivePreflights
    BY LiveNames DEF Client
  <1>2. UndoIsAccepted(n, {"mac", "ip"})
    <2>1. required_params[Undoing(n)] \subseteq {"mac", "ip"}
      BY ClientRequired DEF Client, Undoing
    <2> QED BY <1>1, <2>1, UndoAccepted
  <1>3. undo[3] = IF op = "add" THEN "remove" ELSE IF op = "remove" THEN "add" ELSE op
    <2>1. n[3] = op
      BY DEF Client
    <2> HIDE DEF n
    <2>2. undo = Undoing(n)
      BY <1>1, UndoChosen
    <2> HIDE DEF undo
    <2> QED BY <2>1, <2>2 DEF Undoing
  <1>4. /\ table = [rows |-> table.rows, max |-> table.max]
        /\ \A r, s \in table.rows : r = s \/ (r.mac # s.mac /\ r.ip # s.ip)
        /\ \A r \in table.rows : r = [mac |-> r.mac, ip |-> r.ip]
    BY TableFacts DEF Unique
  <1>5. row.mac = target /\ row.ip = params.ip
    OBVIOUS
  <1> SUFFICES ASSUME preflight.passed, SawEnough(op, params, table, answer)
               PROVE  /\ IF op = "remove" THEN \A r \in after.rows : r.mac # row.mac ELSE row \in after.rows
                      /\ preflight.no_op <=> after = table
                      /\ Cardinality(kept) = 1 /\ \A old \in kept : Reserved(undo[3], old, after) = table
    BY <1>2 DEF ReservationReversible
  <1>6. CASE op = "add"
    <2>1. ~is_full(table) /\ \A r \in table.rows : r.mac # row.mac /\ r.ip # row.ip
      <3>1. answer = table
        BY <1>6 DEF SawEnough
      <3> QED BY <1>5, <1>6, <3>1 DEF ReservationPreflight
    <2>2. preflight.no_op = FALSE /\ kept = {row}
      BY <1>6 DEF ReservationPreflight
    <2> HIDE DEF row, kept, preflight
    <2>3. /\ after = [rows |-> table.rows \cup {row}, max |-> table.max]
          /\ row \notin table.rows
          /\ Reserved("remove", row, after) = table
      BY <1>6, <2>1, AddThenRemove
    <2>4. Cardinality(kept) = 1
      BY <2>2, FS_Singleton
    <2> HIDE DEF after, undo
    <2> QED BY <1>3, <1>4, <1>6, <2>2, <2>3, <2>4
  <1>7. CASE op = "remove"
    <2>1. answer.rows \subseteq table.rows /\ OldMac(params) = target
      BY <1>7 DEF SawEnough
    <2>2. match # {} /\ preflight.no_op = FALSE /\ kept = match
      BY <1>7, <2>1 DEF ReservationPreflight
    <2>3. PICK old \in table.rows : old.mac = target
      BY <2>1, <2>2
    <2>4. kept = {old}
      BY <1>4, <2>1, <2>2, <2>3
    <2> HIDE DEF row, kept, preflight
    <2>5. /\ after = [rows |-> table.rows \ {old}, max |-> table.max]
          /\ Reserved("add", old, after) = table
      BY <1>5, <1>7, <2>3, RemoveThenAdd
    <2>6. Cardinality(kept) = 1
      BY <2>4, FS_Singleton
    <2> HIDE DEF after, undo
    <2> QED BY <1>3, <1>4, <1>5, <1>7, <2>2, <2>3, <2>4, <2>5, <2>6
  <1>8. CASE op = "modify"
    <2> DEFINE by == OldMac(params)
               found == {r \in table.rows : r.mac = by}
    <2>1. /\ by = target /\ found # {}
          /\ \A r \in {s \in table.rows : s.ip = params.ip} : r.mac = by
          /\ preflight.no_op = (found = {row})
          /\ kept = found
      <3>1. answer.rows = table.rows
        BY <1>8 DEF SawEnough
      <3> QED BY <1>8, <3>1 DEF ReservationPreflight
    <2> HIDE DEF row, kept, preflight, by
    <2>2. PICK old \in table.rows : old.mac = target
      BY <2>1
    <2>3. kept = {old} /\ found = {old}
      BY <1>4, <2>1, <2>2
    <2>4. \A r \in table.rows : r.ip = row.ip => r = old
      BY <1>4, <1>5, <2>1, <2>2
    <2>5. /\ after = [rows |-> (table.rows \ {old}) \cup {row}, max |-> table.max]
          /\ Reserved("modify", old, after) = table
      BY <1>5, <1>8, <2>2, <2>4, ModifyTwice
    <2>6. Cardinality(kept) = 1
      BY <2>3, FS_Singleton
    <2>7. preflight.no_op <=> row = old
      BY <2>1, <2>3
    <2>8. after = table <=> row = old
      <3>1. CASE row = old
        BY <1>4, <2>5, <3>1
      <3>2. CASE row # old
        <4>1. row \notin table.rows
          BY <1>4, <1>5, <2>2, <3>2
        <4> QED BY <1>4, <2>5, <3>2, <4>1
      <3> QED BY <3>1, <3>2
    <2> HIDE DEF after, undo
    <2> QED BY <1>3, <1>8, <2>3, <2>5, <2>6, <2>7, <2>8
  <1> QED BY <1>6, <1>7, <1>8

\* Adding an entry and taking it out, or the other way round: the names of the
\* other entries, and the spellings of their addresses, stay as they are.
LEMMA Blacklistings ==
  ASSUME NEW op \in {"add", "remove"}, NEW entries \in Blacklists,
         NEW params \in [mac : Spelled, name : Values \cup {None}], NEW answer
  PROVE  BlacklistReversible(op, params, entries, answer)
  <1> DEFINE n == Client("black_list", op)
             target == normalize_mac(params.mac)
             preflight == BlacklistPreflight(op, params, answer)
             after == Blacklisted(op, params, entries)
             undo == CHOOSE name \in RollbackOperation(n) : TRUE
             Written(e) == [mac |-> normalize_mac(e.mac), name |-> e.name]
             Kept == { IF op = "add" THEN [mac |-> <<u.mac, "colons">>, name |-> None]
                       ELSE [mac |-> <<u.mac, "colons">>, name |-> u.name] : u \in preflight.undo }
             match == {e \in answer : normalize_mac(e.mac) = target}
             others == {e \in entries : normalize_mac(e.mac) # target}
  <1>1. n \in LivePreflights
    BY LiveNames DEF Client
  <1>2. UndoIsAccepted(n, {"mac"})
    <2>1. required_params[Undoing(n)] \subseteq {"mac"}
      BY ClientRequired DEF Client, Undoing
    <2> QED BY <1>1, <2>1, UndoAccepted
  <1>3. undo[3] = IF op = "add" THEN "remove" ELSE "add"
    <2>1. n[3] = op
      BY DEF Client
    <2> HIDE DEF n
    <2>2. undo = Undoing(n)
      BY <1>1, UndoChosen
    <2> HIDE DEF undo
    <2> QED BY <2>1, <2>2 DEF Undoing
  <1>4. \A d, e \in entries : d = e \/ normalize_mac(d.mac) # normalize_mac(e.mac)
    BY DEF Blacklists
  <1> SUFFICES ASSUME preflight.passed, answer \subseteq entries, op = "add" => answer = entries
               PROVE  /\ {Written(e) : e \in after} # {Written(e) : e \in entries}
                      /\ Cardinality(Kept) = 1
                      /\ \A old \in Kept : {Written(e) : e \in Blacklisted(undo[3], old, after)}
                                               = {Written(e) : e \in entries}
    BY <1>2 DEF BlacklistReversible
  <1>6. CASE op = "add"
    <2> DEFINE old == [mac |-> <<target, "colons">>, name |-> None]
    <2>1. match = {} /\ preflight.undo = {[mac |-> target]}
      BY <1>6 DEF BlacklistPreflight
    <2>2. others = entries
      BY <1>6, <2>1
    <2>3. after = entries \cup {params}
      BY <1>6, <2>2 DEF Blacklisted
    <2>4. Kept = {old}
      <3>1. Kept = {[mac |-> <<u.mac, "colons">>, name |-> None] : u \in preflight.undo}
        BY <1>6
      <3> HIDE DEF Kept, preflight
      <3> QED BY <2>1, <3>1
    <2>5. Cardinality(Kept) = 1
      BY <2>4, FS_Singleton
    <2>6. normalize_mac(old.mac) = target
      BY DEF normalize_mac
    <2> HIDE DEF old, Kept, preflight
    <2>7. Blacklisted("remove", old, after) = entries
      <3>1. {e \in after : normalize_mac(e.mac) # target} = entries
        BY <2>2, <2>3
      <3> QED BY <2>6, <3>1 DEF Blacklisted
    <2>8. Written(params) \in {Written(e) : e \in after} /\ Written(params) \notin {Written(e) : e \in entries}
      <3>1. \A e \in entries : Written(e).mac # Written(params).mac
        BY <2>2
      <3>2. params \in after
        BY <2>3
      <3> HIDE DEF Written, after
      <3> QED BY <3>1, <3>2
    <2> HIDE DEF after, Written
    <2> QED BY <1>3, <1>6, <2>4, <2>5, <2>7, <2>8
  <1>7. CASE op = "remove"
    <2>1. match # {} /\ preflight.undo = {[mac |-> target, name |-> e.name] : e \in match}
      BY <1>7 DEF BlacklistPreflight
    <2>2. PICK entry \in answer : normalize_mac(entry.mac) = target
      BY <2>1
    <2>3. match = {entry} /\ others = entries \ {entry}
      BY <1>4, <2>2
    <2> DEFINE old == [mac |-> <<target, "colons">>, name |-> entry.name]
    <2>4. preflight.undo = {[mac |-> target, name |-> entry.name]}
      BY <2>1, <2>3
    <2>5. Kept = {old}
      <3>1. Kept = {[mac |-> <<u.mac, "colons">>, name |-> u.name] : u \in preflight.undo}
        BY <1>7
      <3> HIDE DEF Kept, preflight
      <3> QED BY <2>4, <3>1
    <2>6. Cardinality(Kept) = 1
      BY <2>5, FS_Singleton
    <2>7. after = entries \ {entry}
      BY <1>7, <2>3 DEF Blacklisted
    <2>8. normalize_mac(old.mac) = target /\ Written(old) = Written(entry)
      BY <2>2 DEF normalize_mac
    <2> HIDE DEF old, Kept, preflight
    <2>9. Blacklisted("add", old, after) = (entries \ {entry}) \cup {old}
      <3>1. {e \in after : normalize_mac(e.mac) # target} = entries \ {entry}
        BY <2>3, <2>7
      <3> QED BY <2>8, <3>1 DEF Blacklisted
    <2>10. /\ Written(entry) \in {Written(e) : e \in entries}
           /\ Written(entry) \notin {Written(e) : e \in after}
      <3>1. \A e \in after : normalize_mac(e.mac) # normalize_mac(entry.mac)
        BY <1>4, <2>7
      <3> QED BY <3>1
    <2> HIDE DEF after, Written
    <2>11. {Written(e) : e \in (entries \ {entry}) \cup {old}} = {Written(e) : e \in entries}
      BY <2>8
    <2> QED BY <1>3, <1>7, <2>5, <2>6, <2>9, <2>10, <2>11
  <1> QED BY <1>6, <1>7

\* A setting: the parameters cover the keys the operation takes, so that what was
\* read overwrites all that was written.
LEMMA Settings ==
  ASSUME NEW n \in SettingWrites, NEW params \in [SettingKeys(n) -> Values],
         NEW state \in [SettingKeys(n) -> Values \cup {None}]
  PROVE  SettingReversible(n, params, state)
  <1> DEFINE preflight == SettingPreflight(n, params, state)
  <1>1. n \in LivePreflights /\ Undoing(n) = n
    BY DEF LivePreflights, SettingWrites, Undoing
  <1>2. required_params[n] = SettingKeys(n)
    BY SettingRequired
  <1>3. UndoIsAccepted(n, SettingKeys(n))
    BY <1>1, <1>2, UndoAccepted
  <1>4. preflight.undo = state /\ preflight.no_op = (state = params)
    BY DEF SettingPreflight
  <1>5. Over(params, state) = params
    BY DEF Over
  <1>6. Over(state, params) = state
    BY DEF Over
  <1>7. DOMAIN state = SettingKeys(n)
    OBVIOUS
  <1> HIDE DEF preflight
  <1> QED BY <1>2, <1>3, <1>4, <1>5, <1>6, <1>7 DEF SettingReversible, preflight

-----------------------------------------------------------------------------
(* The doors.                                                              *)

\* What a call without a parameter lacks is what the operation requires, and the
\* parameters it requires are all a call needs.
LEMMA NothingMissing ==
  ASSUME NEW n
  PROVE  missing_params(n, required_params[n]) = {}
  BY DEF missing_params

\* A JSON door takes what the plan calls supported, whatever was observed of it.
LEMMA TransportTold ==
  ASSUME NEW n \in EndpointNames
  PROVE  generic_call_supported(get_endpoint[n])
           <=> TransportSupported(get_endpoint[n], TransportOverride(n))
  <1> DEFINE e == get_endpoint[n]
  <1>1. n = FirmwareDownload => e.auth = "plain" /\ e.kind = "object"
    BY Catalogued DEF EndpointRight
  <1>2. CASE n = FirmwareDownload
    BY <1>1, <1>2
       DEF generic_call_supported, TransportSupported, TransportOverride, FirmwareDownload
  <1>3. CASE n # FirmwareDownload
    BY <1>3 DEF generic_call_supported, TransportSupported, TransportOverride, FirmwareDownload
  <1> QED BY <1>2, <1>3

LEMMA WritesByName ==
  ASSUME NEW endpoint \in MUTATION_ENDPOINTS
  PROVE  /\ endpoint.name \in EndpointNames
         /\ get_endpoint[endpoint.name].safety \in {"mutation", "destructive", "internal"}
  <1>1. endpoint \in ENDPOINT_CATALOG /\ endpoint.safety # "read_only"
    BY DEF MUTATION_ENDPOINTS
  <1>2. endpoint.name \in EndpointNames /\ ~ReadByName(endpoint.name)
    BY <1>1, CatalogRight DEF EndpointNames, EndpointRight
  <1> QED BY <1>2, Catalogued DEF EndpointRight

\* The plan and the executor.
LEMMA PlansAndExecutor ==
  ASSUME NEW endpoint \in MUTATION_ENDPOINTS, NEW scope \in Scopes, NEW gates \in WriteGates
  PROVE  PlanAgreesWithExecutor(endpoint.name, scope, gates)
  <1> DEFINE n == endpoint.name
             e == get_endpoint[n]
             Goes(m, given, digest) == WriteDoor(gates, m, given, scope, m, digest)
             Plan(given) == build_mutation_plan(n, given, scope, gates)
             Ready(given) ==
               LET plan == Plan(given)
               IN  /\ plan.parameters_valid /\ plan.transport_supported
                   /\ plan.gate_enabled /\ plan.scope = "general"
  <1>1. n \in EndpointNames /\ e.safety \in {"mutation", "destructive", "internal"}
    BY WritesByName
  <1>2. generic_call_supported(e) <=> TransportSupported(e, TransportOverride(n))
    BY <1>1, TransportTold
  <1>3. ASSUME NEW given
        PROVE  /\ Plan(given).parameters_valid <=> missing_params(n, given) = {}
               /\ Plan(given).transport_supported <=> TransportSupported(e, TransportOverride(n))
               /\ Plan(given).gate_enabled = gates[e.safety]
               /\ Plan(given).scope = scope
               /\ Plan(given).digest = <<n, IF given = {} THEN default_params[n] ELSE given>>
    BY DEF build_mutation_plan
  <1>4. gates \in [{"mutation", "destructive", "internal"} -> BOOLEAN]
    BY DEF WriteGates
  <1>5. ASSUME NEW given
        PROVE  Goes(n, given, Plan(given).digest) <=> Ready(given)
    <2>1. Goes(n, given, Plan(given).digest) <=>
            /\ gates[e.safety] /\ generic_call_supported(e)
            /\ missing_params(n, given) = {} /\ scope = "general"
      <3> HIDE DEF n
      <3> QED BY <1>1 DEF WriteDoor, WriteGates
    <2> HIDE DEF n, e, Plan
    <2> QED BY <1>2, <1>3, <2>1
  <1>6. ASSUME NEW m, m # n, NEW given
        PROVE  ~Goes(m, given, Plan(given).digest)
    <2>1. build_mutation_plan(m, given, scope, gates).digest
            = <<m, IF given = {} THEN default_params[m] ELSE given>>
      BY DEF build_mutation_plan
    <2> HIDE DEF n, Plan
    <2>2. Plan(given).digest # build_mutation_plan(m, given, scope, gates).digest
      BY <1>3, <1>6, <2>1
    <2> QED BY <2>2 DEF WriteDoor
  <1>7. ExecutionEligible(gates, n, scope) <=>
          /\ scope = "general" /\ gates[e.safety] /\ TransportSupported(e, TransportOverride(n))
    BY <1>3 DEF ExecutionEligible
  <1>8. required_params[n] \in Attempts(n) /\ missing_params(n, required_params[n]) = {}
    BY NothingMissing DEF Attempts
  <1>9. ExecutionEligible(gates, n, scope) <=> \E given \in Attempts(n) : Ready(given)
    <2> HIDE DEF n, e, Plan
    <2> QED BY <1>3, <1>7, <1>8
  <1> HIDE DEF n, e, Plan, Goes
  <1>10. ExecutionEligible(gates, n, scope) <=>
           \E given \in Attempts(n) : Goes(n, given, Plan(given).digest)
    BY <1>5, <1>9
  <1> QED BY <1>5, <1>6, <1>10 DEF PlanAgreesWithExecutor, n, Plan, Goes

\* The parameters of the reads: one of them requires some, and has no defaults.
FeedbackLog == <<"admin.log_export", "feedback_log", "read">>

LEMMA ReadsRequire ==
  ASSUME NEW n \in EndpointNames, ReadByName(n)
  PROVE  missing_params(n, default_params[n]) = {} <=> n # FeedbackLog
  <1>1. \A row \in RequiredParams : ReadByName(row[1]) => row[1] = FeedbackLog
    BY DEF RequiredParams, ReadByName, ReadVerbs, WriteNamedAsRead, FirmwareDownload, FeedbackLog
  <1>2. \A row \in DefaultParams : row[1] # FeedbackLog
    BY DEF DefaultParams, FeedbackLog
  <1>3. <<FeedbackLog, {"index", "limit"}>> \in RequiredParams
    BY DEF RequiredParams, FeedbackLog
  <1>4. CASE n = FeedbackLog
    <2>1. "index" \in required_params[n]
      BY <1>3, <1>4 DEF required_params, ParamsIn
    <2>2. default_params[n] = {}
      BY <1>2, <1>4 DEF default_params, ParamsIn
    <2> QED BY <1>4, <2>1, <2>2 DEF missing_params
  <1>5. CASE n # FeedbackLog
    <2>1. required_params[n] = {}
      BY <1>1, <1>5 DEF required_params, ParamsIn
    <2> QED BY <1>5, <2>1 DEF missing_params
  <1> QED BY <1>4, <1>5

LEMMA OneDoorEach ==
  ASSUME NEW n \in EndpointNames, NEW reads \in ReadGates, NEW writes \in WriteGates
  PROVE  OneDoor(n, reads, writes)
  <1> DEFINE endpoint == get_endpoint[n]
             given == required_params[n]
             Binary(content) == BinaryDoor(reads, n, content)
             read == ReadDoor(reads, n, given)
             binary == \E content \in BOOLEAN : Binary(content)
             write == WriteDoor(writes, n, given, "general", n,
                                build_mutation_plan(n, given, "general", writes).digest)
  <1>1. endpoint \in ENDPOINT_CATALOG /\ endpoint.name = n
        /\ EndpointRight(n, endpoint.auth, endpoint.kind, endpoint.safety, endpoint.sens)
    BY Catalogued
  <1>2. missing_params(n, given) = {}
    BY NothingMissing
  <1>3. read <=> /\ endpoint.safety = "read_only"
                 /\ endpoint.sens = "secret" => reads.sensitive
                 /\ JsonCallSupported(endpoint)
    BY <1>2 DEF ReadDoor
  <1>4. \A content \in BOOLEAN : Binary(content) <=>
          /\ endpoint.safety = "read_only" /\ endpoint.kind = "binary"
          /\ endpoint.sens = "secret" => reads.sensitive
          /\ reads.bulk
          /\ content => reads.binary
    BY DEF BinaryDoor
  <1>5. write => endpoint.safety # "read_only" /\ generic_call_supported(endpoint)
    BY DEF WriteDoor
  <1>6. JsonCallSupported(endpoint) => endpoint.kind # "binary"
    BY DEF JsonCallSupported, generic_call_supported, bootstrap_call_supported
  <1>7. ValidOperation(n, given) <=>
          bootstrap_call_supported(endpoint) \/ generic_call_supported(endpoint)
    BY <1>2, TransportTold DEF ValidOperation
  <1>8. JsonCallSupported(endpoint) <=>
          generic_call_supported(endpoint) \/ bootstrap_call_supported(endpoint)
    BY DEF JsonCallSupported
  <1>9. endpoint.safety = "read_only" /\ endpoint.kind = "binary" =>
          binary_call_supported(endpoint)
    BY <1>1 DEF EndpointRight, binary_call_supported, MultipartBackup
  <1>10. /\ endpoint \in DISCOVERABLE_READ_ENDPOINTS <=>
               endpoint.safety = "read_only" /\ endpoint.sens # "secret" /\ JsonCallSupported(endpoint)
         /\ endpoint \in SENSITIVE_SCHEMA_ENDPOINTS <=>
               endpoint.safety = "read_only" /\ endpoint.sens = "secret" /\ JsonCallSupported(endpoint)
    BY <1>1 DEF DISCOVERABLE_READ_ENDPOINTS, SENSITIVE_SCHEMA_ENDPOINTS, READ_ONLY_ENDPOINTS
  <1>11. ASSUME UntestedSelected(n) \/ HttpDataSelected(n, FALSE)
                  \/ (reads.sensitive /\ HttpDataSelected(n, TRUE))
         PROVE  ReadDoor(reads, n, default_params[n]) <=> n # FeedbackLog
    <2>1. /\ endpoint.safety = "read_only" /\ JsonCallSupported(endpoint)
          /\ endpoint.sens = "secret" => reads.sensitive
      BY <1>11 DEF UntestedSelected, HttpDataSelected
    <2>2. ReadByName(n)
      BY <1>1, <2>1 DEF EndpointRight
    <2> QED BY <2>1, <2>2, ReadsRequire DEF ReadDoor
  <1>12. n \in BinaryReads /\ BulkBinaryAllowed(reads) => Binary(FALSE)
    BY <1>1 DEF EndpointRight, BulkBinaryAllowed, BinaryDoor
  <1>13. \E content \in BOOLEAN : ~content
    OBVIOUS
  <1>14. binary <=> /\ endpoint.safety = "read_only" /\ endpoint.kind = "binary"
                    /\ endpoint.sens = "secret" => reads.sensitive
                    /\ reads.bulk
    BY <1>4, <1>13
  <1> HIDE DEF read, binary, write
  <1>15. ~(read /\ binary) /\ ~(read /\ write) /\ ~(binary /\ write)
    BY <1>3, <1>5, <1>6, <1>14
  <1>16. read \/ write => JsonCallSupported(endpoint) /\ ValidOperation(n, given)
    BY <1>3, <1>5, <1>7, <1>8
  <1>17. binary => binary_call_supported(endpoint) /\ ~ValidOperation(n, given)
    BY <1>6, <1>7, <1>8, <1>9, <1>14
  <1>18. (read \/ binary) /\ endpoint.sens = "secret" => reads.sensitive
    BY <1>3, <1>14
  <1>19. /\ endpoint \in DISCOVERABLE_READ_ENDPOINTS => read
         /\ endpoint \in SENSITIVE_SCHEMA_ENDPOINTS => (read <=> reads.sensitive)
         /\ read => endpoint \in DISCOVERABLE_READ_ENDPOINTS \cup SENSITIVE_SCHEMA_ENDPOINTS
    BY <1>3, <1>10
  <1> QED BY <1>11, <1>12, <1>15, <1>16, <1>17, <1>18, <1>19
          DEF OneDoor, read, binary, write, FeedbackLog

-----------------------------------------------------------------------------
(* The routes.                                                             *)

RouteTrue(route) ==
  /\ route.cap \in DOMAIN TmpOperation /\ TmpOperation[route.cap] = route.tmp
  /\ route.primary = "http" <=> route.cap \in DOMAIN HttpOperation
  /\ route.primary = "http" => HttpOperation[route.cap] = route.http

LEMMA HttpRoutesTrue == \A route \in HttpRoutes : RouteTrue(route)
  BY DEF HttpRoutes, HttpRoute, RouteTrue, TmpOperation, HttpOperation, ParentalOperation

LEMMA TmpNetworkRoutesTrue == \A route \in TmpNetworkRoutes : RouteTrue(route)
  BY DEF TmpNetworkRoutes, TmpRoute, RouteTrue, TmpOperation, HttpOperation, ParentalOperation

LEMMA TmpRoutesTrue == \A route \in TmpRoutes : RouteTrue(route)
  <1> DEFINE others == TmpRoutes \ TmpNetworkRoutes
  <1>1. \A route \in others : RouteTrue(route)
    BY DEF TmpRoutes, TmpRoute, RouteTrue, TmpOperation, HttpOperation, ParentalOperation
  <1> QED BY <1>1, TmpNetworkRoutesTrue

\* Whichever row a capability's name finds, it is true: no row needs to be the only one.
LEMMA RouteFound ==
  ASSUME NEW cap \in Capabilities
  PROVE  RouteTellsTheTruth(cap)
  <1>1. get_capability_route[cap] = CHOOSE route \in CAPABILITY_ROUTES : route.cap = cap
    BY DEF get_capability_route
  <1>2. \E route \in CAPABILITY_ROUTES : route.cap = cap
    BY DEF Capabilities
  <1>3. get_capability_route[cap] \in CAPABILITY_ROUTES /\ get_capability_route[cap].cap = cap
    BY <1>1, <1>2
  <1>4. RouteTrue(get_capability_route[cap])
    BY <1>3, HttpRoutesTrue, TmpRoutesTrue DEF CAPABILITY_ROUTES
  <1> QED BY <1>3, <1>4 DEF RouteTellsTheTruth, RouteTrue

-----------------------------------------------------------------------------
(* The opcodes the source lists: no code is listed twice, and what the     *)
(* tables of relations and routes refer to is among them.                  *)

Ends0000 ==
  {<<\h0000, "UNKNOWN">>, <<\h0001, "ALLOC">>, <<\h0002, "VERIFY">>, <<\h0003, "FREE">>,
   <<\h4001, "NEGOTIATE">>, <<\h4002, "BT">>}

Ends4003 ==
  {<<\h4003, "SET">>, <<\h4004, "GET">>, <<\h4005, "SET">>, <<\h4006, "GET">>, <<\h4007, "SET">>,
   <<\h4008, "SET">>}

Ends4009 ==
  {<<\h4009, "GET">>, <<\h400A, "GET">>, <<\h400B, "TRY">>, <<\h400C, "GET">>, <<\h400D, "GET">>,
   <<\h400E, "TIME">>, <<\h400F, "GET">>, <<\h4010, "GET">>, <<\h4011, "START">>,
   <<\h4012, "GET">>, <<\h4013, "SET">>, <<\h4014, "GET">>}

Ends4015 ==
  {<<\h4015, "GET">>, <<\h4016, "REBOOT">>, <<\h4017, "BLOCK">>, <<\h4018, "GET">>,
   <<\h4019, "UNBLOCK">>, <<\h401A, "GET">>, <<\h401B, "SET">>, <<\h401C, "GET">>,
   <<\h401D, "UPDATE">>, <<\h401E, "GET">>, <<\h401F, "TRY">>, <<\h4020, "SET">>}

Ends4021 ==
  {<<\h4021, "SET">>, <<\h4022, "REMOVE">>, <<\h4023, "UNBIND">>, <<\h4024, "GET">>,
   <<\h4025, "CLEAR">>, <<\h4026, "GET">>, <<\h4027, "STOP">>, <<\h4028, "GET">>,
   <<\h4029, "GET">>, <<\h402A, "ADD">>, <<\h402B, "REMOVE">>, <<\h402C, "MODIFY">>}

Ends402D ==
  {<<\h402D, "GET">>, <<\h402E, "BLOCK">>, <<\h402F, "GET">>, <<\h4030, "BLOCK">>,
   <<\h4031, "GET">>, <<\h4032, "GET">>, <<\h4033, "ADD">>, <<\h4034, "REMOVE">>,
   <<\h4035, "GET">>, <<\h4036, "GET">>, <<\h4037, "SET">>, <<\h4038, "MODIFY">>}

Ends4039 ==
  {<<\h4039, "GET">>, <<\h403A, "GET">>, <<\h403B, "GET">>, <<\h403C, "SET">>, <<\h403D, "GET">>,
   <<\h403E, "CLEAR">>, <<\h403F, "REMOVE">>, <<\h4040, "GET">>, <<\h4041, "REMOVE">>,
   <<\h4042, "ADD">>, <<\h4043, "MODIFY">>, <<\h4044, "SCAN">>}

Ends4045 ==
  {<<\h4045, "GET">>, <<\h4047, "DELETE">>, <<\h4048, "SCANNING">>, <<\h4049, "GET">>,
   <<\h404A, "IDENTIFY">>, <<\h404B, "GET_BY_MODULE">>, <<\h404C, "SCANNING">>,
   <<\h4050, "GET">>, <<\h4051, "ADD">>, <<\h4052, "MODIFY">>, <<\h4053, "REMOVE">>,
   <<\h4054, "SET">>}

Ends4060 ==
  {<<\h4060, "GET">>, <<\h4070, "GET">>, <<\h4071, "SET">>, <<\h4073, "ADD">>,
   <<\h4074, "MODIFY">>, <<\h4075, "REMOVE">>, <<\h4076, "ADD">>, <<\h4077, "MODIFY">>,
   <<\h4078, "REMOVE">>, <<\h4079, "GET">>, <<\h407A, "REMOVE">>, <<\h4080, "GET">>}

Ends4082 ==
  {<<\h4082, "ADD">>, <<\h4083, "MODIFY">>, <<\h4084, "REMOVE">>, <<\h4086, "ADD">>,
   <<\h4087, "MODIFY">>, <<\h4088, "REMOVE">>, <<\h4089, "ADD">>, <<\h408A, "MODIFY">>,
   <<\h408B, "REMOVE">>, <<\h408C, "GET">>, <<\h408D, "REMOVE">>, <<\h408E, "MODIFY">>}

Ends4090 ==
  {<<\h4090, "REMOVE">>, <<\h40A0, "GET">>, <<\h40A1, "SET">>, <<\h40B0, "GET">>,
   <<\h40B1, "ADD">>, <<\h40B2, "MODIFY">>, <<\h40B3, "DELETE">>, <<\h40C0, "GET">>,
   <<\h40C1, "ADD">>, <<\h40C2, "MODIFY">>, <<\h40C3, "REMOVE">>, <<\h40D0, "GET">>}

Ends40D1 ==
  {<<\h40D1, "SET">>, <<\h40E0, "GET">>, <<\h4100, "ELECT">>, <<\h4201, "GET">>,
   <<\h4202, "GET">>, <<\h4204, "SYNC">>, <<\h4205, "DOWNLOAD">>, <<\h4206, "HEART_BEAT">>,
   <<\h4207, "DETECTION">>, <<\h4208, "GET">>, <<\h4209, "SET">>, <<\h420A, "GET">>}

Ends420B ==
  {<<\h420B, "SET">>, <<\h420C, "SET">>, <<\h420D, "GET">>, <<\h420E, "SET">>, <<\h420F, "SET">>,
   <<\h4211, "GET">>, <<\h4212, "SET">>, <<\h4213, "GET">>, <<\h4214, "SET">>, <<\h4215, "GET">>,
   <<\h4216, "SET">>, <<\h4217, "REMOVE">>}

Ends4218 ==
  {<<\h4218, "MODIFY">>, <<\h4219, "GET">>, <<\h421A, "SET">>, <<\h421B, "GET">>,
   <<\h421C, "SET">>, <<\h421D, "GET">>, <<\h421E, "SET">>, <<\h4220, "REMOVE">>,
   <<\h4221, "REMOVE">>, <<\h4222, "GET">>, <<\h4223, "SET">>, <<\h4224, "GET">>}

Ends4225 ==
  {<<\h4225, "SET">>, <<\h4226, "GET">>, <<\h4227, "SET">>, <<\h4228, "GET">>, <<\h4229, "GET">>,
   <<\h422A, "SET">>, <<\h422B, "GET">>, <<\h422C, "SET">>, <<\h422D, "GET">>,
   <<\h422E, "BUILD">>, <<\h422F, "GET">>, <<\h4230, "GET">>}

Ends4231 ==
  {<<\h4231, "ADD">>, <<\h4232, "REMOVE">>, <<\h4233, "MODIFY">>, <<\h4234, "GET">>,
   <<\h4235, "GET">>, <<\h4236, "UNBLOCK">>, <<\h4237, "UPDATE">>, <<\h4238, "SET">>,
   <<\h4239, "GET">>, <<\h423A, "GET">>, <<\h423B, "ADD">>, <<\h423C, "REMOVE">>}

Ends423D ==
  {<<\h423D, "GET">>, <<\h424A, "GET">>, <<\h424B, "SET">>, <<\h424C, "GET">>, <<\h424D, "SET">>,
   <<\h424E, "GET">>, <<\h424F, "SCAN">>, <<\h4250, "OPTIMIZE">>, <<\h4251, "GET">>,
   <<\h4252, "SET">>, <<\h4253, "TRANSFER_OWNERSHIP">>, <<\h4301, "GET">>}

Firsts(ends) == { o[1] : o \in ends }

\* The group a listed code belongs to.
Home(code) ==
  IF code < \h4003 THEN 1
  ELSE IF code < \h4009 THEN 2
  ELSE IF code < \h4015 THEN 3
  ELSE IF code < \h4021 THEN 4
  ELSE IF code < \h402D THEN 5
  ELSE IF code < \h4039 THEN 6
  ELSE IF code < \h4045 THEN 7
  ELSE IF code < \h4060 THEN 8
  ELSE IF code < \h4082 THEN 9
  ELSE IF code < \h4090 THEN 10
  ELSE IF code < \h40D1 THEN 11
  ELSE IF code < \h420B THEN 12
  ELSE IF code < \h4218 THEN 13
  ELSE IF code < \h4225 THEN 14
  ELSE IF code < \h4231 THEN 15
  ELSE IF code < \h423D THEN 16
  ELSE 17

\* The opcodes with a name that cuts the connection.
CutCodes ==
  {\h4004, \h4005, \h4006, \h4007, \h4008, \h4009, \h40A0, \h40A1, \h420C, \h420D, \h420E, \h4211,
   \h4212, \h4213, \h4214, \h4224, \h4225, \h4226, \h4227, \h4230, \h4231, \h4232, \h4233, \h4234,
   \h4251, \h4252}

Cut(op) == Words(op) \cap ConnectivityWords # {}

\* The opcodes of the routes whose answer is no secret.
OpenCodes ==
  { \h400F, \h400C, \h4208, \h421B, \h40A0, \h400A, \h4010, \h401C, \h4036, \h4219, \h420D, \h4224,
    \h421D, \h4226, \h401A, \h422F, \h4215, \h4222, \h4228, \h4035, \h403A }

Placed(op, codes) ==
  /\ op.code \in codes
  /\ op.code \in CutCodes => 1 \in DOMAIN op.stem /\ op.stem[1] \in ConnectivityWords
  /\ op.code \notin CutCodes => \A i \in DOMAIN op.stem : op.stem[i] \notin ConnectivityWords
  /\ op.code \in OpenCodes => op.sensitivity # "secret"

IsStem(s) == \E S : s \in Seq(S)

LEMMA StemOfNone == IsStem(<<>>)
  <1>1. <<>> \in Seq({})
    OBVIOUS
  <1> QED BY <1>1 DEF IsStem

LEMMA StemOfOne ==
  ASSUME NEW a
  PROVE  IsStem(<<a>>)
  <1>1. <<a>> \in Seq({a})
    OBVIOUS
  <1> QED BY <1>1 DEF IsStem

LEMMA StemOfTwo ==
  ASSUME NEW a, NEW b
  PROVE  IsStem(<<a, b>>)
  <1>1. <<a, b>> \in Seq({a, b})
    OBVIOUS
  <1> QED BY <1>1 DEF IsStem

LEMMA StemOfThree ==
  ASSUME NEW a, NEW b, NEW c
  PROVE  IsStem(<<a, b, c>>)
  <1>1. <<a, b, c>> \in Seq({a, b, c})
    OBVIOUS
  <1> QED BY <1>1 DEF IsStem

LEMMA StemOfFour ==
  ASSUME NEW a, NEW b, NEW c, NEW d
  PROVE  IsStem(<<a, b, c, d>>)
  <1>1. <<a, b, c, d>> \in Seq({a, b, c, d})
    OBVIOUS
  <1> QED BY <1>1 DEF IsStem

LEMMA Group0000 ==
  /\ \A op \in From0000 : Placed(op, Firsts(Ends0000)) /\ IsStem(op.stem)
  /\ \A a, b \in From0000 : a.code = b.code => a = b
  /\ \A op \in From0000 : Home(op.code) = 1
  <1>1. \A op \in From0000 : Placed(op, Firsts(Ends0000))
    BY SMTT(60)
       DEF From0000, Opcodes, Placed, Firsts, Ends0000, CutCodes, OpenCodes, ConnectivityWords
  <1>2. \A op \in From0000 : IsStem(op.stem)
    BY StemOfNone, StemOfOne, StemOfTwo, StemOfThree, StemOfFour DEF From0000, Opcodes
  <1>3. \A a, b \in From0000 : a.code = b.code => a = b
    BY DEF From0000, Opcodes
  <1>4. \A code \in Firsts(Ends0000) : Home(code) = 1
    BY DEF Home, Firsts, Ends0000
  <1> QED BY <1>1, <1>2, <1>3, <1>4 DEF Placed

LEMMA Group4003 ==
  /\ \A op \in From4003 : Placed(op, Firsts(Ends4003)) /\ IsStem(op.stem)
  /\ \A a, b \in From4003 : a.code = b.code => a = b
  /\ \A op \in From4003 : Home(op.code) = 2
  <1>1. \A op \in From4003 : Placed(op, Firsts(Ends4003))
    BY SMTT(60)
       DEF From4003, Opcodes, Placed, Firsts, Ends4003, CutCodes, OpenCodes, ConnectivityWords
  <1>2. \A op \in From4003 : IsStem(op.stem)
    BY StemOfNone, StemOfOne, StemOfTwo, StemOfThree, StemOfFour DEF From4003, Opcodes
  <1>3. \A a, b \in From4003 : a.code = b.code => a = b
    BY DEF From4003, Opcodes
  <1>4. \A code \in Firsts(Ends4003) : Home(code) = 2
    BY DEF Home, Firsts, Ends4003
  <1> QED BY <1>1, <1>2, <1>3, <1>4 DEF Placed

LEMMA Group4009 ==
  /\ \A op \in From4009 : Placed(op, Firsts(Ends4009)) /\ IsStem(op.stem)
  /\ \A a, b \in From4009 : a.code = b.code => a = b
  /\ \A op \in From4009 : Home(op.code) = 3
  <1>1. \A op \in From4009 : Placed(op, Firsts(Ends4009))
    BY SMTT(60)
       DEF From4009, Opcodes, Placed, Firsts, Ends4009, CutCodes, OpenCodes, ConnectivityWords
  <1>2. \A op \in From4009 : IsStem(op.stem)
    BY StemOfNone, StemOfOne, StemOfTwo, StemOfThree, StemOfFour DEF From4009, Opcodes
  <1>3. \A a, b \in From4009 : a.code = b.code => a = b
    BY DEF From4009, Opcodes
  <1>4. \A code \in Firsts(Ends4009) : Home(code) = 3
    BY DEF Home, Firsts, Ends4009
  <1> QED BY <1>1, <1>2, <1>3, <1>4 DEF Placed

LEMMA Group4015 ==
  /\ \A op \in From4015 : Placed(op, Firsts(Ends4015)) /\ IsStem(op.stem)
  /\ \A a, b \in From4015 : a.code = b.code => a = b
  /\ \A op \in From4015 : Home(op.code) = 4
  <1>1. \A op \in From4015 : Placed(op, Firsts(Ends4015))
    BY SMTT(60)
       DEF From4015, Opcodes, Placed, Firsts, Ends4015, CutCodes, OpenCodes, ConnectivityWords
  <1>2. \A op \in From4015 : IsStem(op.stem)
    BY StemOfNone, StemOfOne, StemOfTwo, StemOfThree, StemOfFour DEF From4015, Opcodes
  <1>3. \A a, b \in From4015 : a.code = b.code => a = b
    BY DEF From4015, Opcodes
  <1>4. \A code \in Firsts(Ends4015) : Home(code) = 4
    BY DEF Home, Firsts, Ends4015
  <1> QED BY <1>1, <1>2, <1>3, <1>4 DEF Placed

LEMMA Group4021 ==
  /\ \A op \in From4021 : Placed(op, Firsts(Ends4021)) /\ IsStem(op.stem)
  /\ \A a, b \in From4021 : a.code = b.code => a = b
  /\ \A op \in From4021 : Home(op.code) = 5
  <1>1. \A op \in From4021 : Placed(op, Firsts(Ends4021))
    BY SMTT(60)
       DEF From4021, Opcodes, Placed, Firsts, Ends4021, CutCodes, OpenCodes, ConnectivityWords
  <1>2. \A op \in From4021 : IsStem(op.stem)
    BY StemOfNone, StemOfOne, StemOfTwo, StemOfThree, StemOfFour DEF From4021, Opcodes
  <1>3. \A a, b \in From4021 : a.code = b.code => a = b
    BY DEF From4021, Opcodes
  <1>4. \A code \in Firsts(Ends4021) : Home(code) = 5
    BY DEF Home, Firsts, Ends4021
  <1> QED BY <1>1, <1>2, <1>3, <1>4 DEF Placed

LEMMA Group402D ==
  /\ \A op \in From402D : Placed(op, Firsts(Ends402D)) /\ IsStem(op.stem)
  /\ \A a, b \in From402D : a.code = b.code => a = b
  /\ \A op \in From402D : Home(op.code) = 6
  <1>1. \A op \in From402D : Placed(op, Firsts(Ends402D))
    BY SMTT(60)
       DEF From402D, Opcodes, Placed, Firsts, Ends402D, CutCodes, OpenCodes, ConnectivityWords
  <1>2. \A op \in From402D : IsStem(op.stem)
    BY StemOfNone, StemOfOne, StemOfTwo, StemOfThree, StemOfFour DEF From402D, Opcodes
  <1>3. \A a, b \in From402D : a.code = b.code => a = b
    BY DEF From402D, Opcodes
  <1>4. \A code \in Firsts(Ends402D) : Home(code) = 6
    BY DEF Home, Firsts, Ends402D
  <1> QED BY <1>1, <1>2, <1>3, <1>4 DEF Placed

LEMMA Group4039 ==
  /\ \A op \in From4039 : Placed(op, Firsts(Ends4039)) /\ IsStem(op.stem)
  /\ \A a, b \in From4039 : a.code = b.code => a = b
  /\ \A op \in From4039 : Home(op.code) = 7
  <1>1. \A op \in From4039 : Placed(op, Firsts(Ends4039))
    BY SMTT(60)
       DEF From4039, Opcodes, Placed, Firsts, Ends4039, CutCodes, OpenCodes, ConnectivityWords
  <1>2. \A op \in From4039 : IsStem(op.stem)
    BY StemOfNone, StemOfOne, StemOfTwo, StemOfThree, StemOfFour DEF From4039, Opcodes
  <1>3. \A a, b \in From4039 : a.code = b.code => a = b
    BY DEF From4039, Opcodes
  <1>4. \A code \in Firsts(Ends4039) : Home(code) = 7
    BY DEF Home, Firsts, Ends4039
  <1> QED BY <1>1, <1>2, <1>3, <1>4 DEF Placed

LEMMA Group4045 ==
  /\ \A op \in From4045 : Placed(op, Firsts(Ends4045)) /\ IsStem(op.stem)
  /\ \A a, b \in From4045 : a.code = b.code => a = b
  /\ \A op \in From4045 : Home(op.code) = 8
  <1>1. \A op \in From4045 : Placed(op, Firsts(Ends4045))
    BY SMTT(60)
       DEF From4045, Opcodes, Placed, Firsts, Ends4045, CutCodes, OpenCodes, ConnectivityWords
  <1>2. \A op \in From4045 : IsStem(op.stem)
    BY StemOfNone, StemOfOne, StemOfTwo, StemOfThree, StemOfFour DEF From4045, Opcodes
  <1>3. \A a, b \in From4045 : a.code = b.code => a = b
    BY DEF From4045, Opcodes
  <1>4. \A code \in Firsts(Ends4045) : Home(code) = 8
    BY DEF Home, Firsts, Ends4045
  <1> QED BY <1>1, <1>2, <1>3, <1>4 DEF Placed

LEMMA Group4060 ==
  /\ \A op \in From4060 : Placed(op, Firsts(Ends4060)) /\ IsStem(op.stem)
  /\ \A a, b \in From4060 : a.code = b.code => a = b
  /\ \A op \in From4060 : Home(op.code) = 9
  <1>1. \A op \in From4060 : Placed(op, Firsts(Ends4060))
    BY SMTT(60)
       DEF From4060, Opcodes, Placed, Firsts, Ends4060, CutCodes, OpenCodes, ConnectivityWords
  <1>2. \A op \in From4060 : IsStem(op.stem)
    BY StemOfNone, StemOfOne, StemOfTwo, StemOfThree, StemOfFour DEF From4060, Opcodes
  <1>3. \A a, b \in From4060 : a.code = b.code => a = b
    BY DEF From4060, Opcodes
  <1>4. \A code \in Firsts(Ends4060) : Home(code) = 9
    BY DEF Home, Firsts, Ends4060
  <1> QED BY <1>1, <1>2, <1>3, <1>4 DEF Placed

LEMMA Group4082 ==
  /\ \A op \in From4082 : Placed(op, Firsts(Ends4082)) /\ IsStem(op.stem)
  /\ \A a, b \in From4082 : a.code = b.code => a = b
  /\ \A op \in From4082 : Home(op.code) = 10
  <1>1. \A op \in From4082 : Placed(op, Firsts(Ends4082))
    BY SMTT(60)
       DEF From4082, Opcodes, Placed, Firsts, Ends4082, CutCodes, OpenCodes, ConnectivityWords
  <1>2. \A op \in From4082 : IsStem(op.stem)
    BY StemOfNone, StemOfOne, StemOfTwo, StemOfThree, StemOfFour DEF From4082, Opcodes
  <1>3. \A a, b \in From4082 : a.code = b.code => a = b
    BY DEF From4082, Opcodes
  <1>4. \A code \in Firsts(Ends4082) : Home(code) = 10
    BY DEF Home, Firsts, Ends4082
  <1> QED BY <1>1, <1>2, <1>3, <1>4 DEF Placed

LEMMA Group4090 ==
  /\ \A op \in From4090 : Placed(op, Firsts(Ends4090)) /\ IsStem(op.stem)
  /\ \A a, b \in From4090 : a.code = b.code => a = b
  /\ \A op \in From4090 : Home(op.code) = 11
  <1>1. \A op \in From4090 : Placed(op, Firsts(Ends4090))
    BY SMTT(60)
       DEF From4090, Opcodes, Placed, Firsts, Ends4090, CutCodes, OpenCodes, ConnectivityWords
  <1>2. \A op \in From4090 : IsStem(op.stem)
    BY StemOfNone, StemOfOne, StemOfTwo, StemOfThree, StemOfFour DEF From4090, Opcodes
  <1>3. \A a, b \in From4090 : a.code = b.code => a = b
    BY DEF From4090, Opcodes
  <1>4. \A code \in Firsts(Ends4090) : Home(code) = 11
    BY DEF Home, Firsts, Ends4090
  <1> QED BY <1>1, <1>2, <1>3, <1>4 DEF Placed

LEMMA Group40D1 ==
  /\ \A op \in From40D1 : Placed(op, Firsts(Ends40D1)) /\ IsStem(op.stem)
  /\ \A a, b \in From40D1 : a.code = b.code => a = b
  /\ \A op \in From40D1 : Home(op.code) = 12
  <1>1. \A op \in From40D1 : Placed(op, Firsts(Ends40D1))
    BY SMTT(60)
       DEF From40D1, Opcodes, Placed, Firsts, Ends40D1, CutCodes, OpenCodes, ConnectivityWords
  <1>2. \A op \in From40D1 : IsStem(op.stem)
    BY StemOfNone, StemOfOne, StemOfTwo, StemOfThree, StemOfFour DEF From40D1, Opcodes
  <1>3. \A a, b \in From40D1 : a.code = b.code => a = b
    BY DEF From40D1, Opcodes
  <1>4. \A code \in Firsts(Ends40D1) : Home(code) = 12
    BY DEF Home, Firsts, Ends40D1
  <1> QED BY <1>1, <1>2, <1>3, <1>4 DEF Placed

LEMMA Group420B ==
  /\ \A op \in From420B : Placed(op, Firsts(Ends420B)) /\ IsStem(op.stem)
  /\ \A a, b \in From420B : a.code = b.code => a = b
  /\ \A op \in From420B : Home(op.code) = 13
  <1>1. \A op \in From420B : Placed(op, Firsts(Ends420B))
    BY SMTT(60)
       DEF From420B, Opcodes, Placed, Firsts, Ends420B, CutCodes, OpenCodes, ConnectivityWords
  <1>2. \A op \in From420B : IsStem(op.stem)
    BY StemOfNone, StemOfOne, StemOfTwo, StemOfThree, StemOfFour DEF From420B, Opcodes
  <1>3. \A a, b \in From420B : a.code = b.code => a = b
    BY DEF From420B, Opcodes
  <1>4. \A code \in Firsts(Ends420B) : Home(code) = 13
    BY DEF Home, Firsts, Ends420B
  <1> QED BY <1>1, <1>2, <1>3, <1>4 DEF Placed

LEMMA Group4218 ==
  /\ \A op \in From4218 : Placed(op, Firsts(Ends4218)) /\ IsStem(op.stem)
  /\ \A a, b \in From4218 : a.code = b.code => a = b
  /\ \A op \in From4218 : Home(op.code) = 14
  <1>1. \A op \in From4218 : Placed(op, Firsts(Ends4218))
    BY SMTT(60)
       DEF From4218, Opcodes, Placed, Firsts, Ends4218, CutCodes, OpenCodes, ConnectivityWords
  <1>2. \A op \in From4218 : IsStem(op.stem)
    BY StemOfNone, StemOfOne, StemOfTwo, StemOfThree, StemOfFour DEF From4218, Opcodes
  <1>3. \A a, b \in From4218 : a.code = b.code => a = b
    BY DEF From4218, Opcodes
  <1>4. \A code \in Firsts(Ends4218) : Home(code) = 14
    BY DEF Home, Firsts, Ends4218
  <1> QED BY <1>1, <1>2, <1>3, <1>4 DEF Placed

LEMMA Group4225 ==
  /\ \A op \in From4225 : Placed(op, Firsts(Ends4225)) /\ IsStem(op.stem)
  /\ \A a, b \in From4225 : a.code = b.code => a = b
  /\ \A op \in From4225 : Home(op.code) = 15
  <1>1. \A op \in From4225 : Placed(op, Firsts(Ends4225))
    BY SMTT(60)
       DEF From4225, Opcodes, Placed, Firsts, Ends4225, CutCodes, OpenCodes, ConnectivityWords
  <1>2. \A op \in From4225 : IsStem(op.stem)
    BY StemOfNone, StemOfOne, StemOfTwo, StemOfThree, StemOfFour DEF From4225, Opcodes
  <1>3. \A a, b \in From4225 : a.code = b.code => a = b
    BY DEF From4225, Opcodes
  <1>4. \A code \in Firsts(Ends4225) : Home(code) = 15
    BY DEF Home, Firsts, Ends4225
  <1> QED BY <1>1, <1>2, <1>3, <1>4 DEF Placed

LEMMA Group4231 ==
  /\ \A op \in From4231 : Placed(op, Firsts(Ends4231)) /\ IsStem(op.stem)
  /\ \A a, b \in From4231 : a.code = b.code => a = b
  /\ \A op \in From4231 : Home(op.code) = 16
  <1>1. \A op \in From4231 : Placed(op, Firsts(Ends4231))
    BY SMTT(60)
       DEF From4231, Opcodes, Placed, Firsts, Ends4231, CutCodes, OpenCodes, ConnectivityWords
  <1>2. \A op \in From4231 : IsStem(op.stem)
    BY StemOfNone, StemOfOne, StemOfTwo, StemOfThree, StemOfFour DEF From4231, Opcodes
  <1>3. \A a, b \in From4231 : a.code = b.code => a = b
    BY DEF From4231, Opcodes
  <1>4. \A code \in Firsts(Ends4231) : Home(code) = 16
    BY DEF Home, Firsts, Ends4231
  <1> QED BY <1>1, <1>2, <1>3, <1>4 DEF Placed

LEMMA Group423D ==
  /\ \A op \in From423D : Placed(op, Firsts(Ends423D)) /\ IsStem(op.stem)
  /\ \A a, b \in From423D : a.code = b.code => a = b
  /\ \A op \in From423D : Home(op.code) = 17
  <1>1. \A op \in From423D : Placed(op, Firsts(Ends423D))
    BY SMTT(60)
       DEF From423D, Opcodes, Placed, Firsts, Ends423D, CutCodes, OpenCodes, ConnectivityWords
  <1>2. \A op \in From423D : IsStem(op.stem)
    BY StemOfNone, StemOfOne, StemOfTwo, StemOfThree, StemOfFour DEF From423D, Opcodes
  <1>3. \A a, b \in From423D : a.code = b.code => a = b
    BY DEF From423D, Opcodes
  <1>4. \A code \in Firsts(Ends423D) : Home(code) = 17
    BY DEF Home, Firsts, Ends423D
  <1> QED BY <1>1, <1>2, <1>3, <1>4 DEF Placed

Offered(ops, code, verb) == \E op \in ops : op.code = code /\ op.verb = verb

LEMMA OfferedIn ==
  ASSUME NEW c, NEW s, NEW st, NEW ends, NEW o \in ends
  PROVE  Offered(Opcodes(c, s, st, ends), o[1], o[2])
  <1> DEFINE op == [code |-> o[1], stem |-> st, verb |-> o[2], category |-> c, sensitivity |-> s]
  <1>1. op \in Opcodes(c, s, st, ends)
    BY DEF Opcodes
  <1>2. op.code = o[1] /\ op.verb = o[2]
    OBVIOUS
  <1> HIDE DEF op
  <1> QED BY <1>1, <1>2 DEF Offered

LEMMA OfferedCup ==
  ASSUME NEW a, NEW b, NEW code, NEW verb
  PROVE  Offered(a \cup b, code, verb) <=> Offered(a, code, verb) \/ Offered(b, code, verb)
  BY DEF Offered

LEMMA Offered0000 == \A o \in Ends0000 : Offered(From0000, o[1], o[2])
  <1>1. \A o \in {<<\h0000, "UNKNOWN">>} :
          Offered(From0000, o[1], o[2])
    BY OfferedIn, OfferedCup, SMTT(60) DEF From0000
  <1>2. \A o \in {<<\h0001, "ALLOC">>, <<\h0002, "VERIFY">>, <<\h0003, "FREE">>} :
          Offered(From0000, o[1], o[2])
    BY OfferedIn, OfferedCup, SMTT(60) DEF From0000
  <1>3. \A o \in {<<\h4001, "NEGOTIATE">>, <<\h4002, "BT">>} :
          Offered(From0000, o[1], o[2])
    BY OfferedIn, OfferedCup, SMTT(60) DEF From0000
  <1> QED BY <1>1, <1>2, <1>3 DEF Ends0000

LEMMA Offered4003 == \A o \in Ends4003 : Offered(From4003, o[1], o[2])
  <1>1. \A o \in {<<\h4003, "SET">>, <<\h4004, "GET">>, <<\h4005, "SET">>} :
          Offered(From4003, o[1], o[2])
    BY OfferedIn, OfferedCup, SMTT(60) DEF From4003
  <1>2. \A o \in {<<\h4006, "GET">>, <<\h4007, "SET">>, <<\h4008, "SET">>} :
          Offered(From4003, o[1], o[2])
    BY OfferedIn, OfferedCup, SMTT(60) DEF From4003
  <1> QED BY <1>1, <1>2 DEF Ends4003

LEMMA Offered4009 == \A o \in Ends4009 : Offered(From4009, o[1], o[2])
  <1>1. \A o \in {<<\h4009, "GET">>, <<\h400A, "GET">>, <<\h400B, "TRY">>, <<\h400C, "GET">>} :
          Offered(From4009, o[1], o[2])
    BY OfferedIn, OfferedCup, SMTT(60) DEF From4009
  <1>2. \A o \in {<<\h400D, "GET">>, <<\h400E, "TIME">>, <<\h400F, "GET">>, <<\h4010, "GET">>} :
          Offered(From4009, o[1], o[2])
    BY OfferedIn, OfferedCup, SMTT(60) DEF From4009
  <1>3. \A o \in {<<\h4011, "START">>, <<\h4012, "GET">>, <<\h4013, "SET">>, <<\h4014, "GET">>} :
          Offered(From4009, o[1], o[2])
    BY OfferedIn, OfferedCup, SMTT(60) DEF From4009
  <1> QED BY <1>1, <1>2, <1>3 DEF Ends4009

LEMMA Offered4015 == \A o \in Ends4015 : Offered(From4015, o[1], o[2])
  <1>1. \A o \in {<<\h4015, "GET">>, <<\h4016, "REBOOT">>, <<\h4017, "BLOCK">>, <<\h4018, "GET">>} :
          Offered(From4015, o[1], o[2])
    BY OfferedIn, OfferedCup, SMTT(60) DEF From4015
  <1>2. \A o \in {<<\h4019, "UNBLOCK">>, <<\h401A, "GET">>, <<\h401B, "SET">>, <<\h401C, "GET">>} :
          Offered(From4015, o[1], o[2])
    BY OfferedIn, OfferedCup, SMTT(60) DEF From4015
  <1>3. \A o \in {<<\h401D, "UPDATE">>, <<\h401E, "GET">>, <<\h401F, "TRY">>, <<\h4020, "SET">>} :
          Offered(From4015, o[1], o[2])
    BY OfferedIn, OfferedCup, SMTT(60) DEF From4015
  <1> QED BY <1>1, <1>2, <1>3 DEF Ends4015

LEMMA Offered4021 == \A o \in Ends4021 : Offered(From4021, o[1], o[2])
  <1>1. \A o \in {<<\h4021, "SET">>, <<\h4022, "REMOVE">>, <<\h4023, "UNBIND">>, <<\h4024, "GET">>} :
          Offered(From4021, o[1], o[2])
    BY OfferedIn, OfferedCup, SMTT(60) DEF From4021
  <1>2. \A o \in {<<\h4025, "CLEAR">>, <<\h4026, "GET">>, <<\h4027, "STOP">>, <<\h4028, "GET">>} :
          Offered(From4021, o[1], o[2])
    BY OfferedIn, OfferedCup, SMTT(60) DEF From4021
  <1>3. \A o \in {<<\h4029, "GET">>, <<\h402A, "ADD">>, <<\h402B, "REMOVE">>, <<\h402C, "MODIFY">>} :
          Offered(From4021, o[1], o[2])
    BY OfferedIn, OfferedCup, SMTT(60) DEF From4021
  <1> QED BY <1>1, <1>2, <1>3 DEF Ends4021

LEMMA Offered402D == \A o \in Ends402D : Offered(From402D, o[1], o[2])
  <1>1. \A o \in {<<\h402D, "GET">>, <<\h402E, "BLOCK">>, <<\h402F, "GET">>, <<\h4030, "BLOCK">>} :
          Offered(From402D, o[1], o[2])
    BY OfferedIn, OfferedCup, SMTT(60) DEF From402D
  <1>2. \A o \in {<<\h4031, "GET">>, <<\h4032, "GET">>, <<\h4033, "ADD">>, <<\h4034, "REMOVE">>} :
          Offered(From402D, o[1], o[2])
    BY OfferedIn, OfferedCup, SMTT(60) DEF From402D
  <1>3. \A o \in {<<\h4035, "GET">>, <<\h4036, "GET">>, <<\h4037, "SET">>, <<\h4038, "MODIFY">>} :
          Offered(From402D, o[1], o[2])
    BY OfferedIn, OfferedCup, SMTT(60) DEF From402D
  <1> QED BY <1>1, <1>2, <1>3 DEF Ends402D

LEMMA Offered4039 == \A o \in Ends4039 : Offered(From4039, o[1], o[2])
  <1>1. \A o \in {<<\h4039, "GET">>, <<\h403A, "GET">>, <<\h403B, "GET">>, <<\h403C, "SET">>} :
          Offered(From4039, o[1], o[2])
    BY OfferedIn, OfferedCup, SMTT(60) DEF From4039
  <1>2. \A o \in {<<\h403D, "GET">>, <<\h403E, "CLEAR">>, <<\h403F, "REMOVE">>, <<\h4040, "GET">>} :
          Offered(From4039, o[1], o[2])
    BY OfferedIn, OfferedCup, SMTT(60) DEF From4039
  <1>3. \A o \in {<<\h4041, "REMOVE">>, <<\h4042, "ADD">>, <<\h4043, "MODIFY">>,
                 <<\h4044, "SCAN">>} :
          Offered(From4039, o[1], o[2])
    BY OfferedIn, OfferedCup, SMTT(60) DEF From4039
  <1> QED BY <1>1, <1>2, <1>3 DEF Ends4039

LEMMA Offered4045 == \A o \in Ends4045 : Offered(From4045, o[1], o[2])
  <1>1. \A o \in {<<\h4045, "GET">>, <<\h4047, "DELETE">>, <<\h4048, "SCANNING">>,
                 <<\h4049, "GET">>} :
          Offered(From4045, o[1], o[2])
    BY OfferedIn, OfferedCup, SMTT(60) DEF From4045
  <1>2. \A o \in {<<\h404A, "IDENTIFY">>, <<\h404B, "GET_BY_MODULE">>, <<\h404C, "SCANNING">>,
                 <<\h4050, "GET">>} :
          Offered(From4045, o[1], o[2])
    BY OfferedIn, OfferedCup, SMTT(60) DEF From4045
  <1>3. \A o \in {<<\h4051, "ADD">>, <<\h4052, "MODIFY">>, <<\h4053, "REMOVE">>, <<\h4054, "SET">>} :
          Offered(From4045, o[1], o[2])
    BY OfferedIn, OfferedCup, SMTT(60) DEF From4045
  <1> QED BY <1>1, <1>2, <1>3 DEF Ends4045

LEMMA Offered4060 == \A o \in Ends4060 : Offered(From4060, o[1], o[2])
  <1>1. \A o \in {<<\h4060, "GET">>, <<\h4070, "GET">>, <<\h4071, "SET">>, <<\h4073, "ADD">>} :
          Offered(From4060, o[1], o[2])
    BY OfferedIn, OfferedCup, SMTT(60) DEF From4060
  <1>2. \A o \in {<<\h4074, "MODIFY">>, <<\h4075, "REMOVE">>, <<\h4076, "ADD">>,
                 <<\h4077, "MODIFY">>} :
          Offered(From4060, o[1], o[2])
    BY OfferedIn, OfferedCup, SMTT(60) DEF From4060
  <1>3. \A o \in {<<\h4078, "REMOVE">>, <<\h4079, "GET">>, <<\h407A, "REMOVE">>, <<\h4080, "GET">>} :
          Offered(From4060, o[1], o[2])
    BY OfferedIn, OfferedCup, SMTT(60) DEF From4060
  <1> QED BY <1>1, <1>2, <1>3 DEF Ends4060

LEMMA Offered4082 == \A o \in Ends4082 : Offered(From4082, o[1], o[2])
  <1>1. \A o \in {<<\h4082, "ADD">>, <<\h4083, "MODIFY">>, <<\h4084, "REMOVE">>, <<\h4086, "ADD">>} :
          Offered(From4082, o[1], o[2])
    BY OfferedIn, OfferedCup, SMTT(60) DEF From4082
  <1>2. \A o \in {<<\h4087, "MODIFY">>, <<\h4088, "REMOVE">>, <<\h4089, "ADD">>,
                 <<\h408A, "MODIFY">>} :
          Offered(From4082, o[1], o[2])
    BY OfferedIn, OfferedCup, SMTT(60) DEF From4082
  <1>3. \A o \in {<<\h408B, "REMOVE">>, <<\h408C, "GET">>, <<\h408D, "REMOVE">>,
                 <<\h408E, "MODIFY">>} :
          Offered(From4082, o[1], o[2])
    BY OfferedIn, OfferedCup, SMTT(60) DEF From4082
  <1> QED BY <1>1, <1>2, <1>3 DEF Ends4082

LEMMA Offered4090 == \A o \in Ends4090 : Offered(From4090, o[1], o[2])
  <1>1. \A o \in {<<\h4090, "REMOVE">>, <<\h40A0, "GET">>, <<\h40A1, "SET">>, <<\h40B0, "GET">>} :
          Offered(From4090, o[1], o[2])
    BY OfferedIn, OfferedCup, SMTT(60) DEF From4090
  <1>2. \A o \in {<<\h40B1, "ADD">>, <<\h40B2, "MODIFY">>, <<\h40B3, "DELETE">>, <<\h40C0, "GET">>} :
          Offered(From4090, o[1], o[2])
    BY OfferedIn, OfferedCup, SMTT(60) DEF From4090
  <1>3. \A o \in {<<\h40C1, "ADD">>, <<\h40C2, "MODIFY">>, <<\h40C3, "REMOVE">>, <<\h40D0, "GET">>} :
          Offered(From4090, o[1], o[2])
    BY OfferedIn, OfferedCup, SMTT(60) DEF From4090
  <1> QED BY <1>1, <1>2, <1>3 DEF Ends4090

LEMMA Offered40D1 == \A o \in Ends40D1 : Offered(From40D1, o[1], o[2])
  <1>1. \A o \in {<<\h40D1, "SET">>, <<\h40E0, "GET">>, <<\h4100, "ELECT">>, <<\h4201, "GET">>} :
          Offered(From40D1, o[1], o[2])
    BY OfferedIn, OfferedCup, SMTT(60) DEF From40D1
  <1>2. \A o \in {<<\h4202, "GET">>, <<\h4204, "SYNC">>, <<\h4205, "DOWNLOAD">>,
                 <<\h4206, "HEART_BEAT">>} :
          Offered(From40D1, o[1], o[2])
    BY OfferedIn, OfferedCup, SMTT(60) DEF From40D1
  <1>3. \A o \in {<<\h4207, "DETECTION">>, <<\h4208, "GET">>, <<\h4209, "SET">>, <<\h420A, "GET">>} :
          Offered(From40D1, o[1], o[2])
    BY OfferedIn, OfferedCup, SMTT(60) DEF From40D1
  <1> QED BY <1>1, <1>2, <1>3 DEF Ends40D1

LEMMA Offered420B == \A o \in Ends420B : Offered(From420B, o[1], o[2])
  <1>1. \A o \in {<<\h420B, "SET">>, <<\h420C, "SET">>, <<\h420D, "GET">>, <<\h420E, "SET">>} :
          Offered(From420B, o[1], o[2])
    BY OfferedIn, OfferedCup, SMTT(60) DEF From420B
  <1>2. \A o \in {<<\h420F, "SET">>, <<\h4211, "GET">>, <<\h4212, "SET">>, <<\h4213, "GET">>} :
          Offered(From420B, o[1], o[2])
    BY OfferedIn, OfferedCup, SMTT(60) DEF From420B
  <1>3. \A o \in {<<\h4214, "SET">>, <<\h4215, "GET">>, <<\h4216, "SET">>, <<\h4217, "REMOVE">>} :
          Offered(From420B, o[1], o[2])
    BY OfferedIn, OfferedCup, SMTT(60) DEF From420B
  <1> QED BY <1>1, <1>2, <1>3 DEF Ends420B

LEMMA Offered4218 == \A o \in Ends4218 : Offered(From4218, o[1], o[2])
  <1>1. \A o \in {<<\h4218, "MODIFY">>, <<\h4219, "GET">>, <<\h421A, "SET">>, <<\h421B, "GET">>} :
          Offered(From4218, o[1], o[2])
    BY OfferedIn, OfferedCup, SMTT(60) DEF From4218
  <1>2. \A o \in {<<\h421C, "SET">>, <<\h421D, "GET">>, <<\h421E, "SET">>, <<\h4220, "REMOVE">>} :
          Offered(From4218, o[1], o[2])
    BY OfferedIn, OfferedCup, SMTT(60) DEF From4218
  <1>3. \A o \in {<<\h4221, "REMOVE">>, <<\h4222, "GET">>, <<\h4223, "SET">>, <<\h4224, "GET">>} :
          Offered(From4218, o[1], o[2])
    BY OfferedIn, OfferedCup, SMTT(60) DEF From4218
  <1> QED BY <1>1, <1>2, <1>3 DEF Ends4218

LEMMA Offered4225 == \A o \in Ends4225 : Offered(From4225, o[1], o[2])
  <1>1. \A o \in {<<\h4225, "SET">>, <<\h4226, "GET">>, <<\h4227, "SET">>, <<\h4228, "GET">>} :
          Offered(From4225, o[1], o[2])
    BY OfferedIn, OfferedCup, SMTT(60) DEF From4225
  <1>2. \A o \in {<<\h4229, "GET">>, <<\h422A, "SET">>, <<\h422B, "GET">>, <<\h422C, "SET">>} :
          Offered(From4225, o[1], o[2])
    BY OfferedIn, OfferedCup, SMTT(60) DEF From4225
  <1>3. \A o \in {<<\h422D, "GET">>, <<\h422E, "BUILD">>, <<\h422F, "GET">>, <<\h4230, "GET">>} :
          Offered(From4225, o[1], o[2])
    BY OfferedIn, OfferedCup, SMTT(60) DEF From4225
  <1> QED BY <1>1, <1>2, <1>3 DEF Ends4225

LEMMA Offered4231 == \A o \in Ends4231 : Offered(From4231, o[1], o[2])
  <1>1. \A o \in {<<\h4231, "ADD">>, <<\h4232, "REMOVE">>, <<\h4233, "MODIFY">>, <<\h4234, "GET">>} :
          Offered(From4231, o[1], o[2])
    BY OfferedIn, OfferedCup, SMTT(60) DEF From4231
  <1>2. \A o \in {<<\h4235, "GET">>, <<\h4236, "UNBLOCK">>, <<\h4237, "UPDATE">>,
                 <<\h4238, "SET">>} :
          Offered(From4231, o[1], o[2])
    BY OfferedIn, OfferedCup, SMTT(60) DEF From4231
  <1>3. \A o \in {<<\h4239, "GET">>, <<\h423A, "GET">>, <<\h423B, "ADD">>, <<\h423C, "REMOVE">>} :
          Offered(From4231, o[1], o[2])
    BY OfferedIn, OfferedCup, SMTT(60) DEF From4231
  <1> QED BY <1>1, <1>2, <1>3 DEF Ends4231

LEMMA Offered423D == \A o \in Ends423D : Offered(From423D, o[1], o[2])
  <1>1. \A o \in {<<\h423D, "GET">>, <<\h424A, "GET">>, <<\h424B, "SET">>, <<\h424C, "GET">>} :
          Offered(From423D, o[1], o[2])
    BY OfferedIn, OfferedCup, SMTT(60) DEF From423D
  <1>2. \A o \in {<<\h424D, "SET">>, <<\h424E, "GET">>, <<\h424F, "SCAN">>, <<\h4250, "OPTIMIZE">>} :
          Offered(From423D, o[1], o[2])
    BY OfferedIn, OfferedCup, SMTT(60) DEF From423D
  <1>3. \A o \in {<<\h4251, "GET">>, <<\h4252, "SET">>, <<\h4253, "TRANSFER_OWNERSHIP">>,
                 <<\h4301, "GET">>} :
          Offered(From423D, o[1], o[2])
    BY OfferedIn, OfferedCup, SMTT(60) DEF From423D
  <1> QED BY <1>1, <1>2, <1>3 DEF Ends423D

LEMMA ListedAlone ==
  ASSUME NEW a \in ListedOpcodes, NEW b \in ListedOpcodes, a.code = b.code
  PROVE  a = b
  BY Group0000, Group4003, Group4009, Group4015, Group4021, Group402D, Group4039, Group4045,
     Group4060, Group4082, Group4090, Group40D1, Group420B, Group4218, Group4225, Group4231,
     Group423D
     DEF ListedOpcodes

\* What the rows have in common.
LEMMA ListedRight ==
  ASSUME NEW op \in ListedOpcodes
  PROVE  IsStem(op.stem) /\ \E codes : Placed(op, codes)
  BY Group0000, Group4003, Group4009, Group4015, Group4021, Group402D, Group4039, Group4045,
     Group4060, Group4082, Group4090, Group40D1, Group420B, Group4218, Group4225, Group4231,
     Group423D
     DEF ListedOpcodes

ListedEnds ==
  Ends0000 \cup Ends4003 \cup Ends4009 \cup Ends4015 \cup Ends4021 \cup Ends402D \cup Ends4039
  \cup Ends4045 \cup Ends4060 \cup Ends4082 \cup Ends4090 \cup Ends40D1 \cup Ends420B \cup Ends4218
  \cup Ends4225 \cup Ends4231 \cup Ends423D

LEMMA EndsOffered == \A o \in ListedEnds : Offered(ListedOpcodes, o[1], o[2])
  <1>1. ASSUME NEW ops, ops \subseteq ListedOpcodes, NEW o, Offered(ops, o[1], o[2])
        PROVE  Offered(ListedOpcodes, o[1], o[2])
    BY <1>1 DEF Offered
  <1> QED
    BY <1>1,
       Offered0000, Offered4003, Offered4009, Offered4015, Offered4021, Offered402D,
       Offered4039, Offered4045, Offered4060, Offered4082, Offered4090, Offered40D1,
       Offered420B, Offered4218, Offered4225, Offered4231, Offered423D
    DEF ListedEnds, ListedOpcodes

\* The registry keeps one opcode for a code.
LEMMA OneOpcode ==
  ASSUME NEW op \in TMP_OPCODE_CATALOG
  PROVE  op.code \in TMP_CODES /\ get_tmp_opcode[op.code] = op
  <1>1. op.code \in TMP_CODES
    BY DEF TMP_CODES
  <1>2. ASSUME NEW other \in TMP_OPCODE_CATALOG, other.code = op.code
        PROVE  other = op
    <2>1. CASE op \in ListedOpcodes
      <3>1. other \in ListedOpcodes
        BY <1>2, <2>1, RegistryAssumption DEF TMP_OPCODE_CATALOG, ListedCodes
      <3> QED BY <1>2, <2>1, <3>1, ListedAlone
    <2>2. CASE op \in OtherOpcodes
      <3>1. other \in OtherOpcodes
        BY <1>2, <2>2, RegistryAssumption DEF TMP_OPCODE_CATALOG, ListedCodes
      <3> QED BY <1>2, <2>2, <3>1, RegistryAssumption
    <2> QED BY <2>1, <2>2 DEF TMP_OPCODE_CATALOG
  <1>3. get_tmp_opcode[op.code] = CHOOSE other \in TMP_OPCODE_CATALOG : other.code = op.code
    BY <1>1 DEF get_tmp_opcode
  <1> QED BY <1>1, <1>2, <1>3

\* A listed code finds its row, and no opcode of the registry file but that one.
LEMMA ListedOpcode ==
  ASSUME NEW code, NEW verb, <<code, verb>> \in ListedEnds
  PROVE  /\ code \in TMP_CODES
         /\ get_tmp_opcode[code] \in ListedOpcodes
         /\ get_tmp_opcode[code].code = code /\ get_tmp_opcode[code].verb = verb
         /\ \A op \in TMP_OPCODE_CATALOG : op.code = code => op = get_tmp_opcode[code]
  <1> DEFINE o == <<code, verb>>
  <1>1. o[1] = code /\ o[2] = verb
    OBVIOUS
  <1>2. Offered(ListedOpcodes, o[1], o[2])
    BY EndsOffered
  <1> HIDE DEF o
  <1>3. PICK op \in ListedOpcodes : op.code = code /\ op.verb = verb
    BY <1>1, <1>2 DEF Offered
  <1>4. op \in TMP_OPCODE_CATALOG
    BY DEF TMP_OPCODE_CATALOG
  <1> QED BY <1>3, <1>4, OneOpcode

LEMMA StemOf ==
  ASSUME NEW op \in TMP_OPCODE_CATALOG
  PROVE  IsStem(op.stem)
  BY ListedRight, RegistryAssumption DEF TMP_OPCODE_CATALOG, IsStem

LEMMA CutByCode ==
  ASSUME NEW op \in ListedOpcodes
  PROVE  Cut(op) <=> op.code \in CutCodes
  BY ListedRight DEF Placed, Cut, Words

-----------------------------------------------------------------------------
(* What undoes a TMP write.                                                *)

\* The tables of the planner refer to listed opcodes: each shows with a read.
LEMMA PreflightTable ==
  ASSUME NEW p \in PreflightReads
  PROVE  /\ \E verb : <<p[1], verb>> \in ListedEnds
         /\ <<p[2], "GET">> \in ListedEnds
         /\ p[1] \in CutCodes <=> p[2] \in CutCodes
  <1>1. \E verb : <<p[1], verb>> \in ListedEnds
    BY SMTT(60)
       DEF PreflightReads, Reading, ListedEnds,
           Ends0000, Ends4003, Ends4009, Ends4015, Ends4021, Ends402D, Ends4039, Ends4045,
           Ends4060, Ends4082, Ends4090, Ends40D1, Ends420B, Ends4218, Ends4225, Ends4231,
           Ends423D
  <1>2. <<p[2], "GET">> \in ListedEnds
    BY SMTT(60)
       DEF PreflightReads, Reading, ListedEnds,
           Ends0000, Ends4003, Ends4009, Ends4015, Ends4021, Ends402D, Ends4039, Ends4045,
           Ends4060, Ends4082, Ends4090, Ends40D1, Ends420B, Ends4218, Ends4225, Ends4231,
           Ends423D
  <1>3. p[1] \in CutCodes <=> p[2] \in CutCodes
    BY SMTT(60) DEF PreflightReads, Reading, CutCodes
  <1> QED BY <1>1, <1>2, <1>3

LEMMA PairTable ==
  ASSUME NEW pair \in Pairs, NEW code \in pair
  PROVE  \E verb \in {"ADD", "REMOVE", "DELETE", "BLOCK", "UNBLOCK"} : <<code, verb>> \in ListedEnds
  BY SMTT(60)
     DEF Pairs, ListedEnds,
           Ends0000, Ends4003, Ends4009, Ends4015, Ends4021, Ends402D, Ends4039, Ends4045,
           Ends4060, Ends4082, Ends4090, Ends40D1, Ends420B, Ends4218, Ends4225, Ends4231,
           Ends423D

\* Reading off the planner's tables: both are functions of the code.
LEMMA CuratedPair ==
  ASSUME NEW op, NEW code
  PROVE  code \in CuratedPreflight(op) <=> \E p \in PreflightReads : p[1] = op.code /\ p[2] = code
  BY DEF CuratedPreflight

LEMMA CuratedTold ==
  ASSUME NEW op, NEW read, <<op.code, read>> \in PreflightReads,
         \A p \in PreflightReads : p[1] = op.code => p[2] = read
  PROVE  CuratedPreflight(op) = {read}
  <1> DEFINE p == <<op.code, read>>
  <1>1. p \in PreflightReads /\ p[1] = op.code /\ p[2] = read
    OBVIOUS
  <1> HIDE DEF p
  <1> QED BY <1>1, CuratedPair

LEMMA TheOne ==
  ASSUME NEW codes, NEW code
  PROVE  code \in The(codes) => code \in codes
  BY DEF The

\* A read and a write whose names differ by LIST have the same other words.
LEMMA ListNames ==
  ASSUME NEW op \in TMP_OPCODE_CATALOG, NEW d \in TMP_OPCODE_CATALOG,
         d.stem \in {op.stem, op.stem \o <<"LIST">>}
  PROVE  Cut(d) <=> Cut(op)
  <1>1. CASE d.stem = op.stem
    BY <1>1 DEF Cut, Words
  <1>2. CASE d.stem = op.stem \o <<"LIST">>
    <2>1. PICK S : op.stem \in Seq(S)
      BY StemOf DEF IsStem
    <2> DEFINE T == S \cup {"LIST"}
               s == op.stem
               t == <<"LIST">>
               u == s \o t
    <2>2. s \in Seq(T) /\ t \in Seq(T) /\ Len(t) = 1 /\ t[1] = "LIST"
      BY <2>1
    <2>3. /\ u \in Seq(T) /\ Len(u) = Len(s) + Len(t)
          /\ \A i \in 1 .. Len(s) + Len(t) : u[i] = IF i <= Len(s) THEN s[i] ELSE t[i - Len(s)]
      <3> HIDE DEF s, t, T
      <3> QED BY <2>2, ConcatProperties
    <2>4. Len(s) \in Nat /\ DOMAIN s = 1 .. Len(s) /\ DOMAIN u = 1 .. Len(u)
      BY <2>2, <2>3
    <2> HIDE DEF s, t, u, T
    <2>5. \A i \in DOMAIN s : i \in DOMAIN u /\ u[i] = s[i]
      BY <2>2, <2>3, <2>4
    <2>6. \A i \in DOMAIN u : (i \in DOMAIN s /\ u[i] = s[i]) \/ u[i] = "LIST"
      <3> TAKE i \in DOMAIN u
      <3>1. i \in 1 .. Len(s) \/ i = Len(s) + 1
        BY <2>2, <2>3, <2>4
      <3>2. CASE i \in 1 .. Len(s)
        BY <2>4, <2>5, <3>2
      <3>3. CASE i = Len(s) + 1
        <4>1. i \in 1 .. Len(s) + Len(t) /\ ~(i <= Len(s)) /\ i - Len(s) = 1
          BY <2>2, <2>4, <3>3
        <4> QED BY <2>2, <2>3, <4>1
      <3> QED BY <3>1, <3>2, <3>3
    <2>7. Words(d) = { u[i] : i \in DOMAIN u } /\ Words(op) = { s[i] : i \in DOMAIN s }
      BY <1>2 DEF Words, u, s, t
    <2>8. "LIST" \notin ConnectivityWords
      BY DEF ConnectivityWords
    <2> QED BY <2>5, <2>6, <2>7, <2>8 DEF Cut
  <1> QED BY <1>1, <1>2

\* A write cuts the connection exactly when the read that shows its state is of an
\* opcode that does: by name, or by the tables.
LEMMA CutAgrees ==
  ASSUME NEW op \in TMP_OPCODE_CATALOG, NEW code \in Preflight(op)
  PROVE  code \in TMP_CODES /\ (Cut(get_tmp_opcode[code]) <=> Cut(op))
  <1>1. CASE CuratedPreflight(op) # {}
    <2>1. PICK p \in PreflightReads : p[1] = op.code /\ p[2] = code
      BY <1>1, CuratedPair DEF Preflight
    <2>2. PICK verb : <<op.code, verb>> \in ListedEnds
      BY <2>1, PreflightTable
    <2>3. <<code, "GET">> \in ListedEnds /\ (op.code \in CutCodes <=> code \in CutCodes)
      BY <2>1, PreflightTable
    <2>4. op \in ListedOpcodes
      BY <2>2, ListedOpcode
    <2>5. /\ code \in TMP_CODES
          /\ get_tmp_opcode[code] \in ListedOpcodes /\ get_tmp_opcode[code].code = code
      BY <2>3, ListedOpcode
    <2> QED BY <2>3, <2>4, <2>5, CutByCode
  <1>2. CASE CuratedPreflight(op) = {}
    <2>1. code \in InferredPreflight(op)
      BY <1>2 DEF Preflight
    <2>2. PICK d \in TMP_OPCODE_CATALOG : d.stem \in {op.stem, op.stem \o <<"LIST">>} /\ d.code = code
      BY <2>1, TheOne DEF InferredPreflight
    <2>3. code \in TMP_CODES /\ get_tmp_opcode[code] = d
      BY <2>2, OneOpcode
    <2> QED BY <2>2, <2>3, ListNames
  <1> QED BY <1>1, <1>2

\* A pair of the tables: two writes whose state the same read shows.
LEMMA PairReads ==
  ASSUME NEW pair \in Pairs
  PROVE  \E read : /\ \A p \in PreflightReads : p[1] \in pair => p[2] = read
                   /\ \A a \in pair : <<a, read>> \in PreflightReads
  BY SMTT(60) DEF Pairs, PreflightReads, Reading

LEMMA PairCodes ==
  ASSUME NEW pair \in Pairs, NEW code \in pair
  PROVE  code \notin SetDispatchedCodes \cup InternalCodes
  BY DEF Pairs, SetDispatchedCodes, InternalCodes

LEMMA PairIsWrite ==
  ASSUME NEW op, op.verb \in {"ADD", "REMOVE", "DELETE", "BLOCK", "UNBLOCK"},
         op.code \notin SetDispatchedCodes \cup InternalCodes
  PROVE  IsTmpWrite(op)
  BY DEF IsTmpWrite, Safety

\* What undoes a write is a write whose state the same read shows.
LEMMA UndoSame ==
  ASSUME NEW op \in TmpWrites
  PROVE  UndoReadsSameState(op)
  <1>1. op \in TMP_OPCODE_CATALOG /\ IsTmpWrite(op)
    BY DEF TmpWrites
  <1>2. SUFFICES ASSUME NEW code \in Rollback(op)
                 PROVE  /\ code \in TMP_CODES /\ IsTmpWrite(get_tmp_opcode[code])
                        /\ Preflight(get_tmp_opcode[code]) = Preflight(op) /\ Preflight(op) # {}
    BY DEF UndoReadsSameState
  <1>3. CASE CuratedRollback(op) # {}
    <2>1. PICK pair \in Pairs : op.code \in pair /\ code \in pair
      BY <1>2, <1>3 DEF Rollback, CuratedRollback
    <2>2. PICK verb \in {"ADD", "REMOVE", "DELETE", "BLOCK", "UNBLOCK"} : <<code, verb>> \in ListedEnds
      BY <2>1, PairTable
    <2>3. /\ code \in TMP_CODES /\ get_tmp_opcode[code].code = code
          /\ get_tmp_opcode[code].verb = verb
      BY <2>2, ListedOpcode
    <2>4. code \notin SetDispatchedCodes \cup InternalCodes
      BY <2>1, PairCodes
    <2>5. IsTmpWrite(get_tmp_opcode[code])
      BY <2>3, <2>4, PairIsWrite
    <2>6. PICK read : /\ \A p \in PreflightReads : p[1] \in pair => p[2] = read
                      /\ \A a \in pair : <<a, read>> \in PreflightReads
      BY <2>1, PairReads
    <2>7. CuratedPreflight(op) = {read}
      BY <2>1, <2>6, CuratedTold
    <2>8. CuratedPreflight(get_tmp_opcode[code]) = {read}
      <3> DEFINE other == get_tmp_opcode[code]
      <3>1. /\ <<other.code, read>> \in PreflightReads
            /\ \A p \in PreflightReads : p[1] = other.code => p[2] = read
        BY <2>1, <2>3, <2>6
      <3> HIDE DEF other
      <3>2. CuratedPreflight(other) = {read}
        BY <3>1, CuratedTold
      <3> QED BY <3>2 DEF other
    <2> QED BY <2>3, <2>5, <2>7, <2>8 DEF Preflight
  <1>4. CASE CuratedRollback(op) = {} /\ op.verb \in {"SET", "MODIFY"}
    <2>1. code = op.code /\ Preflight(op) # {}
      BY <1>2, <1>4 DEF Rollback
    <2> QED BY <1>1, <2>1, OneOpcode
  <1>5. CASE CuratedRollback(op) = {} /\ op.verb \notin {"SET", "MODIFY"}
    <2>1. code \in InferredInverse(op) /\ Preflight(op) # {}
      BY <1>2, <1>5 DEF Rollback
    <2>2. PICK d \in TmpWrites : d.code = code /\ Preflight(d) = Preflight(op)
      BY <2>1, TheOne DEF InferredInverse
    <2>3. d \in TMP_OPCODE_CATALOG /\ IsTmpWrite(d)
      BY DEF TmpWrites
    <2>4. code \in TMP_CODES /\ get_tmp_opcode[code] = d
      BY <2>2, <2>3, OneOpcode
    <2> QED BY <2>1, <2>2, <2>3, <2>4
  <1> QED BY <1>3, <1>4, <1>5

LEMMA CutFlag ==
  ASSUME NEW op, NEW e
  PROVE  HasFlag(op, e, {"network_connectivity_change"}) <=> Cut(op)
  <1>1. RiskFlags(op, e)["network_connectivity_change"] = (Words(op) \cap ConnectivityWords # {})
    BY DEF RiskFlags
  <1> QED BY <1>1 DEF HasFlag, Cut

\* A candidate, and so what undoes it, leaves the connection alone.
LEMMA CandidateUndone ==
  ASSUME NEW op \in TmpWrites, NEW e, NEW flags
  PROVE  CandidateCanBeUndone(op, e, flags)
  <1>1. op \in TMP_OPCODE_CATALOG
    BY DEF TmpWrites
  <1>2. SUFFICES ASSUME TmpTier(op, e) \in TmpCandidateTiers
                 PROVE  /\ Safety(op) = "mutation" /\ ReadObserved(op) /\ Rollback(op) # {}
                        /\ \A code \in Rollback(op) :
                             ~HasFlag(get_tmp_opcode[code], e, {"network_connectivity_change"})
    BY DEF CandidateCanBeUndone
  <1>3. /\ ~TmpBlocked(op, e)
        /\ ~HasFlag(op, e, {"active_workflow_or_runtime_action", "access_or_ownership_change",
                            "network_connectivity_change", "p9_observed_collection_at_capacity",
                            "security_policy_change", "signed_app_set_dispatched_side_effect"})
    BY <1>2 DEF TmpTier, TmpCandidateTiers
  <1>4. ReadObserved(op) /\ Rollback(op) # {}
    BY <1>3 DEF TmpBlocked
  <1>5. ~Cut(op)
    <2>1. ~HasFlag(op, e, {"network_connectivity_change"})
      BY <1>3 DEF HasFlag
    <2> QED BY <2>1, CutFlag
  <1>6. ASSUME NEW code \in Rollback(op)
        PROVE  ~HasFlag(get_tmp_opcode[code], e, {"network_connectivity_change"})
    <2>1. /\ code \in TMP_CODES
          /\ Preflight(get_tmp_opcode[code]) = Preflight(op) /\ Preflight(op) # {}
      BY UndoSame DEF UndoReadsSameState
    <2>2. PICK read \in Preflight(op) : TRUE
      BY <2>1
    <2>3. get_tmp_opcode[code] \in TMP_OPCODE_CATALOG
      BY <2>1, OneOpcode DEF TMP_CODES
    <2>4. Cut(get_tmp_opcode[read]) <=> Cut(op)
      BY <1>1, <2>2, CutAgrees
    <2>5. Cut(get_tmp_opcode[read]) <=> Cut(get_tmp_opcode[code])
      BY <2>1, <2>2, <2>3, CutAgrees
    <2> QED BY <1>5, <2>4, <2>5, CutFlag
  <1>7. Safety(op) = "mutation"
    BY <1>2 DEF TmpTier, TmpCandidateTiers, TmpWrites, IsTmpWrite
  <1> QED BY <1>4, <1>6, <1>7

-----------------------------------------------------------------------------
(* The gates of the reads.                                                 *)

\* A listed read that was seen to return data, with parameters it was confirmed with.
CodeReadable(code, params) ==
  /\ <<code, "GET">> \in ListedEnds
  /\ code \notin SetDispatchedCodes
  /\ code \notin {\h0001, \h4001, \h400D, \h4024, \h4026, \h4032, \h422B, \h422D, \h4235, \h4239,
                  \h423A, \h423D, \h424A, \h424C, \h424E, \h4251, \h403B, \h4040, \h4045, \h404B,
                  \h401E}
  /\ ParamsConfirmed(code, params)

LEMMA ReadGoesThrough ==
  ASSUME NEW gates, NEW code, NEW params, CodeReadable(code, params), gates.tmp,
         code \in OpenCodes \/ gates.sensitive
  PROVE  TmpReadAllowed(gates, code, params)
  <1> DEFINE op == get_tmp_opcode[code]
  <1>1. code \in TMP_CODES /\ op \in ListedOpcodes /\ op.code = code /\ op.verb = "GET"
    BY ListedOpcode DEF CodeReadable
  <1> HIDE DEF op
  <1>2. Safety(op) = "read_only"
    BY <1>1 DEF Safety, CodeReadable
  <1>3. op.sensitivity = "secret" => gates.sensitive
    BY <1>1, ListedRight DEF Placed
  <1>4. op.code \in ListedCodes
    BY <1>1 DEF ListedCodes
  <1>5. P9Observation(op) = "returned_data"
    BY <1>1, <1>2, <1>4 DEF P9Observation, CodeReadable
  <1> QED BY <1>1, <1>2, <1>3, <1>5 DEF TmpReadAllowed, CodeReadable, op

RouteReadable(route) ==
  /\ CodeReadable(route.tmp, TmpParams(route.cap))
  /\ route.sens # "secret" => route.tmp \in OpenCodes

LEMMA HttpRoutesReadable == \A route \in HttpRoutes : RouteReadable(route)
  BY SMTT(60)
     DEF HttpRoutes, HttpRoute, RouteReadable, CodeReadable, ParamsConfirmed, ConfirmedParams,
         TmpParams, ProfileReads, OpenCodes, SetDispatchedCodes, ListedEnds,
           Ends0000, Ends4003, Ends4009, Ends4015, Ends4021, Ends402D, Ends4039, Ends4045,
           Ends4060, Ends4082, Ends4090, Ends40D1, Ends420B, Ends4218, Ends4225, Ends4231,
           Ends423D

LEMMA TmpNetworkRoutesReadable == \A route \in TmpNetworkRoutes : RouteReadable(route)
  BY SMTT(60)
     DEF TmpNetworkRoutes, TmpRoute, RouteReadable, CodeReadable, ParamsConfirmed, ConfirmedParams,
         TmpParams, ProfileReads, OpenCodes, SetDispatchedCodes, ListedEnds,
           Ends0000, Ends4003, Ends4009, Ends4015, Ends4021, Ends402D, Ends4039, Ends4045,
           Ends4060, Ends4082, Ends4090, Ends40D1, Ends420B, Ends4218, Ends4225, Ends4231,
           Ends423D

LEMMA TmpRoutesReadable == \A route \in TmpRoutes : RouteReadable(route)
  <1> DEFINE others == TmpRoutes \ TmpNetworkRoutes
  <1>1. \A route \in others : RouteReadable(route)
    BY SMTT(60)
       DEF TmpRoutes, TmpRoute, RouteReadable, CodeReadable, ParamsConfirmed, ConfirmedParams,
           TmpParams, ProfileReads, OpenCodes, SetDispatchedCodes, ListedEnds,
           Ends0000, Ends4003, Ends4009, Ends4015, Ends4021, Ends402D, Ends4039, Ends4045,
           Ends4060, Ends4082, Ends4090, Ends40D1, Ends420B, Ends4218, Ends4225, Ends4231,
           Ends423D
  <1> QED BY <1>1, TmpNetworkRoutesReadable

\* The reads of one profile; they have no route.
LEMMA ProfileReadable ==
  ASSUME NEW cap \in ProfileReads
  PROVE  CodeReadable(TmpOperation[cap], TmpParams(cap))
  <1>1. \/ TmpOperation[cap] = \h402D \/ TmpOperation[cap] = \h402F \/ TmpOperation[cap] = \h4031
    BY DEF ProfileReads, TmpOperation, ParentalOperation
  <1>2. TmpParams(cap) = {"owner_id"}
    BY DEF TmpParams, ProfileReads
  <1>3. \A code \in {\h402D, \h402F, \h4031} : CodeReadable(code, {"owner_id"})
    BY SMTT(60)
       DEF CodeReadable, ParamsConfirmed, ConfirmedParams, SetDispatchedCodes, ListedEnds,
           Ends0000, Ends4003, Ends4009, Ends4015, Ends4021, Ends402D, Ends4039, Ends4045,
           Ends4060, Ends4082, Ends4090, Ends40D1, Ends420B, Ends4218, Ends4225, Ends4231,
           Ends423D
  <1> QED BY <1>1, <1>2, <1>3

\* What is sent over HTTP for a route: a read of the catalogue, no more sensitive.
HttpReadable(route) ==
  route.primary = "http" =>
    /\ route.http \in Routed
    /\ route.sens # "secret" => route.http \in OpenReads

LEMMA HttpRoutesSent == \A route \in CAPABILITY_ROUTES : HttpReadable(route)
  BY DEF CAPABILITY_ROUTES, HttpRoutes, HttpRoute, TmpRoutes, TmpNetworkRoutes, TmpRoute,
         HttpReadable, Routed, OpenReads

LEMMA GatesSuffice ==
  ASSUME NEW gates \in Gates, NEW cap
  PROVE  GatesCover(gates, cap)
  <1> DEFINE route == get_capability_route[cap]
  <1>1. ASSUME cap \in Capabilities, GateOpen(gates, cap)
        PROVE  /\ route.primary = "http" =>
                    /\ route.http \in EndpointNames
                    /\ LET endpoint == get_endpoint[route.http]
                       IN  /\ endpoint.safety = "read_only" /\ JsonCallSupported(endpoint)
                           /\ endpoint.sens = "secret" => gates.sensitive
                           /\ missing_params(endpoint.name, {}) = {}
               /\ gates.tmp => TmpReadAllowed(gates, TmpOperation[cap], TmpParams(cap))
    <2>1. route \in CAPABILITY_ROUTES /\ route.cap = cap
      <3>1. route = CHOOSE r \in CAPABILITY_ROUTES : r.cap = cap
        BY <1>1 DEF get_capability_route
      <3>2. \E r \in CAPABILITY_ROUTES : r.cap = cap
        BY <1>1 DEF Capabilities
      <3> HIDE DEF route
      <3> QED BY <3>1, <3>2
    <2>2. TmpOperation[cap] = route.tmp
      BY <1>1, RouteFound DEF RouteTellsTheTruth
    <2>3. RouteReadable(route)
      BY <2>1, HttpRoutesReadable, TmpRoutesReadable DEF CAPABILITY_ROUTES
    <2>4. route.sens = "secret" => gates.sensitive
      BY <1>1 DEF GateOpen
    <2>5. ASSUME gates.tmp
          PROVE  TmpReadAllowed(gates, TmpOperation[cap], TmpParams(cap))
      <3> HIDE DEF route
      <3> QED BY <2>1, <2>2, <2>3, <2>4, <2>5, ReadGoesThrough DEF RouteReadable
    <2>6. ASSUME route.primary = "http"
          PROVE  /\ route.http \in EndpointNames
                 /\ LET endpoint == get_endpoint[route.http]
                    IN  /\ endpoint.safety = "read_only" /\ JsonCallSupported(endpoint)
                        /\ endpoint.sens = "secret" => gates.sensitive
                        /\ missing_params(endpoint.name, {}) = {}
      <3> HIDE DEF route
      <3>1. /\ route.http \in Routed
            /\ route.sens # "secret" => route.http \in OpenReads
        BY <2>1, <2>6, HttpRoutesSent DEF HttpReadable
      <3> DEFINE endpoint == get_endpoint[route.http]
      <3>2. /\ route.http \in EndpointNames
            /\ endpoint \in ENDPOINT_CATALOG /\ endpoint.name = route.http
        BY <3>1, NamedCatalogued
      <3>3. EndpointRight(route.http, endpoint.auth, endpoint.kind, endpoint.safety, endpoint.sens)
        BY <3>2, CatalogRight
      <3>4. missing_params(route.http, {}) = {}
        BY <3>1, ShownTakesNothing
      <3> HIDE DEF endpoint
      <3>5. /\ endpoint.safety = "read_only" /\ JsonCallSupported(endpoint)
            /\ endpoint.sens = "secret" => gates.sensitive
        BY <2>4, <3>1, <3>3 DEF EndpointRight, JsonCallSupported, generic_call_supported
      <3> QED BY <3>2, <3>4, <3>5 DEF endpoint
    <2> QED BY <2>5, <2>6
  <1>2. ASSUME cap \in ProfileReads, ProfileGateOpen(gates)
        PROVE  TmpReadAllowed(gates, TmpOperation[cap], TmpParams(cap))
    BY <1>2, ProfileReadable, ReadGoesThrough DEF ProfileGateOpen
  <1> QED BY <1>1, <1>2 DEF GatesCover

\* The bulk read's requests and the confirmed parameters, code by code.
LEMMA BulkReads ==
  ASSUME NEW code
  PROVE  BulkReadComplete(code)
  <1> DEFINE requests == ParameterizedRequests(code)
             confirmed == ConfirmedParams(code)
  <1>1. CASE code \in OwnerParameterized
    <2>1. requests = {{"owner_id"}}
      BY <1>1 DEF ParameterizedRequests
    <2>2. {"owner_id"} \in confirmed
      BY <1>1 DEF ConfirmedParams, OwnerParameterized
    <2> HIDE DEF requests, confirmed
    <2>3. requests # {} /\ confirmed # {} /\ requests \subseteq confirmed
      BY <2>1, <2>2
    <2> QED BY <2>3 DEF BulkReadComplete, requests, confirmed
  <1>2. CASE code \notin OwnerParameterized
    <2>1. requests = confirmed
      BY <1>2 DEF ParameterizedRequests, ConfirmedParams, OwnerParameterized
    <2> QED BY <2>1 DEF BulkReadComplete
  <1> QED BY <1>1, <1>2

-----------------------------------------------------------------------------
(* The HTTP candidates.                                                    *)

LEMMA HttpCandidates ==
  ASSUME NEW e \in P9_MUTATION_CANDIDATES, NEW scope, NEW readable
  PROVE  HttpCandidateCanBeUndone(e.name, scope, readable)
  <1> DEFINE n == e.name
  <1>1. SUFFICES ASSUME HttpTier(n, scope, readable) \in {"priority_noop_candidate", "roundtrip_candidate"}
                 PROVE  /\ get_endpoint[n].safety = "mutation"
                        /\ PreflightRead(n) # {} /\ PreflightRead(n) \subseteq readable
                        /\ n \in LivePreflights
                        /\ RollbackOperation(n) # {} /\ RollbackOperation(n) \cap ConnectivityNames = {}
    BY DEF HttpCandidateCanBeUndone
  <1> HIDE DEF n
  <1>2. /\ n \notin ConnectivityNames /\ n \notin OtherHighRiskNames
        /\ ~HttpBlocked(n, readable)
    BY <1>1 DEF HttpTier
  <1>3. /\ PreflightRead(n) # {} /\ PreflightRead(n) \subseteq readable
        /\ n \in LivePreflights
    BY <1>2 DEF HttpBlocked
  <1>4. get_endpoint[n].safety = "mutation"
    BY <1>3, NamedCatalogued, CatalogRight DEF EndpointRight
  <1>5. RollbackOperation(n) = {Undoing(n)}
    BY <1>3, UndoingIsRollback
  <1>6. Undoing(n) \notin ConnectivityNames
    BY <1>2, <1>3, LiveNames DEF Undoing, ConnectivityNames
  <1> QED BY <1>3, <1>4, <1>5, <1>6

LEMMA FixedNoOps == FixedNoOpsAgree
  <1>1. ASSUME NEW route \in MutationRoutes
        PROVE  /\ route.write \in LivePreflights
               /\ Undoing(route.write) = route.write
               /\ PreflightRead(route.write) = {route.preflight}
    <2>1. route.write \in LivePreflights
      BY LiveNames DEF MutationRoutes
    <2>2. Undoing(route.write) = route.write
      BY DEF MutationRoutes, Undoing
    <2>3. /\ route.preflight \in FormReads
          /\ route.preflight[1] = route.write[1] /\ route.preflight[2] = route.write[2]
      BY DEF MutationRoutes, FormReads, Reads
    <2>4. \A read \in FormReads :
            read[1] = route.write[1] /\ read[2] = route.write[2] => read = route.preflight
      BY DEF MutationRoutes, FormReads, Reads, Client
    <2> QED BY <2>1, <2>2, <2>3, <2>4 DEF PreflightRead
  <1> QED BY <1>1, UndoingIsRollback DEF FixedNoOpsAgree

-----------------------------------------------------------------------------
\* A write whose preflight passed, having seen what it takes to judge (SawEnough),
\* does what its plan says, is reported as without effect exactly when it has none, and
\* can be undone with what the preflight kept (preflight_mutation): for tables of any
\* size and limit, blacklists of any size, any values of a setting, whatever the answer
\* left out and whatever old_mac names.
THEOREM WritesReversible == Spec => []PassedIsReversible
  <1>1. Init => PassedIsReversible
    BY DEF Init, PassedIsReversible, About
  <1>2. ASSUME PassedIsReversible, [Next]_question
        PROVE  PassedIsReversible'
    <2>1. CASE AskReservation
      <3>1. PICK op \in {"add", "modify", "remove"}, table \in Tables :
              \E params \in ReservationParams, answer \in TableAnswers(table) :
                question' = <<"reservation", op, params, table, answer>>
        BY <2>1 DEF AskReservation
      <3>2. PICK params \in ReservationParams, answer \in TableAnswers(table) :
              question' = <<"reservation", op, params, table, answer>>
        BY <3>1
      <3>3. ReservationReversible(op, params, table, answer)
        BY Reservations
      <3> QED BY <3>2, <3>3 DEF PassedIsReversible, About
    <2>2. CASE AskBlacklist
      <3>1. PICK op \in {"add", "remove"}, entries \in Blacklists,
                 params \in [mac : Spelled, name : Values \cup {None}] :
              \E answer \in BlacklistAnswers(entries) :
                question' = <<"blacklist", op, params, entries, answer>>
        BY <2>2 DEF AskBlacklist
      <3>2. PICK answer \in BlacklistAnswers(entries) :
              question' = <<"blacklist", op, params, entries, answer>>
        BY <3>1
      <3>3. BlacklistReversible(op, params, entries, answer)
        BY Blacklistings
      <3> QED BY <3>2, <3>3 DEF PassedIsReversible, About
    <2>3. CASE AskSetting
      <3>1. PICK n \in SettingWrites :
              \E params \in [SettingKeys(n) -> Values], state \in [SettingKeys(n) -> Values \cup {None}] :
                question' = <<"setting", n, params, state>>
        BY <2>3 DEF AskSetting
      <3>2. PICK params \in [SettingKeys(n) -> Values], state \in [SettingKeys(n) -> Values \cup {None}] :
              question' = <<"setting", n, params, state>>
        BY <3>1
      <3>3. SettingReversible(n, params, state)
        BY Settings
      <3> QED BY <3>2, <3>3 DEF PassedIsReversible, About
    <2>4. CASE AskCapability \/ AskOpcode \/ AskBulkRead \/ AskOperation \/ AskPlan \/ AskCandidate
      <3>1. ~About("reservation")' /\ ~About("blacklist")' /\ ~About("setting")'
        BY <2>4
           DEF AskCapability, AskOpcode, AskBulkRead, AskOperation, AskPlan, AskCandidate,
               About
      <3> QED BY <3>1 DEF PassedIsReversible
    <2>5. CASE Answer
      BY <2>5 DEF Answer, PassedIsReversible, About
    <2>6. CASE question' = question
      BY <1>2, <2>6 DEF PassedIsReversible, About
    <2> QED BY <1>2, <2>1, <2>2, <2>3, <2>4, <2>5, <2>6 DEF Next
  <1> QED BY <1>1, <1>2, PTL DEF Spec

\* A plan is ready exactly when the executor goes ahead with it, the inventory calls
\* the operation eligible exactly when some parameters make its plan ready, and a plan
\* never lets another operation through (build_mutation_plan, execute_mutation_plan,
\* catalog_inventory): for every write of the catalogue, every scope and all gates.
THEOREM PlansAndExecutorAgree == Spec => []PlansAgreeWithExecutor
  <1>1. Init => PlansAgreeWithExecutor
    BY DEF Init, PlansAgreeWithExecutor, About
  <1>2. ASSUME PlansAgreeWithExecutor, [Next]_question
        PROVE  PlansAgreeWithExecutor'
    <2>1. CASE AskPlan
      <3>1. PICK endpoint \in MUTATION_ENDPOINTS, scope \in Scopes, gates \in WriteGates :
              question' = <<"plan", endpoint.name, scope, gates>>
        BY <2>1 DEF AskPlan
      <3>2. PlanAgreesWithExecutor(endpoint.name, scope, gates)
        BY PlansAndExecutor
      <3> QED BY <3>1, <3>2 DEF PlansAgreeWithExecutor, About
    <2>2. CASE AskCapability \/ AskOpcode \/ AskBulkRead \/ AskOperation
               \/ AskReservation \/ AskBlacklist \/ AskSetting \/ AskCandidate
      <3>1. ~About("plan")'
        BY <2>2 DEF AskCapability, AskOpcode, AskBulkRead, AskOperation, AskReservation,
                    AskBlacklist, AskSetting, AskCandidate, About
      <3> QED BY <3>1 DEF PlansAgreeWithExecutor
    <2>3. CASE Answer
      BY <2>3 DEF Answer, PlansAgreeWithExecutor, About
    <2>4. CASE question' = question
      BY <1>2, <2>4 DEF PlansAgreeWithExecutor, About
    <2> QED BY <1>2, <2>1, <2>2, <2>3, <2>4 DEF Next
  <1> QED BY <1>1, <1>2, PTL DEF Spec

\* No operation of the catalogue is reachable through two of the doors (read, binary
\* read, write), none through a door that cannot carry it, a secret only with its gate,
\* and what the lists of reads promise is let through: under all gates.
THEOREM OneDoorOnly == Spec => []EachOneDoor
  <1>1. Init => EachOneDoor
    BY DEF Init, EachOneDoor, About
  <1>2. ASSUME EachOneDoor, [Next]_question
        PROVE  EachOneDoor'
    <2>1. CASE AskOperation
      <3>1. PICK n \in EndpointNames : question' = <<"operation", n>>
        BY <2>1 DEF AskOperation
      <3>2. \A reads \in ReadGates, writes \in WriteGates : OneDoor(n, reads, writes)
        BY OneDoorEach
      <3> QED BY <3>1, <3>2 DEF EachOneDoor, About
    <2>2. CASE AskCapability \/ AskOpcode \/ AskBulkRead \/ AskPlan
               \/ AskReservation \/ AskBlacklist \/ AskSetting \/ AskCandidate
      <3>1. ~About("operation")'
        BY <2>2 DEF AskCapability, AskOpcode, AskBulkRead, AskPlan, AskReservation,
                    AskBlacklist, AskSetting, AskCandidate, About
      <3> QED BY <3>1 DEF EachOneDoor
    <2>3. CASE Answer
      BY <2>3 DEF Answer, EachOneDoor, About
    <2>4. CASE question' = question
      BY <1>2, <2>4 DEF EachOneDoor, About
    <2> QED BY <1>2, <2>1, <2>2, <2>3, <2>4 DEF Next
  <1> QED BY <1>1, <1>2, PTL DEF Spec

\* The operation or the opcode an answer names as its source is the one that was sent
\* for it, over either interface (CAPABILITY_ROUTES, _read_http_capability,
\* _read_tmp_capability): for every routed capability.
THEOREM RoutesAreTrue == Spec => []RoutesTellTheTruth
  <1>1. Init => RoutesTellTheTruth
    BY DEF Init, RoutesTellTheTruth, About
  <1>2. ASSUME RoutesTellTheTruth, [Next]_question
        PROVE  RoutesTellTheTruth'
    <2>1. CASE AskCapability
      BY <2>1, RouteFound DEF AskCapability, RoutesTellTheTruth, About
    <2>2. CASE AskOpcode \/ AskBulkRead \/ AskOperation \/ AskPlan
               \/ AskReservation \/ AskBlacklist \/ AskSetting \/ AskCandidate
      <3>1. ~About("capability")'
        BY <2>2 DEF AskOpcode, AskBulkRead, AskOperation, AskPlan, AskReservation,
                    AskBlacklist, AskSetting, AskCandidate, About
      <3> QED BY <3>1 DEF RoutesTellTheTruth
    <2>3. CASE Answer
      BY <2>3 DEF Answer, RoutesTellTheTruth, About
    <2>4. CASE question' = question
      BY <1>2, <2>4 DEF RoutesTellTheTruth, About
    <2> QED BY <1>2, <2>1, <2>2, <2>3, <2>4 DEF Next
  <1> QED BY <1>1, <1>2, PTL DEF Spec

\* A read whose gates are open is not refused further in, over either interface, and
\* the bulk read has for every parameterized read it selects a request that the read was
\* confirmed with (read_capability, read_endpoint, tmp_read, p9_tmp_data): for every
\* capability, all gates, and whatever else the registry file brings.
THEOREM GatesAreEnough == Spec => []GatesCoverReads
  <1>1. Init => GatesCoverReads
    BY DEF Init, GatesCoverReads, About
  <1>2. ASSUME GatesCoverReads, [Next]_question
        PROVE  GatesCoverReads'
    <2>1. CASE AskCapability
      <3>1. PICK cap \in Capabilities \cup ProfileReads, gates \in Gates :
              question' = <<"capability", cap, gates>>
        BY <2>1 DEF AskCapability
      <3>2. GatesCover(gates, cap)
        BY GatesSuffice
      <3> QED BY <3>1, <3>2 DEF GatesCoverReads, About
    <2>2. CASE AskBulkRead
      <3>1. PICK code \in TMP_CODES : question' = <<"bulk", code>>
        BY <2>2 DEF AskBulkRead
      <3>2. BulkReadComplete(code)
        BY BulkReads
      <3> QED BY <3>1, <3>2 DEF GatesCoverReads, About
    <2>3. CASE AskOpcode \/ AskOperation \/ AskPlan
               \/ AskReservation \/ AskBlacklist \/ AskSetting \/ AskCandidate
      <3>1. ~About("capability")' /\ ~About("bulk")'
        BY <2>3 DEF AskOpcode, AskOperation, AskPlan, AskReservation,
                    AskBlacklist, AskSetting, AskCandidate, About
      <3> QED BY <3>1 DEF GatesCoverReads
    <2>4. CASE Answer
      BY <2>4 DEF Answer, GatesCoverReads, About
    <2>5. CASE question' = question
      BY <1>2, <2>5 DEF GatesCoverReads, About
    <2> QED BY <1>2, <2>1, <2>2, <2>3, <2>4, <2>5 DEF Next
  <1> QED BY <1>1, <1>2, PTL DEF Spec

\* What undoes a TMP write is a write of the catalogue, and the read that shows the state
\* before the one shows it before the other (_preflight_relationship,
\* _rollback_relationship): for every write, listed or from the registry file.
THEOREM UndoWorksOnSameState == Spec => []UndoReadsSame
  <1>1. Init => UndoReadsSame
    BY DEF Init, UndoReadsSame, About
  <1>2. ASSUME UndoReadsSame, [Next]_question
        PROVE  UndoReadsSame'
    <2>1. CASE AskOpcode
      <3>1. PICK op \in TmpWrites, e \in TmpEvidence : question' = <<"opcode", op, e>>
        BY <2>1 DEF AskOpcode
      <3>2. UndoReadsSameState(op)
        BY UndoSame
      <3> QED BY <3>1, <3>2 DEF UndoReadsSame, About
    <2>2. CASE AskCapability \/ AskBulkRead \/ AskOperation \/ AskPlan
               \/ AskReservation \/ AskBlacklist \/ AskSetting \/ AskCandidate
      <3>1. ~About("opcode")'
        BY <2>2 DEF AskCapability, AskBulkRead, AskOperation, AskPlan, AskReservation,
                    AskBlacklist, AskSetting, AskCandidate, About
      <3> QED BY <3>1 DEF UndoReadsSame
    <2>3. CASE Answer
      BY <2>3 DEF Answer, UndoReadsSame, About
    <2>4. CASE question' = question
      BY <1>2, <2>4 DEF UndoReadsSame, About
    <2> QED BY <1>2, <2>1, <2>2, <2>3, <2>4 DEF Next
  <1> QED BY <1>1, <1>2, PTL DEF Spec

\* A write offered for verification is no destructive one, its state can be read, and
\* what undoes it leaves the connection alone; the fixed no-ops write what they read
\* (_tier and _blocking_gaps of tmp_mutation_verification and http_mutation_verification):
\* for every write, all evidence, every selection, and whatever reads the P9 answers.
THEOREM CandidatesAreSafe == Spec => []CandidatesCanBeUndone
  <1>1. Init => CandidatesCanBeUndone
    BY DEF Init, CandidatesCanBeUndone, About
  <1>2. ASSUME CandidatesCanBeUndone, [Next]_question
        PROVE  CandidatesCanBeUndone'
    <2>1. CASE AskOpcode
      <3>1. PICK op \in TmpWrites, e \in TmpEvidence : question' = <<"opcode", op, e>>
        BY <2>1 DEF AskOpcode
      <3>2. \A flags \in [sensitive : BOOLEAN, deferred : BOOLEAN, destructive : BOOLEAN] :
              CandidateCanBeUndone(op, e, flags)
        BY CandidateUndone
      <3> QED BY <3>1, <3>2 DEF CandidatesCanBeUndone, About
    <2>2. CASE AskCandidate
      <3>1. PICK e \in P9_MUTATION_CANDIDATES, scope \in Scopes,
                 unread \in {{}} \cup {{r} : r \in FormReads} :
              question' = <<"candidate", e.name, scope, FormReads \ unread>>
        BY <2>2 DEF AskCandidate
      <3>2. HttpCandidateCanBeUndone(e.name, scope, FormReads \ unread)
        BY HttpCandidates
      <3> QED BY <3>1, <3>2, FixedNoOps DEF CandidatesCanBeUndone, About
    <2>3. CASE AskCapability \/ AskBulkRead \/ AskOperation \/ AskPlan
               \/ AskReservation \/ AskBlacklist \/ AskSetting
      <3>1. ~About("opcode")' /\ ~About("candidate")'
        BY <2>3 DEF AskCapability, AskBulkRead, AskOperation, AskPlan, AskReservation,
                    AskBlacklist, AskSetting, About
      <3> QED BY <3>1 DEF CandidatesCanBeUndone
    <2>4. CASE Answer
      BY <2>4 DEF Answer, CandidatesCanBeUndone, About
    <2>5. CASE question' = question
      BY <1>2, <2>5 DEF CandidatesCanBeUndone, About
    <2> QED BY <1>2, <2>1, <2>2, <2>3, <2>4, <2>5 DEF Next
  <1> QED BY <1>1, <1>2, PTL DEF Spec
=============================================================================
