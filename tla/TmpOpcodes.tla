---------------------------- MODULE TmpOpcodes ----------------------------
(***************************************************************************)
(* The catalogue of TMP opcodes and the offline plans for its writes: what *)
(* an opcode is (its class follows from the last word of its name), which  *)
(* reads the service lets through, which read tells the state a write      *)
(* changes, which opcode undoes it, and which writes are offered for       *)
(* verification.  The plans combine hand-written tables with relations     *)
(* inferred from names, and nothing compares the two.                      *)
(*                                                                         *)
(* An opcode is its code, the words of its name and, apart, the last word; *)
(* a marker of several words, as MAC_CLONE, counts as one.  The category   *)
(* and the sensitivity, which the source finds by searching the name, are  *)
(* given with the opcode.  The opcodes are those the source lists one by   *)
(* one, which its tables of relations refer to, and whatever else the      *)
(* registry file brings: the relations are inferred over all of them.      *)
(***************************************************************************)
EXTENDS Integers, Sequences, FiniteSets

CONSTANTS OtherOpcodes,  \* what the registry file has beside the listed opcodes
          OtherAnswered  \* which of their codes the P9 is on record to answer with data

\* The opcodes whose names share the words before the last: their codes and last words.
Opcodes(category, sensitivity, stem, ends) ==
  { [code |-> o[1], stem |-> stem, verb |-> o[2], category |-> category,
     sensitivity |-> sensitivity] : o \in ends }

\* The rows in the order of the source, each group named for its first code.
From0000 ==
  Opcodes("system", "private", <<>>, {<<\h0000, "UNKNOWN">>})
  \cup Opcodes("protocol", "private", <<"TOKEN">>,
          {<<\h0001, "ALLOC">>, <<\h0002, "VERIFY">>, <<\h0003, "FREE">>})
  \cup Opcodes("protocol", "private", <<"COMP">>, {<<\h4001, "NEGOTIATE">>})
  \cup Opcodes("protocol", "private", <<"COMP", "NEGOTIATE">>, {<<\h4002, "BT">>})

From4003 ==
  Opcodes("system", "private", <<"NICKNAME">>, {<<\h4003, "SET">>})
  \cup Opcodes("network", "secret", <<"IPV4">>, {<<\h4004, "GET">>, <<\h4005, "SET">>})
  \cup Opcodes("network", "secret", <<"IPV6">>, {<<\h4006, "GET">>, <<\h4007, "SET">>})
  \cup Opcodes("wireless", "secret", <<"WIRELESS">>, {<<\h4008, "SET">>})

From4009 ==
  Opcodes("wireless", "secret", <<"WIRELESS">>, {<<\h4009, "GET">>})
  \cup Opcodes("system", "private", <<"LOCATION">>, {<<\h400A, "GET">>})
  \cup Opcodes("system", "private", <<"QS_M5", "SLAVE">>, {<<\h400B, "TRY">>})
  \cup Opcodes("system", "private", <<"INTERNET">>, {<<\h400C, "GET">>})
  \cup Opcodes("system", "private", <<"BRIDGE_STATUS">>, {<<\h400D, "GET">>})
  \cup Opcodes("system", "private", <<"SYSTEM">>, {<<\h400E, "TIME">>})
  \cup Opcodes("devices", "private", <<"DEVICE", "LIST">>, {<<\h400F, "GET">>})
  \cup Opcodes("diagnostics", "private", <<"SPEEDTEST", "INFO">>, {<<\h4010, "GET">>})
  \cup Opcodes("diagnostics", "private", <<"SPEEDTEST">>, {<<\h4011, "START">>})
  \cup Opcodes("clients", "secret", <<"CLIENT", "LIST">>, {<<\h4012, "GET">>, <<\h4013, "SET">>})
  \cup Opcodes("clients", "secret", <<"CLIENT", "LIST", "SPEED">>, {<<\h4014, "GET">>})

From4015 ==
  Opcodes("clients", "secret", <<"CLIENT", "SPEED">>, {<<\h4015, "GET">>})
  \cup Opcodes("devices", "private", <<"DEVICE", "LIST">>, {<<\h4016, "REBOOT">>})
  \cup Opcodes("clients", "secret", <<"CLIENT", "LIST">>, {<<\h4017, "BLOCK">>})
  \cup Opcodes("system", "private", <<"BLOCKED", "LIST">>,
          {<<\h4018, "GET">>, <<\h4019, "UNBLOCK">>})
  \cup Opcodes("system", "private", <<"AUTO_LED">>, {<<\h401A, "GET">>, <<\h401B, "SET">>})
  \cup Opcodes("firmware", "private", <<"FW", "LATEST">>, {<<\h401C, "GET">>})
  \cup Opcodes("firmware", "private", <<"FW">>, {<<\h401D, "UPDATE">>})
  \cup Opcodes("firmware", "private", <<"FW", "PROG">>, {<<\h401E, "GET">>})
  \cup Opcodes("system", "private", <<"QS_M5", "MASTER">>, {<<\h401F, "TRY">>, <<\h4020, "SET">>})

From4021 ==
  Opcodes("system", "private", <<"QS_M5", "SLAVE">>, {<<\h4021, "SET">>})
  \cup Opcodes("devices", "private", <<"DEVICE", "LIST">>, {<<\h4022, "REMOVE">>})
  \cup Opcodes("system", "private", <<"NETWORK">>, {<<\h4023, "UNBIND">>})
  \cup Opcodes("diagnostics", "private", <<"SPEEDTEST", "HISTORY">>,
          {<<\h4024, "GET">>, <<\h4025, "CLEAR">>})
  \cup Opcodes("diagnostics", "private", <<"SPEEDTEST", "LATEST">>, {<<\h4026, "GET">>})
  \cup Opcodes("diagnostics", "private", <<"SPEEDTEST">>, {<<\h4027, "STOP">>})
  \cup Opcodes("system", "secret", <<"MESSAGE", "LIST">>, {<<\h4028, "GET">>})
  \cup Opcodes("account", "secret", <<"OWNER", "LIST">>,
          {<<\h4029, "GET">>, <<\h402A, "ADD">>, <<\h402B, "REMOVE">>})
  \cup Opcodes("account", "secret", <<"OWNER">>, {<<\h402C, "MODIFY">>})

From402D ==
  Opcodes("account", "secret", <<"OWNER">>, {<<\h402D, "GET">>})
  \cup Opcodes("parental_control", "secret", <<"PARENT_CTRL", "INTERNET">>, {<<\h402E, "BLOCK">>})
  \cup Opcodes("parental_control", "secret", <<"PARENT_CTRL", "INSIGHTS">>, {<<\h402F, "GET">>})
  \cup Opcodes("parental_control", "secret", <<"PARENT_CTRL", "WEBSITE">>, {<<\h4030, "BLOCK">>})
  \cup Opcodes("parental_control", "secret", <<"PARENT_CTRL", "HISTORY">>, {<<\h4031, "GET">>})
  \cup Opcodes("system", "private", <<"FILTER_CATEGORIES">>, {<<\h4032, "GET">>})
  \cup Opcodes("clients", "secret", <<"PARENT_CTRL", "CLIENT">>,
          {<<\h4033, "ADD">>, <<\h4034, "REMOVE">>})
  \cup Opcodes("system", "private", <<"DEFAULT", "FILTER_LEVEL">>, {<<\h4035, "GET">>})
  \cup Opcodes("qos", "private", <<"QOS_MODE">>, {<<\h4036, "GET">>, <<\h4037, "SET">>})
  \cup Opcodes("account", "secret", <<"ACCOUNT">>, {<<\h4038, "MODIFY">>})

From4039 ==
  Opcodes("system", "private", <<"PROFILE">>, {<<\h4039, "GET">>})
  \cup Opcodes("system", "private", <<"DEFAULT", "WEBSITE_APP">>, {<<\h403A, "GET">>})
  \cup Opcodes("security", "secret", <<"SECURITY", "INFO">>,
          {<<\h403B, "GET">>, <<\h403C, "SET">>})
  \cup Opcodes("security", "secret", <<"SECURITY", "HISTORY">>,
          {<<\h403D, "GET">>, <<\h403E, "CLEAR">>, <<\h403F, "REMOVE">>})
  \cup Opcodes("iot", "secret", <<"IOT", "CLIENT", "LIST">>,
          {<<\h4040, "GET">>, <<\h4041, "REMOVE">>, <<\h4042, "ADD">>, <<\h4043, "MODIFY">>,
           <<\h4044, "SCAN">>})

From4045 ==
  Opcodes("iot", "private", <<"IOT", "PRODUCT_PROFILE">>, {<<\h4045, "GET">>})
  \cup Opcodes("iot", "secret", <<"IOT", "NEST_ACCOUNT">>, {<<\h4047, "DELETE">>})
  \cup Opcodes("iot", "secret", <<"IOT", "CLIENT", "LIST", "BEGIN">>, {<<\h4048, "SCANNING">>})
  \cup Opcodes("iot", "secret", <<"IOT", "CLIENT">>, {<<\h4049, "GET">>, <<\h404A, "IDENTIFY">>})
  \cup Opcodes("iot", "secret", <<"IOT", "CLIENT", "LIST">>, {<<\h404B, "GET_BY_MODULE">>})
  \cup Opcodes("iot", "secret", <<"IOT", "CLIENT", "LIST", "END">>, {<<\h404C, "SCANNING">>})
  \cup Opcodes("iot", "private", <<"IOT_SPACE", "LIST">>,
          {<<\h4050, "GET">>, <<\h4051, "ADD">>, <<\h4052, "MODIFY">>, <<\h4053, "REMOVE">>})
  \cup Opcodes("iot", "private", <<"IOT_SPACE">>, {<<\h4054, "SET">>})

From4060 ==
  Opcodes("iot", "secret", <<"IOT", "OWNER", "LIST">>, {<<\h4060, "GET">>})
  \cup Opcodes("automation", "private", <<"ONE_CLICK", "LIST">>, {<<\h4070, "GET">>})
  \cup Opcodes("automation", "private", <<"ONE_CLICK">>, {<<\h4071, "SET">>})
  \cup Opcodes("automation", "private", <<"ONE_CLICK", "SCENE">>,
          {<<\h4073, "ADD">>, <<\h4074, "MODIFY">>})
  \cup Opcodes("automation", "private", <<"ONE_CLICK", "SCENE", "LIST">>, {<<\h4075, "REMOVE">>})
  \cup Opcodes("automation", "private", <<"ONE_CLICK", "ACTION">>,
          {<<\h4076, "ADD">>, <<\h4077, "MODIFY">>})
  \cup Opcodes("automation", "private", <<"ONE_CLICK", "ACTION", "LIST">>, {<<\h4078, "REMOVE">>})
  \cup Opcodes("automation", "private", <<"ONE_CLICK", "HISTORY">>,
          {<<\h4079, "GET">>, <<\h407A, "REMOVE">>})
  \cup Opcodes("automation", "private", <<"AUTOMATION", "TASK", "LIST">>, {<<\h4080, "GET">>})

From4082 ==
  Opcodes("automation", "private", <<"AUTOMATION", "TASK">>,
          {<<\h4082, "ADD">>, <<\h4083, "MODIFY">>})
  \cup Opcodes("automation", "private", <<"AUTOMATION", "TASK", "LIST">>,
          {<<\h4084, "REMOVE">>, <<\h408E, "MODIFY">>})
  \cup Opcodes("automation", "private", <<"AUTOMATION", "TRIGGER">>,
          {<<\h4086, "ADD">>, <<\h4087, "MODIFY">>})
  \cup Opcodes("automation", "private", <<"AUTOMATION", "TRIGGER", "LIST">>,
          {<<\h4088, "REMOVE">>})
  \cup Opcodes("automation", "private", <<"AUTOMATION", "ACTION">>,
          {<<\h4089, "ADD">>, <<\h408A, "MODIFY">>})
  \cup Opcodes("automation", "private", <<"AUTOMATION", "ACTION", "LIST">>,
          {<<\h408B, "REMOVE">>})
  \cup Opcodes("automation", "private", <<"AUTOMATION", "HISTORY">>,
          {<<\h408C, "GET">>, <<\h408D, "REMOVE">>})

From4090 ==
  Opcodes("clients", "secret", <<"CLIENT", "LIST">>, {<<\h4090, "REMOVE">>})
  \cup Opcodes("system", "private", <<"OPERATION_MODE">>, {<<\h40A0, "GET">>, <<\h40A1, "SET">>})
  \cup Opcodes("nat", "private", <<"PORT_FORWARDING", "LIST">>, {<<\h40B0, "GET">>})
  \cup Opcodes("nat", "private", <<"PORT_FORWARDING">>,
          {<<\h40B1, "ADD">>, <<\h40B2, "MODIFY">>, <<\h40B3, "DELETE">>})
  \cup Opcodes("network", "secret", <<"IP", "RESERVATION", "LIST">>,
          {<<\h40C0, "GET">>, <<\h40C1, "ADD">>, <<\h40C3, "REMOVE">>})
  \cup Opcodes("network", "secret", <<"IP", "RESERVATION">>, {<<\h40C2, "MODIFY">>})
  \cup Opcodes("cloud", "secret", <<"DDNS">>, {<<\h40D0, "GET">>})

From40D1 ==
  Opcodes("cloud", "secret", <<"DDNS">>, {<<\h40D1, "SET">>})
  \cup Opcodes("cloud", "secret", <<"MONTHLY_REPORT">>, {<<\h40E0, "GET">>})
  \cup Opcodes("system", "private", <<"ZIGBEE_COORDINATOR">>, {<<\h4100, "ELECT">>})
  \cup Opcodes("security", "secret", <<"SECURITY", "CATEGORY", "LIST">>, {<<\h4201, "GET">>})
  \cup Opcodes("security", "secret", <<"SECURITY", "RULE", "LIST">>, {<<\h4202, "GET">>})
  \cup Opcodes("system", "private", <<"ENV_VAR">>, {<<\h4204, "SYNC">>})
  \cup Opcodes("firmware", "private", <<"FW">>, {<<\h4205, "DOWNLOAD">>})
  \cup Opcodes("system", "private", <<"QS">>, {<<\h4206, "HEART_BEAT">>})
  \cup Opcodes("system", "private", <<"EPONYMOUS_NETWORK">>, {<<\h4207, "DETECTION">>})
  \cup Opcodes("wireless", "private", <<"11R">>, {<<\h4208, "GET">>, <<\h4209, "SET">>})
  \cup Opcodes("devices", "private", <<"QS_DISCOVERED", "DEVICELIST">>, {<<\h420A, "GET">>})

From420B ==
  Opcodes("devices", "private", <<"QS_BATCHES", "DEVICE_ALIAS">>, {<<\h420B, "SET">>})
  \cup Opcodes("network", "private", <<"WAN">>, {<<\h420C, "SET">>})
  \cup Opcodes("network", "private", <<"VLAN">>, {<<\h420D, "GET">>, <<\h420E, "SET">>})
  \cup Opcodes("devices", "private", <<"DEVICE", "GATEWAY">>, {<<\h420F, "SET">>})
  \cup Opcodes("network", "secret", <<"LAN_IP">>, {<<\h4211, "GET">>, <<\h4212, "SET">>})
  \cup Opcodes("network", "secret", <<"DHCP">>, {<<\h4213, "GET">>, <<\h4214, "SET">>})
  \cup Opcodes("system", "private", <<"WPS">>, {<<\h4215, "GET">>, <<\h4216, "SET">>})
  \cup Opcodes("devices", "private", <<"DEVICE", "NETWORK">>, {<<\h4217, "REMOVE">>})

From4218 ==
  Opcodes("devices", "secret", <<"DEVICE", "ACCOUNT">>, {<<\h4218, "MODIFY">>})
  \cup Opcodes("system", "private", <<"BANDWIDTH">>, {<<\h4219, "GET">>, <<\h421A, "SET">>})
  \cup Opcodes("wireless", "private", <<"BEAMFORMING">>, {<<\h421B, "GET">>, <<\h421C, "SET">>})
  \cup Opcodes("nat", "private", <<"SIP_ALG">>, {<<\h421D, "GET">>, <<\h421E, "SET">>})
  \cup Opcodes("parental_control", "secret", <<"PARENT_CTRL", "INSIGHTS">>,
          {<<\h4220, "REMOVE">>})
  \cup Opcodes("cloud", "private", <<"MONTHLY_REPORT">>, {<<\h4221, "REMOVE">>})
  \cup Opcodes("cloud", "private", <<"MONTHLY_REPORT", "MGR">>,
          {<<\h4222, "GET">>, <<\h4223, "SET">>})
  \cup Opcodes("system", "private", <<"IPTV">>, {<<\h4224, "GET">>})

From4225 ==
  Opcodes("system", "private", <<"IPTV">>, {<<\h4225, "SET">>})
  \cup Opcodes("system", "private", <<"MAC_CLONE">>, {<<\h4226, "GET">>, <<\h4227, "SET">>})
  \cup Opcodes("diagnostics", "private", <<"SPEEDTEST", "SERVER", "LIST">>, {<<\h4228, "GET">>})
  \cup Opcodes("system", "secret", <<"MANAGER_PERMISSION">>,
          {<<\h4229, "GET">>, <<\h422A, "SET">>})
  \cup Opcodes("system", "private", <<"SCAN_SSID", "LIST">>, {<<\h422B, "GET">>})
  \cup Opcodes("system", "secret", <<"HOST_NETWORK">>, {<<\h422C, "SET">>, <<\h422D, "GET">>})
  \cup Opcodes("system", "secret", <<"FEEDBACK_LOG">>, {<<\h422E, "BUILD">>})
  \cup Opcodes("devices", "private", <<"DEVICE", "LIST", "SPEED">>, {<<\h422F, "GET">>})
  \cup Opcodes("network", "secret", <<"IPV6", "FIREWALL", "LIST">>, {<<\h4230, "GET">>})

From4231 ==
  Opcodes("network", "secret", <<"IPV6", "FIREWALL", "LIST">>,
          {<<\h4231, "ADD">>, <<\h4232, "REMOVE">>, <<\h4233, "MODIFY">>})
  \cup Opcodes("clients", "secret", <<"IPV6", "CLIENT", "LIST">>, {<<\h4234, "GET">>})
  \cup Opcodes("firmware", "private", <<"FW", "SYNC">>, {<<\h4235, "GET">>})
  \cup Opcodes("parental_control", "secret", <<"PARENT_CTRL", "WEBSITE">>,
          {<<\h4236, "UNBLOCK">>})
  \cup Opcodes("security", "secret", <<"SECURITY", "DATABASE">>, {<<\h4237, "UPDATE">>})
  \cup Opcodes("iot", "secret", <<"IOT", "CLIENT", "LIST", "MESH">>, {<<\h4238, "SET">>})
  \cup Opcodes("system", "private", <<"GA_INFO", "LIST">>, {<<\h4239, "GET">>})
  \cup Opcodes("security", "secret", <<"SECURITY", "WHITELIST">>,
          {<<\h423A, "GET">>, <<\h423B, "ADD">>, <<\h423C, "REMOVE">>})

From423D ==
  Opcodes("clients", "secret", <<"CLIENT", "LEASE">>, {<<\h423D, "GET">>})
  \cup Opcodes("nat", "private", <<"UPNP">>, {<<\h424A, "GET">>, <<\h424B, "SET">>})
  \cup Opcodes("plc", "private", <<"PLC_PAIR">>, {<<\h424C, "GET">>, <<\h424D, "SET">>})
  \cup Opcodes("security", "private", <<"HOMECARE_SERVICE", "INFO">>, {<<\h424E, "GET">>})
  \cup Opcodes("diagnostics", "private", <<"NETWORK_OPTIMIZATION">>,
          {<<\h424F, "SCAN">>, <<\h4250, "OPTIMIZE">>})
  \cup Opcodes("wireless", "secret", <<"WIRELESS", "BANDWIDTH_ENHANCE">>,
          {<<\h4251, "GET">>, <<\h4252, "SET">>})
  \cup Opcodes("devices", "secret", <<"DEVICE", "LIST">>, {<<\h4253, "TRANSFER_OWNERSHIP">>})
  \cup Opcodes("firmware", "private", <<"FWLIST", "LATEST">>, {<<\h4301, "GET">>})

\* _LEGACY_OPCODE_ROWS: the opcodes the source lists.
ListedOpcodes ==
  From0000 \cup From4003 \cup From4009 \cup From4015 \cup From4021 \cup From402D \cup From4039
  \cup From4045 \cup From4060 \cup From4082 \cup From4090 \cup From40D1 \cup From420B \cup From4218
  \cup From4225 \cup From4231 \cup From423D

ListedCodes == { op.code : op \in ListedOpcodes }

\* _load_opcode_registry keeps one operation for a code and refuses a registry that
\* names a listed code otherwise.
ASSUME RegistryAssumption ==
  \A op \in OtherOpcodes :
    /\ op \in [code : Nat, stem : Seq(STRING), verb : STRING, category : STRING, sensitivity : STRING]
    /\ op.code \notin ListedCodes
    /\ \A other \in OtherOpcodes : other.code = op.code => other = op

TMP_OPCODE_CATALOG == ListedOpcodes \cup OtherOpcodes

TMP_CODES == { op.code : op \in TMP_OPCODE_CATALOG }

get_tmp_opcode ==
  [code \in TMP_CODES |-> CHOOSE op \in TMP_OPCODE_CATALOG : op.code = code]

-----------------------------------------------------------------------------
(* What an opcode does, told from its name.                                *)

\* Three reads by name, which the mobile app sends as writes.
SetDispatchedCodes == {\h4097, \h40A5, \h4369}

InternalCodes == {\h0000, \h0001, \h0002, \h0003, \h4001, \h4002}

DestructiveWords ==
  {"REBOOT", "REMOVE", "DELETE", "CLEAR", "EJECT", "UNBIND", "TRANSFER_OWNERSHIP"}

Words(op) == { op.stem[i] : i \in DOMAIN op.stem }

AllWords(op) == Words(op) \cup {op.verb}

Safety(op) ==
  IF op.code \in SetDispatchedCodes THEN "mutation"
  ELSE IF op.verb \in {"GET", "GET_BY_MODULE"} THEN "read_only"
  ELSE IF op.code \in InternalCodes THEN "internal"
  ELSE IF \/ AllWords(op) \cap DestructiveWords # {}
          \/ op.verb \in {"UPDATE", "DOWNLOAD"} /\ op.stem # <<>> /\ op.stem[Len(op.stem)] = "FW"
  THEN "destructive"
  ELSE "mutation"

IsTmpWrite(op) == Safety(op) \in {"mutation", "destructive"}

TmpWrites == { op \in TMP_OPCODE_CATALOG : IsTmpWrite(op) }

\* What the P9 answered to the reads, and the writes tried on it.
P9Observation(op) ==
  IF op.code \in {\h0001, \h4001} THEN "accepted"
  ELSE IF Safety(op) # "read_only" THEN "untested"
  ELSE IF op.code \in {\h400D, \h4024, \h4026, \h4032, \h422B, \h422D, \h4235, \h4239, \h423A,
                       \h423D, \h424A, \h424C, \h424E, \h4251} THEN "rejected"
  ELSE IF op.code \in {\h403B, \h4040, \h4045, \h404B} THEN "payload_rejected"
  ELSE IF op.code = \h401E THEN "returned_binary"
  ELSE IF op.code \notin ListedCodes \cup OtherAnswered THEN "rejected"
  ELSE "returned_data"

SafetyNotEstablished == {\h4209, \h421C, \h4223}

\* The parameter keys a read was confirmed with; none: it takes no parameters.
ConfirmedParams(code) ==
  IF code = \h402D THEN {{"owner_id"}}
  ELSE IF code \in {\h402F, \h4031}
  THEN {{"owner_id"}, {"end_time", "owner_id", "start_time"}, {"owner_id", "page", "page_size"}}
  ELSE IF code \in {\h403A, \h4201, \h4202} THEN {{"version"}}
  ELSE IF code = \h4049 THEN {{"iot_client_list"}}
  ELSE {}

ParamsConfirmed(code, params) ==
  ConfirmedParams(code) # {} => params \in ConfirmedParams(code)

\* tmp_read: every gate that stands between a caller and an opcode.
TmpReadAllowed(gates, code, params) ==
  /\ gates.tmp
  /\ code \in TMP_CODES
  /\ LET op == get_tmp_opcode[code]
     IN  /\ Safety(op) = "read_only"
         /\ op.sensitivity = "secret" => gates.sensitive
         /\ P9Observation(op) = "returned_data"
  /\ ParamsConfirmed(code, params)

\* tmp_read_binary.
TmpBinaryAllowed(gates, code, content) ==
  /\ gates.tmp
  /\ code \in TMP_CODES
  /\ LET op == get_tmp_opcode[code]
     IN  Safety(op) = "read_only" /\ P9Observation(op) = "returned_binary"
  /\ content => gates.sensitive /\ gates.binary

\* p9_tmp_data reads whatever was seen to return data; the parameters it can
\* supply itself.
OwnerParameterized == {\h402D, \h402F, \h4031}

ParameterizedRequests(code) ==
  IF code \in OwnerParameterized THEN {{"owner_id"}}
  ELSE IF code \in {\h403A, \h4201, \h4202} THEN {{"version"}}
  ELSE IF code = \h4049 THEN {{"iot_client_list"}}
  ELSE {}

TmpDataSelected(code) == P9Observation(get_tmp_opcode[code]) = "returned_data"

-----------------------------------------------------------------------------
(* Plans: which read shows the state a write changes.                      *)

Reading(read, writes) == { <<write, read>> : write \in writes }

PreflightReads ==
  UNION { Reading(\h4004, {\h4005, \h420C}), Reading(\h4006, {\h4007}),
          Reading(\h4009, {\h4008}), Reading(\h4012, {\h4013, \h4090}),
          Reading(\h4018, {\h4017, \h4019}), Reading(\h401A, {\h401B}),
          Reading(\h4024, {\h4025}), Reading(\h4010, {\h4027}),
          Reading(\h4029, {\h402A, \h402B, \h402C}),
          Reading(\h4039, {\h402E, \h4030, \h4033, \h4034, \h4236}),
          Reading(\h4036, {\h4037}), Reading(\h403B, {\h403C}),
          Reading(\h403D, {\h403E, \h403F}), Reading(\h4040, \h4041..\h4044),
          Reading(\h4050, \h4051..\h4054),
          Reading(\h4070, {\h4071} \cup \h4073..\h4078), Reading(\h4079, {\h407A}),
          Reading(\h4080, (\h4082..\h4084) \cup (\h4086..\h408B) \cup {\h408E}),
          Reading(\h408C, {\h408D}), Reading(\h40A0, {\h40A1}),
          Reading(\h40B0, \h40B1..\h40B3), Reading(\h40C0, \h40C1..\h40C3),
          Reading(\h40D0, {\h40D1}), Reading(\h4208, {\h4209}), Reading(\h420D, {\h420E}),
          Reading(\h4211, {\h4212}), Reading(\h4213, {\h4214}), Reading(\h4215, {\h4216}),
          Reading(\h4219, {\h421A}), Reading(\h421B, {\h421C}), Reading(\h421D, {\h421E}),
          Reading(\h402F, {\h4220}), Reading(\h40E0, {\h4221}), Reading(\h4222, {\h4223}),
          Reading(\h4224, {\h4225}), Reading(\h4226, {\h4227}), Reading(\h4229, {\h422A}),
          Reading(\h422D, {\h422C}), Reading(\h4230, \h4231..\h4233),
          Reading(\h423A, {\h423B, \h423C}), Reading(\h424A, {\h424B}),
          Reading(\h424C, {\h424D}), Reading(\h4251, {\h4252}) }

ReadPairVerbs ==
  {"SET", "ADD", "MODIFY", "REMOVE", "DELETE", "CLEAR", "START", "STOP", "MARK", "BLOCK",
   "UNBLOCK", "EJECT", "SCAN", "DOWNLOAD", "SWITCH", "WAKE"}

The(codes) == IF Cardinality(codes) = 1 THEN codes ELSE {}

\* _inferred_preflight_code: the one read of the same category whose name differs
\* in the last word only, or says LIST before it.  A relation is the set of the
\* code it finds: empty when there is none, or more than one.
InferredPreflight(op) ==
  IF op.verb \notin ReadPairVerbs THEN {}
  ELSE The({ c.code : c \in { d \in TMP_OPCODE_CATALOG :
                                /\ d.verb = "GET" /\ Safety(d) = "read_only"
                                /\ d.category = op.category
                                /\ d.stem \in {op.stem, op.stem \o <<"LIST">>} } })

CuratedPreflight(op) == { p[2] : p \in { q \in PreflightReads : q[1] = op.code } }

Preflight(op) ==
  IF CuratedPreflight(op) # {} THEN CuratedPreflight(op) ELSE InferredPreflight(op)

\* Which write undoes a write.
Pairs ==
  { {\h4017, \h4019}, {\h402A, \h402B}, {\h4033, \h4034}, {\h4041, \h4042},
    {\h4051, \h4053}, {\h4073, \h4075}, {\h4076, \h4078}, {\h4082, \h4084},
    {\h40B1, \h40B3}, {\h40C1, \h40C3}, {\h4231, \h4232}, {\h423B, \h423C} }

InverseVerbs(verb) ==
  IF verb = "ADD" THEN {"REMOVE", "DELETE"}
  ELSE IF verb \in {"REMOVE", "DELETE"} THEN {"ADD"}
  ELSE IF verb = "BLOCK" THEN {"UNBLOCK"}
  ELSE IF verb = "UNBLOCK" THEN {"BLOCK"}
  ELSE IF verb = "START" THEN {"STOP"}
  ELSE IF verb = "STOP" THEN {"START"}
  ELSE {}

InferredInverseFault(op) ==
  The({ c.code : c \in { d \in TmpWrites : /\ d.category = op.category
                                          /\ d.verb \in InverseVerbs(op.verb) } })

InferredInverse(op) ==
  The({ c.code : c \in { d \in TmpWrites : /\ d.category = op.category
                                          /\ d.verb \in InverseVerbs(op.verb)
                                          /\ Preflight(d) = Preflight(op) } })

CuratedRollback(op) == UNION { pair \ {op.code} : pair \in { p \in Pairs : op.code \in p } }

Rollback(op) ==
  IF CuratedRollback(op) # {} THEN CuratedRollback(op)
  ELSE IF Preflight(op) = {} THEN {}
  ELSE IF op.verb \in {"SET", "MODIFY"} THEN {op.code}
  ELSE InferredInverse(op)

\* Whether a relation comes from the tables or from the names.
InferredRead(op) == CuratedPreflight(op) = {} /\ Preflight(op) # {}

InferredUndo(op) ==
  CuratedRollback(op) = {} /\ Rollback(op) # {} /\ op.verb \notin {"SET", "MODIFY"}

-----------------------------------------------------------------------------
(* The queue of writes offered for verification.  What the mobile app is   *)
(* known to send is evidence e: whether the parameter keys are known, how  *)
(* many there are, and whether the preflight's answer has them all.        *)

TmpEvidence == [keys : BOOLEAN, count : 0..4, missing : BOOLEAN]

InARow(op, first, second) ==
  \E i \in DOMAIN op.stem : i + 1 \in DOMAIN op.stem /\ op.stem[i] = first /\ op.stem[i + 1] = second

\* The plan's read with what the P9 answered to it.
ReadObserved(op) ==
  { P9Observation(get_tmp_opcode[code]) : code \in Preflight(op) } = {"returned_data"}

ConnectivityWords ==
  {"WAN", "WIRELESS", "LAN_IP", "DHCP", "VLAN", "IPTV", "IPV4", "IPV6", "MAC_CLONE",
   "OPERATION_MODE", "NETWORK_SEARCH", "BAND_SEARCH"}

RiskFlags(op, e) ==
  [insufficient_operational_safety_evidence |-> op.code \in SafetyNotEstablished,
   destructive_operation                    |-> Safety(op) = "destructive",
   secret_state                             |-> op.sensitivity = "secret",
   network_connectivity_change              |-> Words(op) \cap ConnectivityWords # {},
   active_workflow_or_runtime_action        |->
     \/ Words(op) \cap {"WPS", "ONE_CLICK"} # {}
     \/ AllWords(op) \cap {"SCAN", "SCANNING", "START", "STOP", "OPTIMIZE", "EXPORT", "DOWNLOAD",
                           "WAKE", "RING", "REBOOT", "SYNC", "TRANSFER_OWNERSHIP"} # {},
   structured_state_change                  |->
     \/ Words(op) \cap {"AUTOMATION", "FIREWALL", "IOT_SPACE", "OWNER", "PARENT_CTRL",
                        "PORT_FORWARDING", "RESERVATION", "WHITELIST"} # {}
     \/ InARow(op, "CLIENT", "LIST"),
   access_or_ownership_change               |->
     \/ Words(op) \cap {"ACCOUNT", "NEST_ACCOUNT", "MANAGER_PERMISSION"} # {}
     \/ InARow(op, "OWNER", "LIST") \/ op.verb = "TRANSFER_OWNERSHIP",
   security_policy_change                   |->
     Words(op) \cap {"ACCESS_CONTROL", "BLACKLIST", "FIREWALL", "SECURITY", "WHITELIST"} # {},
   p9_observed_collection_at_capacity       |-> op.code = \h40C1,
   signed_app_set_dispatched_side_effect    |-> op.code \in SetDispatchedCodes,
   inferred_preflight_relationship          |-> InferredRead(op),
   inferred_rollback_relationship           |-> InferredUndo(op),
   broad_static_parameter_union             |-> e.count > 3]

HasFlag(op, e, names) == \E name \in names : RiskFlags(op, e)[name]

TmpBlocked(op, e) ==
  Preflight(op) = {} \/ ~ReadObserved(op) \/ Rollback(op) = {} \/ ~e.keys \/ e.missing

TmpStrategy(op) ==
  IF Rollback(op) = {op.code} /\ op.verb \in {"SET", "MODIFY"} THEN "same_value_noop_then_restore"
  ELSE IF Rollback(op) # {} THEN "bounded_roundtrip_then_restore"
  ELSE "none"

TmpTierFault(op, e) ==
  IF op.code \in SafetyNotEstablished THEN "safety_not_established"
  ELSE IF Safety(op) = "destructive" THEN "destructive_excluded"
  ELSE IF TmpBlocked(op, e) THEN "evidence_blocked"
  ELSE IF TmpStrategy(op) = "bounded_roundtrip_then_restore" THEN "roundtrip_candidate"
  ELSE "secondary_noop_candidate"

TmpTier(op, e) ==
  IF op.code \in SafetyNotEstablished THEN "safety_not_established"
  ELSE IF Safety(op) = "destructive" THEN "destructive_excluded"
  ELSE IF HasFlag(op, e, {"active_workflow_or_runtime_action", "access_or_ownership_change",
                          "network_connectivity_change", "p9_observed_collection_at_capacity",
                          "security_policy_change",
                          "signed_app_set_dispatched_side_effect"}) THEN "high_risk_deferred"
  ELSE IF TmpBlocked(op, e) THEN "evidence_blocked"
  ELSE IF TmpStrategy(op) = "bounded_roundtrip_then_restore" THEN "roundtrip_candidate"
  ELSE IF op.sensitivity = "private" /\ ~HasFlag(op, e, {"structured_state_change"}) /\ e.count =< 3
  THEN "priority_noop_candidate"
  ELSE "secondary_noop_candidate"

TmpCandidateTiers ==
  {"priority_noop_candidate", "secondary_noop_candidate", "roundtrip_candidate"}

\* Selection: flags [sensitive, deferred, destructive] are the caller's.
TmpSelected(op, e, flags) ==
  /\ flags.sensitive \/ op.sensitivity # "secret"
  /\ \/ flags.deferred
     \/ TmpTier(op, e) \in TmpCandidateTiers
     \/ flags.destructive /\ TmpTier(op, e) = "destructive_excluded"
  /\ flags.destructive \/ TmpTier(op, e) # "destructive_excluded"

-----------------------------------------------------------------------------
(* Properties of one write.                                                *)

\* What undoes a write is a write of the catalogue, and the read that shows the
\* state before the one is the read that shows it before the other: the planner's
\* two tables and its two inferences from names agree.
UndoReadsSameState(op) ==
  \A code \in Rollback(op) :
    /\ code \in TMP_CODES /\ IsTmpWrite(get_tmp_opcode[code])
    /\ Preflight(get_tmp_opcode[code]) = Preflight(op) /\ Preflight(op) # {}

\* Whatever evidence is recorded, a write offered as a candidate is no destructive
\* one, its state can be read, and something undoes it that does not cut the
\* connection the undoing needs.
CandidateCanBeUndone(op, e, flags) ==
  TmpSelected(op, e, flags) /\ TmpTier(op, e) \in TmpCandidateTiers
    => /\ Safety(op) = "mutation" /\ ReadObserved(op) /\ Rollback(op) # {}
       /\ \A code \in Rollback(op) :
            ~HasFlag(get_tmp_opcode[code], e, {"network_connectivity_change"})
=============================================================================
