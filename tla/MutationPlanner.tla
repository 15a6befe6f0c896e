-------------------------- MODULE MutationPlanner --------------------------
(***************************************************************************)
(* The catalogued HTTP writes: the dry-run plan of a write, the evaluation *)
(* of its preflight, the selection of writes for verification, and the     *)
(* doors of the service an operation can go through.  The plan, its        *)
(* evaluators, the executor and the catalogue are written apart; the       *)
(* properties say that they agree.                                         *)
(***************************************************************************)
EXTENDS CapabilityRoutes

Client(form, op) == <<"admin.client", form, op>>

-----------------------------------------------------------------------------
(* The plan of a write.                                                    *)

FormReads ==
  Reads("admin.network", {"wan_mode", "lan_ip", "vlan", "mac_clone"})
  \cup Reads("admin.wireless", {"operation_mode", "ieee80211r", "beamforming"})
  \cup Reads("admin.device", {"device_list", "speedtest", "timesetting"})
  \cup Reads("locale", {"lang", "country"})
  \cup Reads("admin.cloud", {"nickname", "firmware_status"})
  \cup Reads("admin.log_export", {"feedback_log"})
  \cup {Client("black_list", "list"), Client("addr_reservation", "getlist")}

\* The read that shows the state of an operation's form; empty when none does.
PreflightRead(n) == {read \in FormReads : read[1] = n[1] /\ read[2] = n[2]}

SettingWrites ==
  { <<"admin.network", "wan_mode", "write">>, <<"admin.wireless", "ieee80211r", "write">>,
    <<"admin.wireless", "operation_mode", "write">>,
    <<"admin.wireless", "beamforming", "write">>, <<"admin.device", "timesetting", "write">> }

ReversedBy ==
  { <<n, n>> : n \in SettingWrites \cup {Client("addr_reservation", "modify")} }
  \cup { <<Client("black_list", "add"), Client("black_list", "remove")>>,
         <<Client("black_list", "remove"), Client("black_list", "add")>>,
         <<Client("addr_reservation", "add"), Client("addr_reservation", "remove")>>,
         <<Client("addr_reservation", "remove"), Client("addr_reservation", "add")>> }

RollbackOperation(n) == { pair[2] : pair \in { p \in ReversedBy : p[1] = n } }

\* What the evidence of the P9 says: which writes were tried, and how widely.
Scopes == {"none", "noop_only", "general"}

\* transport_override replaces the catalogued transport by what was observed.
TransportSupported(endpoint, override) ==
  /\ (IF override = None THEN endpoint.auth ELSE override) \in {"encrypted", "plain"}
  /\ endpoint.kind # "binary"

TransportOverride(n) ==
  IF n = <<"admin.cloud", "firmware", "download">> THEN "encrypted" ELSE None

\* The digest of a plan stands for its operation and parameters.
build_mutation_plan(n, given, scope, gates) ==
  LET endpoint == get_endpoint[n]
  IN  [name |-> n, safety |-> endpoint.safety, scope |-> scope,
       preflight_read |-> PreflightRead(n), rollback |-> RollbackOperation(n),
       parameters_valid |-> missing_params(n, given) = {},
       transport_supported |-> TransportSupported(endpoint, TransportOverride(n)),
       gate_enabled |-> gates[endpoint.safety],
       digest |-> <<n, IF given = {} THEN default_params[n] ELSE given>>]

ready_for_explicit_test(plan) ==
  /\ plan.parameters_valid /\ plan.transport_supported /\ plan.gate_enabled
  /\ plan.preflight_read # {} /\ plan.rollback # {}

-----------------------------------------------------------------------------
(* The doors.                                                              *)

\* The gates of the writes, by the class of safety they open.
WriteGates == [mutation : BOOLEAN, destructive : BOOLEAN, internal : BOOLEAN]

ReadGates == [sensitive : BOOLEAN, bulk : BOOLEAN, binary : BOOLEAN]

\* read_endpoint.
ReadDoor(gates, n, given) ==
  LET endpoint == get_endpoint[n]
  IN  /\ endpoint.safety = "read_only"
      /\ endpoint.sens = "secret" => gates.sensitive
      /\ JsonCallSupported(endpoint)
      /\ missing_params(n, given) = {}

BinaryDoorFault(gates, n, content) ==
  /\ get_endpoint[n].safety = "read_only"
  /\ get_endpoint[n].sens = "secret" => gates.sensitive
  /\ gates.bulk
  /\ content => gates.binary

\* read_binary_endpoint.
BinaryDoor(gates, n, content) ==
  LET endpoint == get_endpoint[n]
  IN  /\ endpoint.safety = "read_only" /\ endpoint.kind = "binary"
      /\ endpoint.sens = "secret" => gates.sensitive
      /\ gates.bulk
      /\ content => gates.binary

BinaryReads ==
  { <<"admin.firmware", "config", "backup">>,
    <<"admin.firmware", "config_multipart", "backup">>,
    <<"admin.log_export", "save_log", "download">> }

\* discover_p9_binary_reads: its own checks, before it goes through the door.
BulkBinaryAllowed(gates) == gates.sensitive /\ gates.bulk

WriteDoorFault(gates, n, given, scope, confirmation, digest) ==
  LET endpoint == get_endpoint[n]
  IN  /\ endpoint.safety # "read_only"
      /\ confirmation = n
      /\ endpoint.safety = "mutation" => gates.mutation
      /\ endpoint.safety = "destructive" => gates.destructive
      /\ generic_call_supported(endpoint)
      /\ missing_params(n, given) = {}
      /\ digest = build_mutation_plan(n, given, scope, gates).digest
      /\ scope = "general"

\* invoke_mutation.
WriteDoor(gates, n, given, scope, confirmation, digest) ==
  LET endpoint == get_endpoint[n]
  IN  /\ endpoint.safety # "read_only"
      /\ confirmation = n
      /\ endpoint.safety = "mutation" => gates.mutation
      /\ endpoint.safety = "destructive" => gates.destructive
      /\ endpoint.safety = "internal" => gates.internal
      /\ generic_call_supported(endpoint)
      /\ missing_params(n, given) = {}
      /\ digest = build_mutation_plan(n, given, scope, gates).digest
      /\ scope # "none" /\ scope = "general"

\* What p9_http_data reads of the operations the P9 answers, secrets only when they are
\* asked for and allowed, and what discover_p9_untested_http_reads probes of the others.
HttpDataSelected(n, include_sensitive) ==
  LET endpoint == get_endpoint[n]
  IN  /\ endpoint.safety = "read_only" /\ JsonCallSupported(endpoint)
      /\ include_sensitive \/ endpoint.sens # "secret"

UntestedSelected(n) ==
  LET endpoint == get_endpoint[n]
  IN  endpoint.safety = "read_only" /\ endpoint.sens # "secret" /\ JsonCallSupported(endpoint)

\* validate_operation, asked without parameters when given is empty.
ValidOperation(n, given) ==
  LET endpoint == get_endpoint[n]
  IN  /\ missing_params(n, given) = {}
      /\ bootstrap_call_supported(endpoint) \/ TransportSupported(endpoint, TransportOverride(n))

\* What p9_mutation_inventory reports as eligible for execution.
ExecutionEligible(gates, n, scope) ==
  LET plan == build_mutation_plan(n, {}, scope, gates)
  IN  scope = "general" /\ plan.gate_enabled /\ plan.transport_supported

-----------------------------------------------------------------------------
(* The preflights: what the read shows, whether the write may go on, and   *)
(* the parameters that will undo it.  A preflight is [passed, undo, no_op].*)
(* A hardware address has spellings: <<address, spelling>>.                *)

LivePreflights ==
  SettingWrites \cup { Client("black_list", op) : op \in {"add", "remove"} }
                \cup { Client("addr_reservation", op) : op \in {"add", "modify", "remove"} }

normalize_mac(mac) == mac[1]

is_fullFault(table) == table.max > 0 /\ Cardinality(table.rows) > table.max

is_full(table) == table.max > 0 /\ Cardinality(table.rows) >= table.max

\* old_mac may be given with any of the operations; it is None when it is not.
OldMac(params) == normalize_mac(IF params.old_mac = None THEN params.mac ELSE params.old_mac)

\* _reservation_preflight.  A table is [rows, max], a row [mac, ip], both as the
\* model of the response has them, with normalised addresses: the answer, which may
\* say less than the router's table.  The parameters are [mac, ip, old_mac].
ReservationPreflight(op, params, table) ==
  LET target    == normalize_mac(params.mac)
      old       == OldMac(params)
      mac_match == {row \in table.rows : row.mac = old}
      ip_match  == {row \in table.rows : row.ip = params.ip}
  IN  CASE op = "add" ->
             [passed |-> /\ ~is_full(table)
                         /\ \A row \in table.rows : row.mac # target
                         /\ ip_match = {},
              undo |-> None, no_op |-> FALSE]
        [] op = "modify" ->
             [passed |-> /\ old = target /\ mac_match # {}
                         /\ \A row \in ip_match : row.mac = old,
              undo |-> mac_match, no_op |-> mac_match = {[mac |-> target, ip |-> params.ip]}]
        [] op = "remove" ->
             [passed |-> mac_match # {}, undo |-> mac_match, no_op |-> FALSE]

\* _blacklist_preflight.  An entry is [mac, name], spelled as the router has it.
BlacklistPreflight(op, params, entries) ==
  LET target == normalize_mac(params.mac)
      match  == {entry \in entries : normalize_mac(entry.mac) = target}
  IN  IF op = "add"
      THEN [passed |-> match = {}, undo |-> {[mac |-> target]}]
      ELSE [passed |-> match # {},
            undo   |-> {[mac |-> target, name |-> entry.name] : entry \in match}]

\* The parameters of a setting's preflight: the evaluators of the WAN mode, the
\* two toggles, the wireless mode and the time settings.
SettingKeys(n) ==
  IF n \in {<<"admin.wireless", "ieee80211r", "write">>, <<"admin.wireless", "beamforming", "write">>}
  THEN {"enable"}
  ELSE IF n = <<"admin.device", "timesetting", "write">>
  THEN {"timezone", "continent", "tz_region"}
  ELSE {"mode"}

\* What a key reads is None when the router's answer lacks it.
SettingPreflight(n, params, state) ==
  LET current == [key \in SettingKeys(n) |-> state[key]]
  IN  [passed |-> \A key \in SettingKeys(n) : current[key] # None,
       undo |-> current, no_op |-> current = params]

-----------------------------------------------------------------------------
(* The queue of writes offered for verification.                           *)

ConnectivityNames ==
  { <<"admin.network", "wan_mode", "write">>, <<"admin.network", "lan_ip", "write">>,
    <<"admin.network", "vlan", "write">>, <<"admin.network", "vlan", "set_vlan">>,
    <<"admin.network", "mac_clone", "write">>, <<"admin.wireless", "operation_mode", "write">> }

\* The other writes with a flag that defers them: a running action, the access of
\* clients, structured state and the region.
OtherHighRiskNames ==
  { <<"admin.device", "speedtest", "write">>, <<"admin.device", "speedtest", "stop">>,
    <<"admin.device", "timesetting", "gmt">>, <<"admin.device", "device_list", "remove">>,
    <<"locale", "lang", "write">>, <<"locale", "country", "write">> }
  \cup { Client("black_list", op) : op \in {"add", "remove"} }
  \cup { Client("addr_reservation", op) : op \in {"add", "modify", "remove"} }

\* contract_source is "none".
NoParameterContract ==
  { <<"admin.device", "speedtest", "write">>, <<"admin.device", "speedtest", "stop">>,
    <<"admin.device", "timesetting", "gmt">>, <<"admin.cloud", "nickname", "write">>,
    <<"admin.cloud", "firmware_status", "upgrade">>,
    <<"admin.cloud", "firmware_status", "local_upgrade">> }

\* readable: the reads the P9 is known to answer.
HttpBlocked(n, readable) ==
  \/ PreflightRead(n) = {} \/ ~(PreflightRead(n) \subseteq readable)
  \/ RollbackOperation(n) = {}
  \/ n \notin LivePreflights
  \/ n \in NoParameterContract

HttpTier(n, scope, readable) ==
  CASE scope = "noop_only" -> "verified_noop"
    [] scope # "noop_only" /\ get_endpoint[n].safety = "destructive" -> "destructive_excluded"
    [] OTHER -> IF n \in ConnectivityNames \cup OtherHighRiskNames THEN "high_risk_deferred"
                ELSE IF HttpBlocked(n, readable) THEN "evidence_blocked"
                ELSE IF RollbackOperation(n) = {n} THEN "priority_noop_candidate"
                ELSE "roundtrip_candidate"

-----------------------------------------------------------------------------
(* Properties.                                                             *)

\* What has been tried of one write's parameters: all of them, and one missing.
Attempts(n) == {required_params[n]} \cup { required_params[n] \ {p} : p \in required_params[n] }

\* The plan a caller reviews and the executor decide alike: a write goes through
\* exactly when its plan says that parameters, transport and gate are in order and
\* the evidence is general; the inventory calls eligible exactly what can be
\* executed; and the digest of a reviewed plan opens the door to that operation
\* with those parameters alone.
PlanAgreesWithExecutor(n, scope, gates) ==
  LET Goes(m, given, digest) == WriteDoor(gates, m, given, scope, m, digest)
      Plan(given) == build_mutation_plan(n, given, scope, gates)
  IN  /\ \A given \in Attempts(n) :
           Goes(n, given, Plan(given).digest)
             <=> LET plan == Plan(given)
                 IN  /\ plan.parameters_valid /\ plan.transport_supported
                     /\ plan.gate_enabled /\ plan.scope = "general"
      /\ ExecutionEligible(gates, n, scope)
           <=> \E given \in Attempts(n) : Goes(n, given, Plan(given).digest)
      /\ \A m \in EndpointNames : m[1] = n[1] /\ m # n =>
           \A given \in Attempts(n) \cup Attempts(m) : ~Goes(m, given, Plan(given).digest)

\* Every operation is behind one door at most.  What a door accepts the client can
\* carry, validate_operation calls it valid, and without the gate of sensitive
\* reads no secret comes out.  What is behind the door of reads is what the schema
\* probes go through; what the bulk reads select passes it with the default
\* parameters, but for the one read that has no default for what it requires; and
\* the binary downloads pass theirs.
OneDoor(n, reads, writes) ==
  LET endpoint == get_endpoint[n]
      given    == required_params[n]
      read     == ReadDoor(reads, n, given)
      binary   == \E content \in BOOLEAN : BinaryDoor(reads, n, content)
      write    == WriteDoor(writes, n, given, "general", n,
                            build_mutation_plan(n, given, "general", writes).digest)
  IN  /\ ~(read /\ binary) /\ ~(read /\ write) /\ ~(binary /\ write)
      /\ read \/ write => JsonCallSupported(endpoint) /\ ValidOperation(n, given)
      /\ binary => binary_call_supported(endpoint) /\ ~ValidOperation(n, given)
      /\ (read \/ binary) /\ endpoint.sens = "secret" => reads.sensitive
      /\ endpoint \in DISCOVERABLE_READ_ENDPOINTS => read
      /\ endpoint \in SENSITIVE_SCHEMA_ENDPOINTS => (read <=> reads.sensitive)
      /\ read => endpoint \in DISCOVERABLE_READ_ENDPOINTS \cup SENSITIVE_SCHEMA_ENDPOINTS
      /\ UntestedSelected(n) \/ HttpDataSelected(n, FALSE)
           \/ (reads.sensitive /\ HttpDataSelected(n, TRUE))
         => (ReadDoor(reads, n, default_params[n])
               <=> n # <<"admin.log_export", "feedback_log", "read">>)
      /\ n \in BinaryReads /\ BulkBinaryAllowed(reads) => BinaryDoor(reads, n, FALSE)

\* A rollback that can be carried out: a write of the catalogue that takes these
\* parameters, whose state the same read shows, and that read asks for nothing.
UndoIsAccepted(n, keys) ==
  \A undo \in RollbackOperation(n) :
    /\ get_endpoint[undo] \in MUTATION_ENDPOINTS /\ generic_call_supported(get_endpoint[undo])
    /\ required_params[undo] \subseteq keys
    /\ PreflightRead(undo) = PreflightRead(n) /\ RollbackOperation(undo) = {n}
    /\ \A read \in PreflightRead(n) :
         ReadDoor([sensitive |-> TRUE, bulk |-> FALSE, binary |-> FALSE], read, {})

\* The router's side of the writes, as the conditions of success describe it; it
\* refuses a reservation that would repeat an address or exceed the table.
Reserved(op, row, table) ==
  LET others == {r \in table.rows : r.mac # row.mac}
      rows   == CASE op = "remove" -> others
                  [] op = "add" ->
                       IF \/ table.max > 0 /\ Cardinality(table.rows) = table.max
                          \/ others # table.rows \/ \E r \in others : r.ip = row.ip
                       THEN table.rows ELSE others \cup {row}
                  [] op = "modify" ->
                       IF others = table.rows \/ \E r \in others : r.ip = row.ip
                       THEN table.rows ELSE others \cup {row}
  IN  [table EXCEPT !.rows = rows]

\* When what the preflight was shown is enough to judge by: for an addition all of the
\* table, for a modification its rows, for a removal any of them, each as it is, and
\* the row looked up is the one removed.  An answer without the list shows no rows.
SawEnough(op, params, table, answer) ==
  CASE op = "add"    -> answer = table
    [] op = "modify" -> answer.rows = table.rows
    [] op = "remove" -> answer.rows \subseteq table.rows /\ OldMac(params) = normalize_mac(params.mac)

\* A reservation whose preflight passed, having seen enough, does what its plan's
\* condition of success says, is reported as without effect exactly when it has none,
\* and the parameters kept for the rollback bring the table back.  (An addition keeps
\* its own.)
ReservationReversible(op, params, table, answer) ==
  LET preflight == ReservationPreflight(op, params, answer)
      row       == [mac |-> normalize_mac(params.mac), ip |-> params.ip]
      after     == Reserved(op, row, table)
      undo      == CHOOSE name \in RollbackOperation(Client("addr_reservation", op)) : TRUE
      kept      == IF op = "add" THEN {row} ELSE preflight.undo
  IN  preflight.passed /\ SawEnough(op, params, table, answer) =>
        /\ IF op = "remove" THEN \A r \in after.rows : r.mac # row.mac ELSE row \in after.rows
        /\ preflight.no_op <=> after = table
        /\ Cardinality(kept) = 1 /\ \A old \in kept : Reserved(undo[3], old, after) = table
        /\ UndoIsAccepted(Client("addr_reservation", op), {"mac", "ip"})

Blacklisted(op, entry, entries) ==
  LET others == {e \in entries : normalize_mac(e.mac) # normalize_mac(entry.mac)}
  IN  IF op = "add" THEN others \cup {entry} ELSE others

\* The same of the blacklist, whose entries come back up to the spelling of their
\* addresses: an addition must have seen all of it, a removal each entry it saw as it is.
BlacklistReversible(op, params, entries, answer) ==
  LET preflight == BlacklistPreflight(op, params, answer)
      after     == Blacklisted(op, params, entries)
      undo      == CHOOSE name \in RollbackOperation(Client("black_list", op)) : TRUE
      Written(e) == [mac |-> normalize_mac(e.mac), name |-> e.name]
      Kept      == { IF op = "add" THEN [mac |-> <<u.mac, "colons">>, name |-> None]
                     ELSE [mac |-> <<u.mac, "colons">>, name |-> u.name] : u \in preflight.undo }
  IN  preflight.passed /\ answer \subseteq entries /\ (op = "add" => answer = entries) =>
        /\ {Written(e) : e \in after} # {Written(e) : e \in entries}
        /\ Cardinality(Kept) = 1
        /\ \A old \in Kept : {Written(e) : e \in Blacklisted(undo[3], old, after)}
                                 = {Written(e) : e \in entries}
        /\ UndoIsAccepted(Client("black_list", op), {"mac"})

\* What f says stands over what g says.
Over(f, g) == [x \in DOMAIN f \cup DOMAIN g |-> IF x \in DOMAIN f THEN f[x] ELSE g[x]]

\* The same of a setting, and the evaluator keeps the very keys the operation takes.
SettingReversible(n, params, state) ==
  LET preflight == SettingPreflight(n, params, state)
      after     == Over(params, state)
  IN  preflight.passed =>
        /\ preflight.no_op <=> after = state
        /\ Over(preflight.undo, after) = state
        /\ required_params[n] = DOMAIN preflight.undo
        /\ UndoIsAccepted(n, DOMAIN preflight.undo)

\* Whatever the evidence, an HTTP write offered as a candidate is no destructive
\* one, its state can be read, its preflight evaluated, and what undoes it leaves
\* the connection alone; the fixed no-ops write what they read.
HttpCandidateCanBeUndone(n, scope, readable) ==
  HttpTier(n, scope, readable) \in {"priority_noop_candidate", "roundtrip_candidate"} =>
    /\ get_endpoint[n].safety = "mutation"
    /\ PreflightRead(n) # {} /\ PreflightRead(n) \subseteq readable
    /\ n \in LivePreflights
    /\ RollbackOperation(n) # {} /\ RollbackOperation(n) \cap ConnectivityNames = {}

FixedNoOpsAgree ==
  \A route \in MutationRoutes :
    /\ PreflightRead(route.write) = {route.preflight}
    /\ RollbackOperation(route.write) = {route.write}
    /\ route.write \in LivePreflights
=============================================================================
