---------------------------- MODULE ServiceReads ---------------------------
(***************************************************************************)
(* The read operations of DecoService, run by the worker threads of the    *)
(* servers over one client, one lock, one identity cache and one TMP       *)
(* connection.  A request is a sequence of steps (ServiceRequests); a step *)
(* that asks the router holds the lock for its whole length, a block that  *)
(* opens the client holds it for several steps, and the eligibility of a   *)
(* fallback and the device snapshot are read without it.                   *)
(*                                                                         *)
(* The credentials are configured; "tmp" stands for DECO_ALLOW_TMP_READS   *)
(* with the TMP credentials.  The cached inventory is abstracted to what   *)
(* its controller says ("exact" for the profile the TMP evidence is about, *)
(* "other", or "empty" for no device at all) and the interface it was      *)
(* really read from, which the code does not keep beside it.               *)
(***************************************************************************)
EXTENDS HttpSession, Sequences, Naturals, FiniteSets

CONSTANTS
  Threads,
  None,
  Program,        \* the steps of each operation
  Secret,         \* the capabilities whose route is secret
  TmpPrimary,     \* the capabilities read over TMP only
  Gates,          \* the configurations of the gates [sensitive, tmp, bulk] looked at
  Requests        \* the operations each thread asks for

VARIABLES
  gates,          \* the configuration, which does not change
  lock,           \* the thread that holds _lock between two steps
  cache,          \* _device_cache
  resolution,     \* the interface of _device_resolution
  session,        \* the session of _client
  job             \* what each thread runs

vars == <<gates, lock, cache, resolution, session, job>>

GateNames == {"sensitive", "tmp", "bulk"}
Interfaces == {"http", "tmp"}
Profiles == {"exact", "other"}
Inventories == [says : Profiles \cup {"empty"}, from : Interfaces]
Phases == {"start", "route", "http", "eligible", "tmp", "done"}
\* "broken" is also the RuntimeError of a TMP client found closed.
TmpErrors == {"sdk", "value", "broken"}
Errors == HttpErrors \cup TmpErrors \cup {"permission"}
Outs == Errors \cup {"ok"}

\* One request: the step it is at and where in the step; the interface its read
\* context names; what its sections were read from, and what the inventory it
\* shows was; whether the exact profile was found before TMP was used; whether
\* the inventory was read from the router since the request began; whether the
\* step asked for a session; the error it is about to raise, or how it ended.
Jobs ==
  [op : DOMAIN Program, at : Nat, phase : Phases, ctx : Interfaces \cup {None},
   used : SUBSET Interfaces, shown : SUBSET Interfaces, checked : BOOLEAN,
   seen : BOOLEAN, login : BOOLEAN, out : Outs]

ASSUME NoneAssumption ==
  None \notin Threads \cup Interfaces \cup Inventories /\ None \notin Jobs

StepRecords == [do : STRING, arg : STRING, soft : BOOLEAN, on : STRING, gated : BOOLEAN]

ASSUME ProgramAssumption ==
  \A op \in DOMAIN Program : Program[op] \in Seq(StepRecords) /\ Len(Program[op]) > 0

ASSUME GatesAssumption == Gates \subseteq [GateNames -> BOOLEAN]

ASSUME RequestsAssumption == \A t \in Threads : Requests[t] \subseteq DOMAIN Program

-----------------------------------------------------------------------------
(* What the shape of the operations gives the properties.                  *)

Before(op, i) == { Program[op][k] : k \in 1..(i - 1) }

\* A step that puts the inventory into the answer; the attempts are provenance, and the
\* exact profile is only looked at.
Shows(s) == s.do = "identity" /\ s.arg \in {"cached", "fresh"}

\* An operation that is one step, whose answer is the inventory.
Alone(op) ==
  LET s == Program[op][1]
  IN  Len(Program[op]) = 1 /\ (Shows(s) \/ (s.do = "capability" /\ s.arg = "mesh_nodes"))

\* A step that no request passes by, and that ends the request when it fails.
Sure(s) == ~s.soft /\ s.on = "any" /\ ~s.gated

\* A step that chooses the read context, that reads, that reads over TMP alone.
Sets(s) == s.do = "capability" \/ (s.do = "identity" /\ s.arg # "exact")

HttpKinds == {"read", "retry", "call", "nodes"}

Reads(s) == s.do \in {"capability", "section", "tmp"} \cup HttpKinds

TmpOnly(s) == s.do = "capability" /\ s.arg \in TmpPrimary \ {"mesh_nodes"}

Exact(s) == Sure(s) /\ s.do = "identity" /\ s.arg = "exact"

\* A direct TMP read comes after the exact profile was required, or where only a
\* capability that was itself read over TMP can have chosen that interface.
ASSUME EvidenceAssumption ==
  \A op \in DOMAIN Program : \A i \in DOMAIN Program[op] :
    Program[op][i].do = "tmp"
      => \/ \E b \in Before(op, i) : Exact(b)
         \/ /\ Program[op][i].on = "tmp"
            /\ \A b \in Before(op, i) : b.do # "identity" /\ b.arg # "mesh_nodes"

\* A snapshot is taken straight after the inventory was asked for anew.
ASSUME SnapshotAssumption ==
  \A op \in DOMAIN Program : \A i \in DOMAIN Program[op] :
    Program[op][i].do = "snapshot"
      => LET b == Program[op][i - 1]
         IN  i > 1 /\ Sure(b) /\ b.do = "identity" /\ b.arg = "fresh"

\* A capability is the first read, or all reads so far are over TMP alone; a
\* section comes after a context was chosen; the other reads belong to one
\* interface, or to an operation without a context.
ASSUME SourceAssumption ==
  \A op \in DOMAIN Program : \A i \in DOMAIN Program[op] :
    LET s    == Program[op][i]
        free == \A k \in DOMAIN Program[op] : ~Sets(Program[op][k])
    IN  /\ s.do = "capability"
             => \/ \A b \in Before(op, i) : ~Reads(b)
                \/ TmpOnly(s) /\ \A b \in Before(op, i) : Reads(b) => TmpOnly(b)
        /\ s.do = "section" => \E b \in Before(op, i) : Sure(b) /\ Sets(b)
        /\ s.do \in HttpKinds => s.on = "http" \/ free
        /\ s.do = "tmp" => s.on = "tmp" \/ free

\* An operation whose answer is what a read that logs in again returns.
Retries(op) ==
  LET last == Program[op][Len(Program[op])] IN last.do = "retry" /\ ~last.soft

\* It does nothing before but look at its gates.
ASSUME RetryAssumption ==
  \A op \in DOMAIN Program :
    Retries(op) => \A b \in Before(op, Len(Program[op])) : b.do = "gate"

-----------------------------------------------------------------------------
(* One request.                                                            *)

Begun(op) ==
  [op |-> op, at |-> 1, phase |-> "start", ctx |-> None, used |-> {}, shown |-> {},
   checked |-> FALSE, seen |-> FALSE, login |-> FALSE, out |-> "ok"]

Step(j) == Program[j.op][j.at]

Applies(s, j) == s.on \in {"any", j.ctx} /\ (s.gated => gates.sensitive)

\* t is at an applicable step of this kind, in this phase of it.
At(t, kind, phase) ==
  /\ job[t] # None
  /\ job[t].phase = phase
  /\ Step(job[t]).do = kind
  /\ Applies(Step(job[t]), job[t])

MayLock(t) == lock \in {None, t}

-----------------------------------------------------------------------------
(* How a step ends.                                                        *)

Advanced(j) ==
  IF j.at = Len(Program[j.op])
  THEN [j EXCEPT !.phase = "done", !.out = "ok", !.login = FALSE, !.checked = FALSE, !.seen = FALSE]
  ELSE [j EXCEPT !.at = j.at + 1, !.phase = "start", !.out = "ok", !.login = FALSE]

\* An error carries no section and no provenance.
Raised(j, out) ==
  [Begun(j.op) EXCEPT !.phase = "done", !.login = j.login, !.out = out]

\* An error ends the request, unless the code notes it and goes on: what the
\* step read is then left out.
Failed(j, out) ==
  IF Step(j).soft /\ out # "broken" THEN Advanced(j)
  ELSE Raised(j, out)

Ended(j, out) == IF out = "ok" THEN Advanced(j) ELSE Failed(j, out)

\* The sections read from an interface.
From(interface, j) == [j EXCEPT !.used = j.used \cup {interface}]

\* The inventory is shown in the answer.
Showing(inventory, j) == [j EXCEPT !.shown = j.shown \cup {inventory.from}]

FreedFault(t, j) == lock

\* The end of the request leaves the block that holds the lock.
Freed(t, j) == IF j.phase = "done" /\ lock = t THEN None ELSE lock

To(t, j) == job' = [job EXCEPT ![t] = j] /\ lock' = Freed(t, j)

\* The same, when the inventory was read from the router: noted by the requests
\* that have a snapshot of it to take.
Seen(j) ==
  IF j # None /\ \E i \in DOMAIN Program[j.op] : i >= j.at /\ Program[j.op][i].do = "snapshot"
  THEN [j EXCEPT !.seen = TRUE] ELSE j

ToSeen(t, j) ==
  /\ job' = [u \in Threads |-> Seen(IF u = t THEN j ELSE job[u])]
  /\ lock' = Freed(t, j)

-----------------------------------------------------------------------------
(* Gates and identity.                                                     *)

Gate(t) ==
  /\ At(t, "gate", "start")
  /\ To(t, IF gates[Step(job[t]).arg] THEN Advanced(job[t]) ELSE Failed(job[t], "permission"))
  /\ UNCHANGED <<gates, cache, resolution, session>>

\* What device_inventory answers about the inventory it holds.
InventoryResult == IF cache.says = "empty" THEN "value" ELSE "ok"

IdentityInterface == IF resolution = None THEN "http" ELSE resolution

\* _resolve_device_inventory: HTTP, then TMP when the error is one the code takes
\* for a missing interface and TMP may be used.  The result carries the interface.
BootstrapErrors == {"transport", "denied", "value"}

ResolveResults ==
  LET http == Read[session]
      Result(out, via, r) == [out |-> out, via |-> via, session |-> r.session]
      lost == { r \in http : r.out \in BootstrapErrors /\ gates.tmp }
  IN  { Result(r.out, "http", r) : r \in http \ lost }
      \cup { Result(out, "tmp", r) : r \in lost, out \in {"ok"} \cup TmpErrors }

\* A step of its own: the read context is the identity's unless a capability
\* has set it.
AfterIdentity(j, inventory, via) ==
  IF Step(j).arg = "exact"
  THEN IF inventory.says = "exact" THEN Advanced([j EXCEPT !.checked = TRUE])
       ELSE Failed(j, "permission")
  ELSE LET k == [j EXCEPT !.ctx = IF j.ctx = None THEN via ELSE j.ctx]
       IN  Advanced(IF Shows(Step(j)) THEN Showing(inventory, k) ELSE k)

OverTmpNext(j, found) == [j EXCEPT !.phase = "tmp", !.checked = found = "exact"]

\* The interface that answered a capability becomes the read context.
Answered(j, via) ==
  Advanced(From(via, IF Step(j).do = "capability" THEN [j EXCEPT !.ctx = via] ELSE j))

\* read_capability once it has the inventory, which is itself the answer for mesh_nodes:
\* the provenance is that of the resolution, which mesh_overview leaves alone.
AfterInventory(j, inventory, via) ==
  IF Step(j).arg = "mesh_nodes" THEN Advanced(Showing(inventory, [j EXCEPT !.ctx = via]))
  ELSE IF Step(j).arg \in TmpPrimary
  THEN IF inventory.says = "exact" THEN OverTmpNext(j, "exact") ELSE Failed(j, "permission")
  ELSE [j EXCEPT !.phase = IF via = "tmp" THEN "route" ELSE "http"]

Onward(j, inventory, via) ==
  IF Step(j).do = "capability" THEN AfterInventory(j, inventory, via)
  ELSE AfterIdentity(j, inventory, via)

\* device_inventory under the lock, as the first part of a step.
Identified(t, fresh) ==
  /\ MayLock(t)
  /\ IF cache # None /\ ~fresh
     THEN /\ To(t, IF InventoryResult = "ok" THEN Onward(job[t], cache, IdentityInterface)
                   ELSE Failed(job[t], InventoryResult))
          /\ UNCHANGED <<cache, resolution, session>>
     ELSE \E r \in ResolveResults :
            /\ session' = r.session
            /\ IF r.out = "ok"
               THEN \E found \in Profiles :
                      /\ cache' = [says |-> found, from |-> r.via]
                      /\ resolution' = r.via
                      /\ ToSeen(t, Onward(job[t], cache', r.via))
               ELSE To(t, Failed(job[t], r.out)) /\ UNCHANGED <<cache, resolution>>
  /\ UNCHANGED gates

IdentityFault(t) ==
  /\ At(t, "identity", "start")
  /\ Identified(t, FALSE)

Identity(t) ==
  /\ At(t, "identity", "start")
  /\ Identified(t, Step(job[t]).arg = "fresh")

\* network_status takes the devices without the lock.
Snapshot(t) ==
  /\ At(t, "snapshot", "start")
  /\ LET j == job[t]
     IN  To(t, IF cache = None \/ cache.says = "empty" THEN Failed(j, "value")
               ELSE Advanced(Showing(cache, j)))
  /\ UNCHANGED <<gates, cache, resolution, session>>

-----------------------------------------------------------------------------
(* read_capability, _read_resource_capability and the direct TMP reads.    *)

Cap(t) == Step(job[t]).arg

\* The gates in front of a capability.
Passes(cap) ==
  /\ cap \in Secret => gates.sensitive
  /\ cap \in TmpPrimary => gates.tmp

EligibleFault(cap) == gates.tmp /\ (cap \in Secret => gates.sensitive)

\* _tmp_fallback_available, read without the lock; an empty inventory raises.
Eligible(cap) ==
  gates.tmp /\ cache # None /\ cache.says = "exact" /\ (cap \in Secret => gates.sensitive)

Unanswerable == gates.tmp /\ cache # None /\ cache.says = "empty"

Capability(t) ==
  /\ At(t, "capability", "start")
  /\ IF Passes(Cap(t)) THEN Identified(t, FALSE)
     ELSE To(t, Failed(job[t], "permission")) /\ UNCHANGED <<gates, cache, resolution, session>>

\* The identity came over TMP: the HTTP read is skipped if TMP may serve it.
Route(t) ==
  /\ At(t, "capability", "route")
  /\ To(t, IF Unanswerable THEN Failed(job[t], "value")
           ELSE IF Eligible(Cap(t)) THEN OverTmpNext(job[t], cache.says)
           ELSE [job[t] EXCEPT !.phase = "http"])
  /\ UNCHANGED <<gates, cache, resolution, session>>

SectionFault(t) ==
  /\ At(t, "section", "start")
  /\ LET j == job[t]
     IN  To(t, IF Cap(t) \in Secret /\ ~gates.sensitive THEN Failed(j, "permission")
               ELSE IF j.ctx = "tmp" /\ Eligible(Cap(t)) THEN OverTmpNext(j, cache.says)
               ELSE [j EXCEPT !.phase = "http"])
  /\ UNCHANGED <<gates, cache, resolution, session>>

\* A section is read where the read context says.
Section(t) ==
  /\ At(t, "section", "start")
  /\ LET j == job[t]
         cap == Cap(t)
     IN  To(t, IF cap \in Secret /\ ~gates.sensitive THEN Failed(j, "permission")
               ELSE IF j.ctx = "http" THEN [j EXCEPT !.phase = "http"]
               ELSE IF Unanswerable THEN Failed(j, "value")
               ELSE IF Eligible(cap) THEN OverTmpNext(j, cache.says)
               ELSE Failed(j, "permission"))
  /\ UNCHANGED <<gates, cache, resolution, session>>

\* A TMP read without a route, behind the gates of tmp_read.
Direct(t) ==
  /\ At(t, "tmp", "start")
  /\ To(t, IF gates.tmp /\ (Cap(t) \in Secret => gates.sensitive)
           THEN [job[t] EXCEPT !.phase = "tmp"] ELSE Failed(job[t], "permission"))
  /\ UNCHANGED <<gates, cache, resolution, session>>

FallbackErrors == {"api", "undecoded", "transport", "denied", "value"}

\* _read_http_capability
HttpRead(t) ==
  /\ \E kind \in {"capability", "section"} : At(t, kind, "http")
  /\ MayLock(t)
  /\ \E r \in Read[session] :
       /\ session' = r.session
       /\ To(t, IF r.out = "ok" THEN Answered(job[t], "http")
                ELSE IF Step(job[t]).do = "capability" /\ r.out \in FallbackErrors
                THEN [job[t] EXCEPT !.phase = "eligible", !.out = r.out]
                ELSE Failed(job[t], r.out))
  /\ UNCHANGED <<gates, cache, resolution>>

\* Whether the failed HTTP read of a capability may be repeated over TMP.
Fallback(t) ==
  /\ At(t, "capability", "eligible")
  /\ To(t, IF Unanswerable THEN Failed(job[t], "value")
           ELSE IF Eligible(Cap(t)) THEN OverTmpNext(job[t], cache.says)
           ELSE Failed(job[t], job[t].out))
  /\ UNCHANGED <<gates, cache, resolution, session>>

\* _read_tmp_capability
TmpRead(t) ==
  /\ \E kind \in {"capability", "section", "tmp"} : At(t, kind, "tmp")
  /\ MayLock(t)
  /\ \E out \in {"ok"} \cup TmpErrors :
       To(t, IF out = "ok" THEN Answered(job[t], "tmp") ELSE Failed(job[t], out))
  /\ UNCHANGED <<gates, cache, resolution, session>>

-----------------------------------------------------------------------------
(* The HTTP client alone.                                                  *)

HttpEnded(t, r) ==
  LET j == job[t] IN IF r.out = "ok" THEN Advanced(From("http", j)) ELSE Failed(j, r.out)

ReadOnce(t) ==
  /\ At(t, "read", "start")
  /\ MayLock(t)
  /\ \E r \in Read[session] : session' = r.session /\ To(t, HttpEnded(t, r))
  /\ UNCHANGED <<gates, cache, resolution>>

RetryResults(kind) ==
  CASE kind = "binary" -> ReadBinary[session]
    [] kind = "nodes"  -> ReadNodes[session]
    [] OTHER           -> ReadAgain[session]

Retry(t) ==
  /\ At(t, "retry", "start")
  /\ MayLock(t)
  /\ \E r \in RetryResults(Step(job[t]).arg) :
       /\ session' = r.session
       /\ To(t, IF r.out = "ok" THEN Advanced(From("http", job[t]))
                ELSE Failed([job[t] EXCEPT !.login = r.login], r.out))
  /\ UNCHANGED <<gates, cache, resolution>>

\* _get_client under the lock, which the block then keeps.
Open(t) ==
  /\ At(t, "open", "start")
  /\ MayLock(t)
  /\ \E r \in Obtain[session] :
       LET j == Ended(job[t], r.out)
       IN  /\ session' = r.session
           /\ job' = [job EXCEPT ![t] = j]
           /\ lock' = IF j.phase = "done" THEN None ELSE t
  /\ UNCHANGED <<gates, cache, resolution>>

\* A plaintext login read: a client of its own, without the owner session.
Bootstrap(t) ==
  /\ At(t, "bootstrap", "start")
  /\ MayLock(t)
  /\ \E out \in {"ok"} \cup HttpErrors : To(t, Ended(job[t], out))
  /\ UNCHANGED <<gates, cache, resolution, session>>

CallResults(kind) ==
  CASE kind = "clients_by_node" -> NodeCalls[session]
    [] kind = "probe"           -> Probe[session]
    [] OTHER                    -> Call[session]

CallOnce(t) ==
  /\ At(t, "call", "start")
  /\ \E r \in CallResults(Step(job[t]).arg) : session' = r.session /\ To(t, HttpEnded(t, r))
  /\ UNCHANGED <<gates, cache, resolution>>

\* mesh_overview keeps the device list it reads, whatever it is, and leaves the
\* resolution of the previous inventory.
Nodes(t) ==
  /\ At(t, "nodes", "start")
  /\ \E r \in Call[session] :
       /\ session' = r.session
       /\ IF r.out = "ok"
          THEN /\ \E found \in Profiles \cup {"empty"} : cache' = [says |-> found, from |-> "http"]
               /\ ToSeen(t, HttpEnded(t, r))
          ELSE To(t, HttpEnded(t, r)) /\ UNCHANGED cache
  /\ UNCHANGED <<gates, resolution>>

Unlock(t) ==
  /\ At(t, "unlock", "start")
  /\ LET j == Advanced(job[t])
     IN  job' = [job EXCEPT ![t] = j] /\ lock' = None
  /\ UNCHANGED <<gates, cache, resolution, session>>

\* qos refuses two parts from different interfaces.
Compare(t) ==
  /\ At(t, "compare", "start")
  /\ To(t, Ended(job[t], IF Cardinality(job[t].used) > 1 THEN "value" ELSE "ok"))
  /\ UNCHANGED <<gates, cache, resolution, session>>

Close(t) ==
  /\ At(t, "close", "start")
  /\ MayLock(t)
  /\ cache' = None
  /\ resolution' = None
  /\ \E r \in Logout[session] : session' = r.session /\ To(t, Ended(job[t], r.out))
  /\ UNCHANGED gates

\* _get_tmp_client under the lock, which the block then keeps.
Hold(t) ==
  /\ At(t, "hold", "start")
  /\ MayLock(t)
  /\ \E out \in {"ok"} \cup TmpErrors :
       LET j == Ended(job[t], out)
       IN  /\ job' = [job EXCEPT ![t] = j]
           /\ lock' = IF j.phase = "done" THEN None ELSE t
  /\ UNCHANGED <<gates, cache, resolution, session>>

\* A raw TMP read.
Raw(t) ==
  /\ At(t, "raw", "start")
  /\ MayLock(t)
  /\ \E out \in {"ok"} \cup TmpErrors : To(t, Ended(job[t], out))
  /\ UNCHANGED <<gates, cache, resolution, session>>

-----------------------------------------------------------------------------
Request(t) ==
  /\ job[t] = None
  /\ \E op \in Requests[t] : job' = [job EXCEPT ![t] = Begun(op)]
  /\ UNCHANGED <<gates, lock, cache, resolution, session>>

\* The thread hands the answer or the error over.
Deliver(t) ==
  /\ job[t] # None
  /\ job[t].phase = "done"
  /\ job' = [job EXCEPT ![t] = None]
  /\ UNCHANGED <<gates, lock, cache, resolution, session>>

\* A step of the other interface, or one the gate leaves out.
Pass(t) ==
  /\ job[t] # None
  /\ job[t].phase = "start"
  /\ ~Applies(Step(job[t]), job[t])
  /\ To(t, Advanced(job[t]))
  /\ UNCHANGED <<gates, cache, resolution, session>>

\* The router forgets the session and does not say so.
Expire ==
  /\ session = "live"
  /\ session' = "expired"
  /\ UNCHANGED <<gates, lock, cache, resolution, job>>

Routed(t) ==
  Capability(t) \/ Route(t) \/ Section(t) \/ Direct(t) \/ HttpRead(t) \/ Fallback(t) \/ TmpRead(t)

OverClient(t) ==
  ReadOnce(t) \/ Retry(t) \/ Bootstrap(t) \/ Open(t) \/ CallOnce(t) \/ Nodes(t) \/ Unlock(t) \/ Close(t)

TmpAlone(t) == Hold(t) \/ Raw(t)

Next ==
  \/ \E t \in Threads :
       \/ Request(t)
       \/ Deliver(t)
       \/ Pass(t) \/ Gate(t) \/ Identity(t) \/ Snapshot(t) \/ Compare(t)
       \/ Routed(t)
       \/ OverClient(t)
       \/ TmpAlone(t)
  \/ Expire

Init ==
  /\ gates \in Gates
  /\ lock = None
  /\ cache = None
  /\ resolution = None
  /\ session = "none"
  /\ job = [t \in Threads |-> None]

Spec == Init /\ [][Next]_vars

-----------------------------------------------------------------------------
(* Properties.                                                             *)

ReadsTypeOK ==
  /\ gates \in [GateNames -> BOOLEAN]
  /\ lock \in Threads \cup {None}
  /\ cache \in Inventories \cup {None}
  /\ resolution \in Interfaces \cup {None}
  /\ session \in Sessions
  /\ job \in [Threads -> Jobs \cup {None}]

\* TMP is used with its gate, and with the sensitive gate for a secret capability.
TmpGated ==
  \A t \in Threads :
    job[t] # None /\ job[t].phase = "tmp"
      => gates.tmp /\ (Cap(t) \in Secret => gates.sensitive)

LockInv == lock # None => job[lock] # None /\ job[lock].phase # "done"

StepInv == \A t \in Threads : job[t] # None => job[t].at \in DOMAIN Program[job[t].op]

\* An inventory that is said to come over HTTP does.  mesh_overview leaves the
\* resolution alone, so the inventory said to come over TMP may not.
InventoryNamed == cache # None /\ resolution # "tmp" => cache.from = "http"

\* The types; a request that has ended, however it ended, holds the lock of the
\* service no longer (an error inside a block of network_status or of
\* configuration would otherwise stop every reader); a request stays inside its
\* sequence of steps and uses TMP behind its gates; and no inventory that was
\* read over TMP is passed for one of the HTTP interface.
ReadsInv == ReadsTypeOK /\ LockInv /\ StepInv /\ TmpGated /\ InventoryNamed

\* An answer that was given with a provenance.
WithContext(t) == job[t] # None /\ job[t].phase = "done" /\ job[t].out = "ok" /\ job[t].ctx # None

\* Whatever failed over, was skipped or was refused on the way, the sections an
\* answer reads beside the inventory come from the interface its provenance
\* names, even while other requests replace or clear the inventory the
\* interface was chosen by; and an answer that is the inventory was read over
\* HTTP if it says so (_read_resource_capability, client_device_resource,
\* cloud_state, wlan_state, read_capability for mesh_nodes).  It says nothing of the
\* inventory that network_status and configuration show beside such sections: they
\* read it before the internet status chooses the interface, maybe over the other
\* one, although docs/mcp.md has the provenance confirm "one interface".
OneSource ==
  \A t \in Threads :
    WithContext(t)
      => /\ job[t].used \subseteq {job[t].ctx}
         /\ Alone(job[t].op) /\ job[t].ctx = "http" => job[t].shown \subseteq {"http"}

\* network_status shows mesh nodes that were read after it was asked for: the
\* snapshot it takes without the lock may be another request's, never an
\* inventory older than the request.
StatusFresh ==
  \A t \in Threads :
    job[t] # None /\ At(t, "snapshot", "start") /\ cache # None => job[t].seen

\* A semantic capability is sent over TMP only after the request itself found
\* the exact profile in the inventory: for the capability's own interface, for a
\* fallback, for a section of a larger answer or for one parental-control
\* profile, whatever other requests do to the inventory meanwhile.
TmpNeedsEvidence ==
  \A t \in Threads : job[t] # None /\ job[t].phase = "tmp" => job[t].checked

\* A read that logs in again ends with an error that means an expired session
\* only when it asked the router for a new session: the session the client held
\* before is never the reason (read_endpoint, read_binary_endpoint,
\* get_clients_by_node).
RetryHeals ==
  \A t \in Threads :
    job[t] # None /\ job[t].phase = "done" /\ job[t].out \in SessionErrors
      => (Retries(job[t].op) => job[t].login)
=============================================================================
