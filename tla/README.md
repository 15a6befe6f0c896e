# TLA+ verification of tplink-deco-api

`tplink-deco-api` talks to TP-Link Deco mesh routers: over the encrypted HTTP
interface of the web administration page, and over TMP/AppV2, a binary protocol
that is tunnelled through SSH. On top of both sits `DecoService`, which a
FastAPI application offers as a REST API and as MCP tools. The library mostly
reads. The few writes it permits are *current-value no-ops*: read a setting,
write the very same value, read it again, and write it back if it differs.

This directory holds TLA+ models of the parts where order, failure and sharing
decide whether that is safe, TLC configurations that check them on small
instances, and TLAPS proofs of the results that matter most. `PROJECT.json`
lists components, runs, mutants, hazards and theorems, and maps each definition
to the lines it models.

Paths below are relative to `src/tplink_deco_api/`.

## 1. Inventory

### Components, their state and their operations

| Component | State | Operations | Modelled in |
|---|---|---|---|
| REST idempotency store (`rest/_in_memory_idempotency_store.py`) | `_records`, `_lock` | `execute`: a locked block that purges, replays, refuses or reserves; the operation without the lock; a locked block that retains or releases | `IdempotencyStore` |
| Semantic mutation workflow (`service/deco_service.py`) | `_lock`, `_client`, `_device_cache`, `_pending_mutation_plans`, `_http_mutation_latched` | `plan_semantic_mutation`, `semantic_mutation_plan`, `execute_semantic_mutation`, `verify_setting_noop`, `verify_p9_http_noop`, `close`, and reads that share the lock and the session | `MutationService` |
| HTTP no-op verification (`http_noop_verification.py`) | local variables of one call | preflight read, write, reread, rollback, reread | `MutationService` |
| REST routes (`rest/app.py`) | none of their own | create, read and execute a plan; reads | `RestMutations`, `ServiceRequests` |
| MCP server (`mcp/server.py`) | none of its own | the same plans without the idempotency store; reads | `RestMutations`, `MutationService`, `ServiceRequests` |
| Request capacity (`rest/request_capacity_middleware.py`) | `_active`, an asyncio lock | admit, refuse with 429, leave | `RequestCapacity` |
| TMP AppV2 session (`tmp_protocol.py`) | `_ready`, `_next_transaction_id`; per exchange the chunks, the announced size and checksum, the last pull | `open` (associate, allocate a token, negotiate), exchanges | `TmpExchange` |
| TMP client and SSH stream (`tmp_client.py`, `tmp_ssh_stream.py`) | `_stream`, `_session`; the channel | open with a pinned host key, reads with one reconnection, mutations without | `TmpNoop` |
| TMP boolean no-op verification (`tmp_boolean_noop_verification.py`, `tmp_lab.py`) | local variables of one run | identify the target, preflight, write, reread, rollback, reread | `TmpNoop` |
| HTTP client and session (`client.py`, `auth/`) | token, cookie, AES and RSA keys, sequence number | login, logout, calls in plain and encrypted form, binary reads, probes, forgetting the session | `HttpSession` |
| Capability routing and read operations (`capability_routing.py`, `deco_service.py`) | `_device_cache`, `_device_resolution`, `_client`, `_tmp_client`, all under `_lock` but for two reads | `device_inventory`, `read_capability`, about fifty resources built from them | `CapabilityRoutes`, `ServiceRequests`, `ServiceReads` |
| Mutation planners and verification queues | none | plans, preflights, tiers and blocking gaps of the catalogued mutations | `MutationPlanner`, `TmpOpcodes`, `Decisions` |
| Catalogues (`endpoint_catalog.py`, `tmp_opcode_catalog.py`) | none that changes | tables and the sets derived from them | `EndpointCatalog`, `TmpOpcodes` |
| Response normalization (`service/_*_normalization.py`) | none | from firmware answers to results | not modelled, see section 8 |
| Configuration, cryptography, probes, other middlewares | none that changes | parsing, arithmetic | not modelled, see section 8 |

### How they interact

- uvicorn runs one event loop. `RequestCapacityMiddleware` counts the requests
  in flight there. REST handlers are synchronous functions and run in worker
  threads; MCP tools call the same `DecoService`.
- All callers share one `DecoService`. Its lock (`_lock`, reentrant) guards the
  session, the identity cache, the pending plans and the latch. It is released
  *between* the steps of one operation: a plan is removed in one locked block
  (`deco_service.py:1534`) and carried out in another (`2132`).
- `POST /mutation-plans/{id}/executions` wraps the execution of a plan in the
  idempotency store. The MCP tool executes plans without it.
- The router is another process that anybody may replace, reset, reconfigure or
  unplug at any time, and that may apply a request whose answer was lost.
- A read operation is a sequence of reads. Most take the lock for one router
  request at a time, some for a block of them; the eligibility of the TMP
  fallback and the device snapshot of `network_status` are taken without it.
- The TMP verifications are lab tools: their own process, one `DecoTmpClient`,
  no latch, no lock.

### What is hard about it

- Interleaving: two threads, two surfaces and the idempotency store around one
  plan; a router that changes between two locked blocks.
- Partial failure: each of the four requests of a verification may be refused,
  lost, applied late, applied wrongly, or raise something nobody catches.
- Reconnection: a TMP read opens a new tunnel by itself, possibly to another
  device, in the middle of a verification.
- Sessions: the router forgets the owner session without saying so; some reads
  log in again, the others fail until one of those has done so.
- Tables written apart: the routing table, the dispatch to operations and
  opcodes, the planners and the executors have to agree entry by entry.
- Message order: AppV2 answers come in chunks that may be repeated, reordered,
  or belong to a request that was given up.
- Bounds: capacity of the store and of the server, expiry of plans and records,
  transaction ids that wrap.

`PROJECT.json` lists each of these under `hazards`, at its line, with the
properties that would notice it going wrong.

### What makes the components correct

- Store: a key is executed by one caller at a time, its reservation survives
  whatever happens meanwhile, a replay is faithful, the capacity holds, a key
  is never left in progress.
- Mutation workflow: a plan is carried out once and writes at most twice; no
  write happens once the latch is closed; a write and its rollback reach the
  controller whose value was read; a setting that has drifted is reported; the
  lock is always given back.
- REST around it: a client is handed the evidence of the plan it named.
- TMP: an exchange returns all of its own answer or fails; writes reach the
  authorized device and are not repeated; a certain result is true.
- Reads: the lock is given back on every path, one answer comes from the
  interface its provenance names, TMP is used only on evidence and behind its
  gates, a read that logs in again gets over an expired session.
- Tables and planners: they say what the code behind them does, and what they
  offer as reversible can be undone, if the router's answer showed enough.
- Capacity: the limit holds, refusals are true, and only a refusal that its client
  has not taken yet keeps the others from the lock.

## 2. Modules

`...MC` modules instantiate a module for TLC, `...Proofs` modules hold its
theorems. An operator whose name ends in `Fault` is used by no action: it is a
plausible slip in the definition after it, and a mutant in `PROJECT.json` swaps
it in to show that a property notices.

### IdempotencyStore, KeyedOnce

`IdempotencyStore` has one action per outcome of the first locked block of
`execute` (`Conflict`, `InProgress`, `Replay`, `Full`, `Reserve`), each with the
purge that precedes it; `OperationReturns` and `OperationRaises` for what runs
without the lock; and `Retain` and `Release` for the second block. `records` is
the table, `Absent` a missing key. `now` is the clock, `returned` a history of
what operations returned. The tie between two records that expire at the same
moment is left open, which includes the code's choice.

`KeyedOnce` is what the store promises: a key goes from free to busy to done,
without clock, capacity or callers. `KeepsPromise` states the refinement.

### MutationService, OneShotPlans

`MutationService` is the workflow of `DecoService`, with the HTTP verification
in it. A step is what a thread does under the lock, cut wherever a router
request decides what follows. `pc` says where a thread is:

    idle -> planning -> idle                                   plan_semantic_mutation
    idle -> refreshing -> profiling -> queued -> preflight     execute_semantic_mutation
    idle -> profiling -> queued -> preflight                   verify_setting_noop
    preflight -> writing -> verifying -> idle                  verify_http_setting_noop
                 verifying -> rollingBack -> rollbackVerifying -> idle

`session` is the controller whose token the client holds (`"expired"` when no
router accepts it any more); `Live` says whether the router that answers now
accepts it. `cache` is `_device_cache`. Outside the code are `router`,
`setting`, `late` (writes whose answer was lost and that may still be applied)
and the steps `SwapRouter`, `SessionExpires`, `OwnerSets`, `LateApply`, `Tick`.
Two constants limit the environment: `OnlyRequestErrors` (every failure is one
of `_REQUEST_ERRORS`) and `OwnerConcurrent` (the owner may change the setting
during a verification).

`OneShotPlans` is what it promises of a plan: issued once, pending until it is
dropped or claimed, claimed once, at most two writes.

### RestMutations

Composes the two promises: an instance of `IdempotencyStore` whose operation is
an execution of a plan, and an instance of `OneShotPlans` for the service, which
`MutationService` is shown to implement. The MCP tool executes the same plans
without the store. A plan's evidence is the plan itself, so that evidence handed
to the wrong client is visible.

### TmpNoop

One lab run. `conn` is the device behind the client, `attempt` the state of the
read's one reconnection, `pc` the step of `_verify_tmp_boolean_noop`. `Drop`
closes the channel, `Swap` lets another device take the address; open tunnels
stay where they are. `Pinned` are the devices with the configured host key; the
model is of the default, `allow_unverified_host_key = False`.

### TmpExchange

One `TmpAppV2Session`: association, negotiation and exchanges. The stream is
left out, because any message the router has sent by now may be the next one
read. A byte of an answer is its position, so an answer that was put together
wrongly differs from the right one, and the checksum is modelled as equality:
collisions of CRC-32 are not. The pure parts of `_exchange` are operators:
`Contiguous` follows the chunks from byte 0 to the first that is missing
(`ChainEnd` is the recursive function behind it, from any offset), `JoinedBytes`
appends their bytes in the order of their offsets, and `PullsNext` is the test
before a pull. The router may push chunks unasked, repeat and cut them
differently, and answer an exchange up to `MaxLate` exchanges later.

### RequestCapacity

One step is what a task does between two awaits. `queue` are the tasks that wait
for the asyncio lock, in order; `holder` is the task that keeps it across an
await, which only a refusal does. `LockOrderly`, a part of `CapacityInv`, says
that whoever needs the lock stands in the queue once, and that nobody else does.

### EndpointCatalog, TmpOpcodes, CapabilityRoutes, MutationPlanner, Decisions

Pure operators over the real tables. `EndpointCatalog` is the HTTP catalogue,
one row per operation with what decisions look at, and the sets derived from it.
`TmpOpcodes` holds the 192 opcodes the source lists, cut in its order into tables
named for their first code, with their safety, their plans and their tiers. The registry
of 600 comes from a JSON file; what it brings besides is a parameter
(`OtherOpcodes`), and so is which of those codes the P9 is on record to have
answered (`OtherAnswered`). `RegistryAssumption` is what `_load_opcode_registry`
makes sure of: a code has one row, and a listed code its listed name.
`CapabilityRoutes` has the routing table and, beside it, the operation and the
opcode each reader really sends. `MutationPlanner` has the HTTP plans, the
preflights and the executor's checks. `Decisions` is a machine that answers one
question after another: a caller asks for any entry under any gates, and the
properties say how the answers of code written apart relate. Its constants are
those of `TmpOpcodes` and the addresses, the values and the largest limit of the
reservation tables (`TableAssumption`: hardware addresses are finitely many).

A preflight judges by the answer to its read, which may say less than the router
has: `TableAnswers` and `BlacklistAnswers` leave out rows, the addresses or names of
rows, and the limit, because `AddressReservationTable.from_api` and
`_blacklist_preflight` take for absent whatever is missing or malformed. `old_mac`
may come with any operation, as `_validate_reservation_mutation_params` lets it.
`PassedIsReversible` therefore compares with the router's table, and names what a
preflight must have seen (`SawEnough`) for its pass to mean that the write can be
undone: all of the table for an addition, its rows for a modification, and for a
removal rows as they are and no other `old_mac`. The preflights check none of this;
section 5 says what happens without it.

### HttpSession, ServiceRequests, ServiceReads

`HttpSession` says how a call of the HTTP client can end and what it does to the
session (`"none"`, `"live"`, or `"expired"`: a token the router has forgotten).
Errors are classes by what the callers do with them. `ServiceRequests` is a
table: each read operation as the sequence of its steps, marked with whether an
error is noted and passed over (`soft`), to which interface of the read context
it belongs (`on`) and whether it needs the sensitive gate (`gated`).
`ServiceReads` runs these sequences in threads, one action per kind of step, cut
where the lock is let go:

| State | Code |
|---|---|
| `lock` | `_lock` while a thread keeps it *between* two steps (`Open`, `Hold` to `Unlock`); a step that asks the router holds it for the whole step |
| `cache`, `resolution` | `_device_cache`, by what its controller says (`"exact"`, `"other"`, `"empty"`) and the interface it really came from, and the interface named in `_device_resolution`, which need not be the same |
| `session` | the session of `_client` |
| `job[t]` | the request of a thread: its step, the interface of its read context (`ctx`), where its sections came from (`used`) and where the inventory it shows came from (`shown`); `checked`, `seen` and `login` are histories the properties use |

`Identified` is `device_inventory` under the lock, with the bootstrap over TMP;
`Capability`, `Route`, `HttpRead`, `Fallback` and `TmpRead` are
`read_capability`; `Section` is `_read_resource_capability`. `Expire` is the
router. Of the ends of a TMP read, `"broken"` is the `RuntimeError` of a closed
tunnel, which no section passes over. `Program` and the routing are constants, so
the proofs hold for any.

## 3. Runs that pass

| Run | Instance | Shows |
|---|---|---|
| `store` | 3 keys, 2 fingerprints, 3 callers, capacity 2, retention 2, clock to 3 | no interleaving takes a reservation away, replays a foreign result, exceeds the capacity or leaves a key in progress; results are forgotten only when they may be; the store implements `KeyedOnce` |
| `mutation_plans` | 2 threads, 1 plan, 2 controllers (one exact P9), clock to 1 | two writes per plan, nothing once latched, writes stay on their target, the lock is given back, the service implements `OneShotPlans` |
| `mutation_drift` | 2 threads, 2 controllers, 2 values, no plans | a drifted setting is reported |
| `rest_mutations` | 2 callers, 2 keys, 2 plans, clock to 2 | callers, records and plans agree on who asked for what; evidence reaches the client of its plan; one key per run |
| `tmp_noop` | the target and one other device, 2 values | writes reach the target, once each; results are true; the run ends |
| `tmp_exchange` | 3 exchanges over 2 transaction ids, answers of 0 to 3 bytes | an exchange returns its own answer, whole, and has pulled the byte it waits for; the exchange ends |
| `decisions` | all catalogue entries, listed opcodes and capabilities; 18 groups of other rows of the registry file; all gates; reservation tables of up to 2 rows and limits to 3 over 2 hardware addresses and 3 addresses, with every answer that shows them in full or in part, and `old_mac` on every operation | tables and code agree, open gates are not refused further in, rollbacks undo what preflights read, plans agree with the executor, a preflight that passes on a sufficient answer is reversible |
| `service_reads` | 2 threads; one asks for any of 21 operations, the other refreshes, replaces or clears the inventory and renews the session; 4 settings of the gates | the lock is let go, the sections read beside the inventory have one source, the mesh in `network_status` is no older than the request, TMP is used on evidence, retries get over an expired session |
| `capacity` | 4 requests, 2 places | the limit holds, refusals are true, whoever waits for the lock gets it as long as clients take their refusals |

### Why the bounds are enough

- Two callers or threads: the code treats all threads alike, and each hazard is
  a step of one other thread between two steps of the first. Three keys and
  callers for a capacity of two give a full store, eviction, and a full store of
  reservations. Two controllers: the one a thread knows, and another.
- One plan in `mutation_plans`, which both threads may execute; a thread that
  verifies directly stands for one with another plan. `rest_mutations` has two
  plans over the abstract service, and the proofs have any number.
- Two values: the owner's and a wrong one.
- Clocks run to the smallest time at which a record or a plan has been made, has
  expired, and has been made again. The clock stops at `MaxTime`; everything
  else goes on.
- `TransactionIds = 2` with three exchanges: two negotiation exchanges and a
  request, which uses an id again, while the answer of the previous exchange may
  still arrive. The assumption
  `MaxLate < TransactionIds` says that the router does not answer 65536
  exchanges late. Three bytes are enough for a gap, an overlap and a chunk that
  spans both.
- `decisions` is not a small instance: the tables are the code's own. Of the rest
  of the registry file it has the rows that the source classifies by code or by a
  word, and the groups in which the inferences find a read, an undoing write, or
  more than one (`MCOther`); some are taken to have been answered by the P9
  (`MCAnswered`), without which no inferred read would be on record. Only the
  preflights look at small tables; with two rows and limits of none to three, a table
  is empty, full, has room, or does not tell its limit, and two hardware addresses in two
  spellings collide and differ.
- `service_reads`: what one thread does to another passes through the inventory,
  the session and the lock, and the second thread does all that can be done to
  them; the first runs an operation of each shape. Operations that are one
  capability are checked for a secret one, a TMP-only one and a plain one.
  Loops over catalogued endpoints are cut to two or three, which is a first, a
  middle and a last. The gate for bulk reads is that for sensitive ones: no
  operation looks at the first without the second.
- Two places and four requests: two run, one is refused, one arrives or leaves.

Deadlock is checked in every run but `tmp_exchange`, where the bound on the
number of exchanges ends the session.

## 4. Fairness

- Service: `LockedStep` of each thread: every router request runs under a socket
  timeout. No fairness is assumed of clients, of the owner or of the router.
- Store: none. That a key does not stay in progress is stated without it: every
  reservation belongs to a caller that has still to pass its second locked block
  (`NoKeyStuck`), and what the caller does until then ends by the timeouts.
- Reads: none; `ServiceReads` states safety only. That the lock is let go on
  every path is part of `ReadsInv`.
- TMP run: `Step`. Each exchange has a deadline, and opening has a timeout.
  `Drop` has no fairness and may happen at any time; `RunEnds` holds because a
  read reconnects once and a mutation never.
- TMP exchange: *not* the deadline, under which an exchange ends trivially. The
  fairness is that of a router at work, which acknowledges a request and answers
  the last pull: then the client never waits for something it has not asked for.
- Capacity: only what a task does when the lock is given to it (`LockStep`), for
  which it asks nobody. The application need not return: the MCP endpoint is under
  a protected prefix, and its event stream stays open until the client leaves. Nor
  need a client take its 429, which is sent with the lock held
  (`request_capacity_middleware.py:56`) and without a timeout: a client that does
  not stops every arrival and departure. `LockServed` is therefore conditional: if
  no refusal stays on the way forever, everyone who waits gets the lock, whatever the
  running requests do. It depends on the order of the waiters, which is that of
  `asyncio.Lock`.

## 5. Where the code and what is said of it differ

Each of these runs checks one property that a text of the repository states and
that the code does not keep; `findings` in `PROJECT.json` quotes the lines.

| Run | Property | What happens |
|---|---|---|
| `plan_other_controller` | `PlanStaysOnController` | the lock is released between the identity check and the verification: another request logs in to another controller, and the plan is carried out there |
| `escape_drift` | `DriftIsLatched` | `http.client.HTTPException` is caught nowhere: no reread, no rollback, no latch |
| `tmp_escape` | `RollbackOnMismatch` | a channel found closed after the write raises `RuntimeError`, which is caught nowhere: no reread and no rollback |

`DriftIsLatched` holds in `mutation_drift` and fails in `escape_drift`; the two
differ only in `OnlyRequestErrors`.

Others were read off the models and have no run of their own:

- `docs/mcp.md:352-355` says that the provenance of a compound resource confirms that
  one interface produced the response data, and `docs/rest.md:111-115` that status and
  configuration do not mix values from both interfaces. In `network_status` the mesh
  and the controller are those of the inventory (`deco_service.py:1078-1087`,
  `1184-1201`), in `configuration` the controller is (`1319`). When the internet status
  is then answered by the other interface (`1096-1099`), that one becomes the
  provenance of the whole answer, with `single_source_interface` set. `job[t].shown`
  records where the inventory came from. `OneSource` is about the sections read beside
  it and about answers that are the inventory; with `shown` in place of `used` in it,
  TLC finds the mixed answer.
- `mutation_planner.py:211` says that before a modification or removal the existing
  reservation is captured for the rollback, and `docs/mcp.md:622-623` that it has to
  be. A removal of device A with the `old_mac` of device B passes when B has a
  reservation, keeps B's as its `rollback_params`, and never looks at A's
  (`deco_service.py:4904-4909`, `4935-4938`, `5105-5110`). Only a modification refuses
  (`4926-4927`).
- `mutation_planner.py:210` says that before an addition the MAC and the address are
  absent and the table has room. An answer whose list is missing or none
  (`models/address_reservation_table.py:26-31`), a row without an address and a
  missing limit count as absent, and the addition passes; so does one to the blacklist
  (`deco_service.py:5032-5033`). A row seen without its address leaves the rollback
  of a removal without it. `SawEnough` names what it takes.
- `docs/mcp.md:727-729` says that any outcome other than `verified_noop` trips
  the latch. A preflight read that raises (`http_noop_verification.py:53`) leaves
  it open. Nothing has been written then.
- `docs/mcp.md:436-438` says that a plan is issued only for an exact connected
  P9 profile. The profile is assessed before the lock is taken
  (`deco_service.py:1413`) and the plan is bound to whatever is cached when it is
  (`1424`); a refresh in between can have cached another controller.
- `http_noop_verification.py:1` speaks of live current values. The owner may
  have changed the value between the preflight read and the write.
- `docs/rest.md:233-235` says that a key replays its result while the process
  remains alive. A completed record is dropped after 600 seconds and may be
  evicted at 256 records. The plan is consumed by then, so nothing is written.
- `docs/mcp.md:452-453` says that HTTP authentication failures never trigger the
  bootstrap of the identity over TMP. `_resolve_device_inventory` falls back on a
  `TransportError` with any status, 401 and 403 included (`deco_service.py:321`), and
  so does `read_capability` (`1720`): `BootstrapErrors` and `FallbackErrors` contain
  `"denied"`. Only `AuthenticationError`, which the SDK raises by itself for a
  malformed login and for a client without a session, does not fall back.
- `docs/mcp.md:444` counts six fallback entries; the routing table has fifteen.

What the models show of the read operations and no text denies:

- Only `read_endpoint`, `read_binary_endpoint`, `get_clients_by_node` and the
  reservation preflight log in again. Every other read fails under an expired
  session until one of these has run, and probes then report every endpoint as
  rejected. `RetryHeals` is stated for the operations that retry.
- `call_binary` does not decode: under an expired session an error body passes as
  the file (`BinaryCall`).
- `mesh_overview` caches whatever device list it reads and leaves
  `_device_resolution` as it was. After an empty list `device_inventory` raises
  until a refresh or `close`, and the eligibility test of the fallback raises
  `ValueError` too (`Unanswerable`). After a list read over HTTP in place of one
  bootstrapped over TMP, `mesh_nodes` says TMP of nodes that came over HTTP; the other
  way about cannot happen (`InventoryNamed`).
- `configuration` returns WAN and LAN over HTTP without the sensitive gate, and
  over TMP only with it.
- `qos` compares the sources of two parts that only TMP can serve: they never
  differ.
- Raw TMP reads do not look at the connected profile, and neither does the bootstrap
  of the identity, which `mesh_nodes` may be answered from; `TmpNeedsEvidence` is about
  the other semantic reads. It is about the decision: the inventory it rests on may be
  replaced before the TMP read it leads to is sent, and the code does not look again.
- `p9_http_data` can never report `firmware_error`: a nonzero code raises.
- The inferred rollback of opcodes 0x402E and 0x4030 is 0x4236, which has none
  itself; the default verification queues are empty on both interfaces.

## 6. Proofs

TLC's results are for the instances above. These are for all values of the
constants that the modules' assumptions admit.

- `IdempotencyStoreProofs`: `StoreInv` is inductive (`StoreInvariance`), from
  which `CapacityKept`, `SingleExecution` and `FaithfulReplay` follow.
  `NobodyLeavesAKey` is proved on top of it. `StoreBounded` is not inductive by
  itself: the second locked block writes a record without looking at the
  capacity, which is harmless only because the reservation is still there
  (`ReservationKept`), and that needs `OneExecutionPerKey`. `ForgetsAsAllowed`
  is about steps: only an eviction gives up a result that has not expired
  (`EvictionAllowed`), and the second locked block writes to a key in progress
  (`FinishForgetsNothing`). `Refinement` maps each step to a step or a stutter
  of `KeyedOnce`.
- `MutationServiceProofs`: `MutationInv` is inductive. `AtMostTwoWrites` needs
  that an executing plan is no longer pending and is carried by one thread
  (`PlansCarried`) and the number of writes at each step (`WritesCounted`);
  `WritesStayOnTarget` needs that the token used is the one the value was read
  with, or dead (`TokenOfTarget`), which holds because only the lock's holder
  logs in (`LockIsHeld`). `DriftReported` proves `DriftIsLatched` from
  `OnlyRequestErrors` and `~OwnerConcurrent` with the further invariant
  `DriftInv`. `MutationRefinement` is the refinement of `OneShotPlans`.
  `HoldsAreShort` is the safety behind `LockReleased`: `HoldLeft` is at most five
  while the lock is held, the holder's own steps lower it or give the lock back,
  and no other thread, restart or router moves the holder (`HolderStays`).
- `RestMutationsProofs`: the store keeps results under keys and the service takes
  a plan once; that a client gets its own evidence is a property of neither.
  `RestInv` joins them: a caller between its locked blocks still runs the request
  it made (`Matched`), a record's fingerprint is that of the plan whose evidence
  it holds (`Recorded`), and a plan that has been taken is in one place: running,
  with the caller it ran for, or under a key (`TakenOnce`). `AnswersAreOwn` and
  `OneRunOneKey` follow. The proof uses `StoreTypeOK` and the store's actions
  through the instance, for any callers, keys, plans and capacity.
- `TmpNoopProofs`: `NoopInv` is inductive, and gives `LabTargetOnly`,
  `TrueResults` and `NoRepeatedWrite`. They rest on the assumption that only the
  target has the pinned host key (`NoopAssumption`). `RunsAreShort` bounds a run
  to 21 steps: `StepsLeft` counts three for each step of the verification still to
  come, less the attempts its read has used; every step of the harness lowers it
  and nothing around it raises it, however often the tunnel breaks.
- `ServiceReadsProofs`: `ReadsCorrect` proves `ReadsInv`, with it that no inventory read
  over TMP is passed for one of HTTP (`InventoryNamed`), for any threads,
  programs, routing and gates, from the assumptions that programs are not empty
  and that a request names one. The argument goes through what is good about one
  request (`Good`: it is typed, inside its steps, and behind its gates when it
  uses TMP): each way a step can end keeps a request good (`AdvancedGood`,
  `FailedGood`, `OnwardGood`, ...), and a step that leaves one request good and
  the lock with an unfinished one keeps the invariant (`StepKeeps`,
  `ToSeenKeeps`). `RetriesLogIn` is a fact about `HttpSession`: after a read
  that logs in again, an error that means an expired session implies that the
  router was asked for a session.
  Its second part proves `TmpOnEvidence`, `AnswersHaveOneSource` (the sections beside
  the inventory, and the answers that are the inventory), `StatusIsFresh` and
  `RetriesHeal`, for any threads, routing and gates, and for any program of
  the right shape: a direct TMP read comes after an identity step that insists on
  the exact profile, or belongs to a context that only a capability can have
  chosen (`EvidenceAssumption`); a snapshot is taken straight after a refresh
  (`SnapshotAssumption`); a capability is the first read, or all reads before it
  are over TMP alone, a section comes after a context was chosen, and other reads
  belong to one interface or to an operation without a context
  (`SourceAssumption`); an operation that logs in again does nothing before that
  but check its gates (`RetryAssumption`). TLC
  evaluates these assumptions for the table in `ServiceRequests`. The argument is
  in two halves: whatever an action does, its effect on a request is one of five
  (`Stepped`: it quits, skips the step, answers it, identifies the mesh, or stays
  with a choice of interface); and each of the four properties, which speak of
  one request, survives those five.
- `TmpExchangeProofs`: `OwnAnswerReturned` and `ChunksPulled`. Of the exchanges
  that the router may still answer, only the current one has its transaction id
  (`OwnMatch`), because `MaxLate < TransactionIds` and two numbers closer than
  the modulus have different remainders. So all chunks are of one answer, and
  one that has the announced size and checksum is that answer.
  `ExchangeInvariance` adds the types and bounds, for which the contiguous size
  must stay within the answer (`ContiguousBounded`); `PrefixIsReceived` says what
  that size means: all bytes before it have come, and none goes on from it.
  `NothingIsForgotten` and `AnswersAdvance` are about steps: the contiguous size
  never falls, and an answer to the last pull ends the exchange or raises it,
  which is the measure behind `ExchangeEnds`. `ApartIsReturned` says that chunks
  that do not overlap are joined to the very answer, in whatever order they came
  (`Reassembly`); chunks that do overlap fail the checksum. What the recursive
  function `ChainEnd` and the fold behind `JoinedBytes` compute is proved by
  induction over a set, the set of the offsets for which the claim holds
  (`SetInduction`, `OffsetInduction`), which needs no operator as a parameter.
- `RequestCapacityProofs`: `CapacityInv` ties the counter to the set of requests
  inside, a refusal to the lock, and the need of the lock to a place in its queue
  (`QueueGrows`, `QueueShrinks`). `CapacityIsRespected` and `RefusalsAreTrue`
  follow. `NoDeadlock`: while somebody waits for the lock, the first in line can take
  it, or a refusal on its way keeps it (`OnlyRefusalsBlock`); no request that runs is in
  the way. `NobodyOvertakes`: a step leaves a task its place in the line, moves it up
  one, or serves it.
- `DecisionsProofs`: the seven properties of `Decisions`.
  `WritesReversible` is about tables of any size and limit, any values, any answer
  however little it shows, and any `old_mac`: a preflight that passes and has seen what
  it takes to judge (`SawEnough`) keeps what takes the write back (`Reservations`,
  `Blacklistings`, `Settings`), and what undoes an operation is an operation of the
  catalogue that takes these parameters (`UndoAccepted`). `PlansAndExecutorAgree`,
  `OneDoorOnly`, `RoutesAreTrue` and `GatesAreEnough` are about every entry of the
  fixed tables and all gates. They do not enumerate the decisions, but reduce them
  to what each row has to satisfy (`EndpointRight`, `RouteTrue`, `RouteReadable`),
  which is established group by group (`LoginRight`, ..., `TmpRoutesTrue`,
  `TmpRoutesReadable`).
  `UndoWorksOnSameState` and `CandidatesAreSafe` are about every registry file that
  `RegistryAssumption` admits. The opcode tables are taken group by group
  (`Group0000`, ..., `Group423D`): the stem of a name, its verb and where it
  is placed. A code has one operation (`OneOpcode`), so the curated tables, which
  name codes, come down to facts about listed codes (`ListedOpcode`,
  `PreflightTable`, `PairTable`); an inferred read or undoing write has the stem of
  what it was inferred for, whatever the file brings. `UndoSame` joins the two. That
  a candidate's undoing leaves the connection alone rests on `CutAgrees`: of a
  write and the read that shows its state, both cut the connection or neither
  does. Of the HTTP entries it is `UndoingIsRollback`.

Only model-checked:

- Liveness under fairness (`LockReleased`, `RunEnds`, `ExchangeEnds`,
  `LockServed`), which is out of the prover's reach, like ENABLED. Its safe
  half is proved: a measure that the steps lower (`HoldsAreShort`, `RunsAreShort`,
  `AnswersAdvance`), or that nobody is overtaken and only refusals block
  (`NobodyOvertakes`, `NoDeadlock`).

Every other property of a passing run is stated by a theorem.

## 7. Abstractions to know about

- A digest of plan and confirmation, a token, a nonce: injective, never guessed,
  never drawn twice.
- The checks on text (confirmations, opcodes, catalogue entries) are one bit.
- A request that is refused and changes nothing is a stuttering step.
- The blockers of a plan's assessment are one condition, the exact P9 profile;
  the catalogue holds one executable mutation mode.
- Exceptions that are not `Exception` (a worker thread being killed with its
  process) end the process: `Restart`.
- Integers of Python do not overflow. The one width that matters is the
  transaction id's 16 bits.
- Reads: the credentials and the TMP host key are configured; the content of an
  answer is left out, so a section is read or it fails, and "value" stands for
  every check of a shape. A getter that makes several calls in one guarded block
  is one call. `_tmp_fallback_available` is one atomic look at the cache; the
  code reads the attribute twice, and `close` between the two ends the request
  with a `TypeError` before anything is sent.
- Sequence numbers, signatures and the cookie beside the token are left out:
  they are made and used in one locked request.
- The digest of a plan does not tell parameters `None` from `{}`.
- The name of a TMP opcode is a sequence of words. A word the code looks for that
  holds an underscore itself (`MAC_CLONE`) is one word, and the last word is the
  verb. Category and sensitivity of a row are data; the code derives them.
- Queue order (score, limit) and texts of plans are left out of
  `MutationPlanner` and `TmpOpcodes`.
- Nothing is persisted: a restart forgets the plans, the latch and the records.

## 8. Not modelled

- Response normalization: renames and filters fields of one answer, keeps
  nothing; its properties are about texts, which the unit tests pin one by one.
- Cryptography: arithmetic through a library, no state.
- Configuration: parsed once, at start.
- Bearer authentication, request ids, cache and transport headers: each looks at
  one request and keeps nothing.
- Probes and fuzzing tools (`fuzzy.py`, `examples/`): one read after another for
  a developer to look at.
- Reports about the catalogues (`p9_access_coverage`, `p9_profile`, the
  inventories as such): they count table entries and contact nobody.
- The frame layer of TMP (`_read_frame`, `_recv_exact`) and probing a host key.
- Problem responses, entity tags and argument parsing of the REST routes and the
  MCP tools.

## 9. What could follow

1. **TMP frames**: `_read_frame` and `_recv_exact` below `TmpExchange`, with a
   deadline in the middle of a frame; `TmpExchange` as its abstract
   specification, and `TmpNoop`'s exchanges in place of its atomic ones.
2. **One service**: `MutationService` and `ServiceReads` share the lock, the
   session and the cache, and are checked apart; each includes the other's
   effect on them as environment steps (`ReadEndpoint`, `RefreshCache`, `Close`
   there; `Expire` and the second thread here).
3. **Proofs**: the projection of `MutationService` and `ServiceReads` onto the
   lock and the session they share, by which each is a guarantee for the other.
