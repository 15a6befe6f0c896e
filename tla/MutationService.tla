--------------------------- MODULE MutationService ----------------------------
(***************************************************************************)
(* The semantic mutation workflow of DecoService: plan, execute and the    *)
(* current-value no-op verification, next to the other requests that share *)
(* its lock, its router session and its identity cache.                    *)
(*                                                                         *)
(* One step is what a thread does while it holds the service's lock, split *)
(* at each router request whose answer decides what follows.  Between two  *)
(* steps the router may be replaced, the session may expire, the owner may *)
(* change the setting, an unanswered write may be applied late, and the    *)
(* process may be restarted.  A request that is refused and changes        *)
(* nothing (unknown plan, wrong confirmation) is a stuttering step.        *)
(***************************************************************************)
EXTENDS Naturals, FiniteSets

CONSTANTS
  Threads,          \* REST worker threads, and the event loop that runs MCP tools
  PlanIds,          \* what secrets.token_urlsafe may return
  Controllers,      \* identities (MAC, model, hardware, firmware) a router may have
  ExactP9,          \* those whose profile match is "exact"
  TmpTrusted,       \* those whose identity the TMP fallback can read
  Values,           \* values of the setting a verification writes
  PlanTtl,          \* lifetime of a plan (300 seconds in the code)
  MaxTime,          \* bound on the clock, for model checking
  OnlyRequestErrors,\* does every failed router request raise one of _REQUEST_ERRORS?
  OwnerConcurrent,  \* may the owner change the setting during a verification?
  None

ASSUME MutationAssumption ==
  /\ ExactP9 \subseteq Controllers
  /\ TmpTrusted \subseteq Controllers
  /\ PlanTtl \in Nat
  /\ MaxTime \in Nat
  /\ OnlyRequestErrors \in BOOLEAN
  /\ OwnerConcurrent \in BOOLEAN
  /\ None \notin Threads \cup PlanIds \cup Controllers \cup Values
  /\ "expired" \notin Controllers

VARIABLES
  lock,         \* the thread that holds _lock from one step to the next
  cache,        \* the controller of _device_cache
  session,      \* the controller that issued the client's token, if it has one
  plans,        \* _pending_mutation_plans
  latched,      \* _http_mutation_latched
  pc,           \* where each thread is in its request
  job,          \* what each thread carries from step to step
  now,          \* time.monotonic()
  router,       \* external: the controller that answers at the configured address
  setting,      \* external: the setting's value on each controller
  late,         \* external: unanswered writes a controller may still apply
  issued,       \* history: the plan ids handed out
  writes,       \* history: the writes sent for each plan
  baseline,     \* history: the value the owner gave each controller's setting
  interrupted   \* history: a process ended while a write of its was in doubt

state       == <<lock, cache, session, plans, latched, pc, job>>
environment == <<now, router, setting, late, baseline, interrupted>>
vars        == <<state, environment, issued, writes>>

NoPlan == [controller |-> None, expires |-> 0]
Plan   == [controller : Controllers, expires : Nat]
NoJob  == [plan |-> None, deadline |-> 0, controller |-> None,
           target |-> None, before |-> None, accepted |-> FALSE]
Job    == [plan : PlanIds \cup {None}, deadline : Nat, controller : Controllers \cup {None},
           target : Controllers \cup {None}, before : Values \cup {None},
           accepted : BOOLEAN]

\* The steps of verify_http_setting_noop, all under the lock.
Writing      == {"writing", "rollingBack"}
Comparing    == {"verifying", "rollbackVerifying"}
Verification == {"preflight"} \cup Writing \cup Comparing
\* The steps from a plan's claim to the end of its verification.
Executing    == {"profiling", "queued"} \cup Verification
Steps        == {"idle", "planning", "refreshing", "profiling", "queued"} \cup Verification

Pending == {p \in PlanIds : plans[p] # NoPlan}
Claimed == {p \in PlanIds :
              \E t \in Threads : pc[t] \in Executing /\ job[t].plan = p}

-------------------------------------------------------------------------------
(* The session and the identity behind it. *)

LockFree == lock = None

\* The router accepts the token: it is the one that issued it.
Live == session = router

\* _get_client logs in only when no token is held; an expired one is held.
GetClient == session' = IF session = None THEN router ELSE session

\* A request that fails: before the login it needed, or after it.
RequestFails == UNCHANGED session \/ GetClient

\* _resolve_device_inventory, the client list over HTTP or else over TMP.
IdentityOverHttp == (session = None \/ Live) /\ GetClient
IdentityOverTmp  == router \in TmpTrusted /\ RequestFails
IdentityRead     == IdentityOverHttp \/ IdentityOverTmp

\* device_inventory() returns controller c, from the cache if there is one.
Inventory(c) ==
  \/ cache # None /\ c = cache /\ UNCHANGED <<session, cache>>
  \/ cache = None /\ c = router /\ IdentityRead /\ cache' = router

Goto(t, step) == pc' = [pc EXCEPT ![t] = step]

Return(t) == Goto(t, "idle") /\ job' = [job EXCEPT ![t] = NoJob]

-------------------------------------------------------------------------------
(* No action uses an operator named ...Fault: it is a plausible slip in the *)
(* definition that follows it, kept to show that the properties notice it.  *)

MutationInit ==
  /\ lock        = None
  /\ cache       = None
  /\ session     = None
  /\ plans       = [p \in PlanIds |-> NoPlan]
  /\ latched     = FALSE
  /\ pc          = [t \in Threads |-> "idle"]
  /\ job         = [t \in Threads |-> NoJob]
  /\ now         = 0
  /\ router      \in Controllers
  /\ setting     \in [Controllers -> Values]
  /\ late        = {}
  /\ issued      = {}
  /\ writes      = [p \in PlanIds |-> 0]
  /\ baseline    = setting
  /\ interrupted = FALSE

-------------------------------------------------------------------------------
(* plan_semantic_mutation *)

\* The assessment allows execution only when the inventory is an exact P9; the
\* expiry is computed next, before the lock is taken again.
Assess(t) ==
  /\ pc[t] = "idle"
  /\ LockFree
  /\ \E c \in Controllers :
       /\ Inventory(c)
       /\ IF c \in ExactP9
          THEN /\ Goto(t, "planning")
               /\ job' = [job EXCEPT ![t].deadline = now + PlanTtl]
          ELSE UNCHANGED <<pc, job>>
  /\ UNCHANGED <<lock, plans, latched, environment, issued, writes>>

IdentityKnownFault == TRUE

\* _controller_identity raises as long as no inventory is cached.
IdentityKnown == cache # None

\* The plan is bound to the controller that is cached by now.
Register(t) ==
  /\ pc[t] = "planning"
  /\ LockFree
  /\ IdentityKnown
  /\ \E p \in PlanIds \ issued :
       /\ plans' = [plans EXCEPT ![p] = [controller |-> cache, expires |-> job[t].deadline]]
       /\ issued' = issued \cup {p}
  /\ Return(t)
  /\ UNCHANGED <<lock, cache, session, latched, environment, writes>>

\* PermissionError: close() has forgotten the controller in between.
RegisterFails(t) ==
  /\ pc[t] = "planning"
  /\ LockFree
  /\ ~IdentityKnown
  /\ Return(t)
  /\ UNCHANGED <<lock, cache, session, plans, latched, environment, issued, writes>>

-------------------------------------------------------------------------------
(* semantic_mutation_plan and execute_semantic_mutation *)

\* ExpiredPlanError.  At its last instant a plan is over for a status request,
\* but may still be executed.
Expire(p) ==
  /\ LockFree
  /\ p \in Pending
  /\ now >= plans[p].expires
  /\ plans' = [plans EXCEPT ![p] = NoPlan]
  /\ UNCHANGED <<lock, cache, session, latched, pc, job, environment, issued, writes>>

Execute(t, p) ==
  /\ pc[t] = "idle"
  /\ LockFree
  /\ p \in Pending
  /\ now <= plans[p].expires
  /\ lock' = t
  /\ Goto(t, "refreshing")
  /\ job' = [job EXCEPT ![t] = [@ EXCEPT !.plan = p, !.controller = plans[p].controller]]
  /\ UNCHANGED <<cache, session, plans, latched, environment, issued, writes>>

LockAfterErrorFault == lock

\* An exception leaves the "with" block, and the lock with it.
LockAfterError == None

ConsumedFault(p) == plans

\* Before the router is asked to change anything, the plan is gone.
Consumed(p) == [plans EXCEPT ![p] = NoPlan]

\* The refreshed inventory decides; a plan for another controller is dropped.
Refresh(t) ==
  /\ pc[t] = "refreshing"
  /\ IdentityRead
  /\ cache' = router
  /\ plans' = Consumed(job[t].plan)
  /\ lock' = None
  /\ IF router = job[t].controller
     THEN Goto(t, "profiling") /\ UNCHANGED job
     ELSE Return(t)
  /\ UNCHANGED <<latched, environment, issued, writes>>

\* The plan stays pending: the caller may execute it again.
RefreshFails(t) ==
  /\ pc[t] = "refreshing"
  /\ RequestFails
  /\ lock' = LockAfterError
  /\ Return(t)
  /\ UNCHANGED <<cache, plans, latched, environment, issued, writes>>

-------------------------------------------------------------------------------
(* verify_setting_noop and verify_p9_http_noop *)

\* deco_verify_setting_noop runs a verification that no plan stands for.
VerifyDirectly(t) ==
  /\ pc[t] = "idle"
  /\ Goto(t, "profiling")
  /\ UNCHANGED <<lock, cache, session, plans, latched, job, environment, issued, writes>>

\* _require_exact_p9_profile
RequireExactProfile(t) ==
  /\ pc[t] = "profiling"
  /\ LockFree
  /\ \E c \in Controllers :
       /\ Inventory(c)
       /\ IF c \in ExactP9 THEN Goto(t, "queued") /\ UNCHANGED job ELSE Return(t)
  /\ UNCHANGED <<lock, plans, latched, environment, issued, writes>>

ProfileFails(t) ==
  /\ pc[t] = "profiling"
  /\ LockFree
  /\ cache = None
  /\ RequestFails
  /\ Return(t)
  /\ UNCHANGED <<lock, cache, plans, latched, environment, issued, writes>>

LatchOpenFault == TRUE

\* The latch is read under the lock that the whole verification then keeps.
LatchOpen == ~latched

Enter(t) ==
  /\ pc[t] = "queued"
  /\ LockFree
  /\ LatchOpen
  /\ GetClient
  /\ lock' = t
  /\ Goto(t, "preflight")
  /\ UNCHANGED <<cache, plans, latched, job, environment, issued, writes>>

\* The latch is closed, or the login failed.
EnterRefused(t) ==
  /\ pc[t] = "queued"
  /\ LockFree
  /\ latched \/ session = None
  /\ Return(t)
  /\ UNCHANGED <<lock, cache, session, plans, latched, environment, issued, writes>>

\* The current value is read; it is what every write below sends.
Preflight(t) ==
  /\ pc[t] = "preflight"
  /\ Live
  /\ job' = [job EXCEPT ![t] = [@ EXCEPT !.target = router, !.before = setting[router]]]
  /\ Goto(t, "writing")
  /\ UNCHANGED <<lock, cache, session, plans, latched, environment, issued, writes>>

\* The exception leaves the verification, and the latch as it was.
PreflightFails(t) ==
  /\ pc[t] = "preflight"
  /\ lock' = LockAfterError
  /\ Return(t)
  /\ UNCHANGED <<cache, session, plans, latched, environment, issued, writes>>

\* What becomes of a write: the controller sets the value, or another one, or
\* none; it answers or not; what it has not answered it may still apply later.
Sent(t) ==
  \/ /\ Live
     /\ \E v \in Values : setting' = [setting EXCEPT ![router] = v]
     /\ UNCHANGED late
  \/ /\ Live
     /\ late' = late \cup {[controller |-> router, value |-> job[t].before]}
     /\ UNCHANGED setting
  \/ UNCHANGED <<setting, late>>

\* An answer of success comes from a controller that has handled the request.
Answered == Live /\ UNCHANGED late

Counted(t) ==
  writes' = IF job[t].plan = None THEN writes ELSE [writes EXCEPT ![job[t].plan] = @ + 1]

Write(t) ==
  /\ pc[t] = "writing"
  /\ Sent(t)
  /\ \E ok \in IF Answered THEN BOOLEAN ELSE {FALSE} :
       job' = [job EXCEPT ![t].accepted = ok]
  /\ Counted(t)
  /\ Goto(t, "verifying")
  /\ UNCHANGED <<lock, cache, session, plans, latched, now, router, baseline,
                 interrupted, issued>>

\* The value is read again: on any doubt it is written once more.
Unchanged(t) == Live /\ setting[router] = job[t].before

MustLatchFault(t) == ~Unchanged(t)

\* Every result but verified_noop closes the latch.
MustLatch(t) == ~(Unchanged(t) /\ job[t].accepted)

Verify(t) ==
  /\ pc[t] = "verifying"
  /\ Unchanged(t)
  /\ latched' = (latched \/ MustLatch(t))
  /\ lock' = None
  /\ Return(t)
  /\ UNCHANGED <<cache, session, plans, environment, issued, writes>>

\* The reread shows another value or fails.
VerifyFails(t) ==
  /\ pc[t] = "verifying"
  /\ Goto(t, "rollingBack")
  /\ UNCHANGED <<lock, cache, session, plans, latched, job, environment, issued, writes>>

\* An answer that breaks off raises http.client.HTTPException, which is none of the
\* errors the write and the reread handle: it leaves without rollback and latch.
Escape(t) ==
  /\ ~OnlyRequestErrors
  /\ pc[t] \in Comparing
  /\ lock' = LockAfterError
  /\ Return(t)
  /\ UNCHANGED <<cache, session, plans, latched, environment, issued, writes>>

Rollback(t) ==
  /\ pc[t] = "rollingBack"
  /\ Sent(t)
  /\ Counted(t)
  /\ Goto(t, "rollbackVerifying")
  /\ UNCHANGED <<lock, cache, session, plans, latched, job, now, router, baseline,
                 interrupted, issued>>

\* Confirmed or not, a rollback closes the latch.
RollbackVerify(t) ==
  /\ pc[t] = "rollbackVerifying"
  /\ latched' = TRUE
  /\ lock' = None
  /\ Return(t)
  /\ UNCHANGED <<cache, session, plans, environment, issued, writes>>

-------------------------------------------------------------------------------
(* The requests and events around it *)

\* GET /mesh?refresh, mesh_overview and the mesh_nodes read fill the cache.
RefreshCache ==
  /\ LockFree
  /\ IdentityRead
  /\ cache' = router
  /\ UNCHANGED <<lock, plans, latched, pc, job, environment, issued, writes>>

MayReadFault == TRUE

MayRead == LockFree

\* read_endpoint and the reads like it: on 401, 403 or error -1 they forget the
\* session and log in again.
ReadEndpoint ==
  /\ MayRead
  /\ session' \in {session, None, router}
  /\ UNCHANGED <<lock, cache, plans, latched, pc, job, environment, issued, writes>>

\* close(): the application stops, or one MCP session of several ends.
Close ==
  /\ LockFree
  /\ session' = None
  /\ cache' = None
  /\ plans' = [p \in PlanIds |-> NoPlan]
  /\ UNCHANGED <<lock, latched, pc, job, environment, issued, writes>>

\* The process ends at any point and starts again; it has persisted nothing.
Restart ==
  /\ lock' = None
  /\ cache' = None
  /\ session' = None
  /\ plans' = [p \in PlanIds |-> NoPlan]
  /\ latched' = FALSE
  /\ pc' = [t \in Threads |-> "idle"]
  /\ job' = [t \in Threads |-> NoJob]
  /\ interrupted' = (interrupted \/ late # {} \/ setting # baseline)
  /\ UNCHANGED <<now, router, setting, late, baseline, issued, writes>>

\* External: another controller takes the address, or the firmware is upgraded.
SwapRouter ==
  /\ \E c \in Controllers \ {router} : router' = c
  /\ UNCHANGED <<state, now, setting, late, baseline, interrupted, issued, writes>>

\* External: the router no longer knows the token.
SessionExpires ==
  /\ Live
  /\ session' = "expired"
  /\ UNCHANGED <<lock, cache, plans, latched, pc, job, environment, issued, writes>>

Verifying == \E t \in Threads : pc[t] \in Verification

\* External: the owner changes the setting in the router's own interface.
OwnerSets(c, v) ==
  /\ OwnerConcurrent \/ ~Verifying
  /\ setting' = [setting EXCEPT ![c] = v]
  /\ baseline' = [baseline EXCEPT ![c] = v]
  /\ UNCHANGED <<state, now, router, late, interrupted, issued, writes>>

\* External: a controller applies a write that was given up long ago.
LateApply ==
  /\ \E w \in late :
       /\ late' = late \ {w}
       /\ setting' = [setting EXCEPT ![w.controller] = w.value]
  /\ UNCHANGED <<state, now, router, baseline, interrupted, issued, writes>>

Tick ==
  /\ now < MaxTime
  /\ now' = now + 1
  /\ UNCHANGED <<state, router, setting, late, baseline, interrupted, issued, writes>>

\* What the thread that holds the lock does next.
LockedStep(t) ==
  \/ Refresh(t)
  \/ RefreshFails(t)
  \/ Preflight(t)
  \/ PreflightFails(t)
  \/ Write(t)
  \/ Verify(t)
  \/ VerifyFails(t)
  \/ Escape(t)
  \/ Rollback(t)
  \/ RollbackVerify(t)

ThreadStep(t) ==
  \/ Assess(t)
  \/ Register(t)
  \/ RegisterFails(t)
  \/ \E p \in PlanIds : Execute(t, p)
  \/ VerifyDirectly(t)
  \/ RequireExactProfile(t)
  \/ ProfileFails(t)
  \/ Enter(t)
  \/ EnterRefused(t)
  \/ LockedStep(t)

OtherStep ==
  \/ \E p \in PlanIds : Expire(p)
  \/ RefreshCache
  \/ ReadEndpoint
  \/ Close
  \/ Restart

ExternalStep ==
  \/ SwapRouter
  \/ SessionExpires
  \/ \E c \in Controllers, v \in Values : OwnerSets(c, v)
  \/ LateApply
  \/ Tick

MutationNext ==
  \/ \E t \in Threads : ThreadStep(t)
  \/ OtherStep
  \/ ExternalStep

MutationSpec == MutationInit /\ [][MutationNext]_vars

\* Every router request runs under a socket timeout: its thread always goes on.
MutationFairSpec == MutationSpec /\ \A t \in Threads : WF_vars(LockedStep(t))

-------------------------------------------------------------------------------
MutationTypeOK ==
  /\ lock        \in Threads \cup {None}
  /\ cache       \in Controllers \cup {None}
  /\ session     \in Controllers \cup {None, "expired"}
  /\ plans       \in [PlanIds -> Plan \cup {NoPlan}]
  /\ latched     \in BOOLEAN
  /\ pc          \in [Threads -> Steps]
  /\ job         \in [Threads -> Job]
  /\ now         \in Nat
  /\ router      \in Controllers
  /\ setting     \in [Controllers -> Values]
  /\ late        \subseteq [controller : Controllers, value : Values]
  /\ issued      \subseteq PlanIds
  /\ writes      \in [PlanIds -> Nat]
  /\ baseline    \in [Controllers -> Values]
  /\ interrupted \in BOOLEAN

\* A plan is worth one verification: its value is written, and written again to roll
\* back, however often it is executed, by how many threads, with which failures.
AtMostTwoWrites == \A p \in PlanIds : writes[p] <= 2

\* Once the latch is closed nothing is written any more, not even by a request that
\* had passed every check but was still waiting for the lock.
NothingOnceLatched == \A t \in Threads : pc[t] \in Verification => ~latched

\* A write or its rollback reaches no controller but the one whose value was read,
\* whatever router has taken its place and whoever has logged in again.
WritesStayOnTarget ==
  \A t \in Threads : pc[t] \in Writing \cup Comparing /\ Live => router = job[t].target

\* If a verification, with its lost, late and misapplied writes, leaves a setting at
\* another value than its owner gave it, the latch is closed: it is reported.
DriftIsLatched ==
  ~Verifying /\ ~interrupted => latched \/ setting = baseline

\* No request keeps the lock for ever: a router that stops answering delays the
\* others but does not block them.
LockReleased == \A t \in Threads : lock = t ~> lock # t

\* The plans as OneShotPlans sees them: an id is issued once and claimed once, before
\* the first write, and sends no more than the two writes of its one verification.
OneShot == INSTANCE OneShotPlans
  WITH pending <- Pending, running <- Claimed, MaxWrites <- 2

ImplementsOneShot == OneShot!Spec

-------------------------------------------------------------------------------
(* The inductive invariant. *)

\* The lock is with the one thread that is in the middle of a locked block.
LockIsHeld == \A t \in Threads : lock = t <=> pc[t] \in {"refreshing"} \cup Verification

\* The token used under the lock is the one the value was read with, or is dead.
TokenOfTarget ==
  \A t \in Threads :
    pc[t] \in Writing \cup Comparing => session \in {job[t].target, "expired"}

\* A plan that is being refreshed is pending; one that is executing is not, and is
\* carried by one thread.
PlansCarried ==
  /\ \A p \in PlanIds : p \notin issued => plans[p] = NoPlan /\ writes[p] = 0
  /\ \A t \in Threads :
       /\ pc[t] = "refreshing" => job[t].plan \in Pending
       /\ pc[t] \in Executing /\ job[t].plan # None => job[t].plan \in issued \ Pending
       /\ pc[t] \in {"idle", "planning"} => job[t].plan = None
       /\ pc[t] \in Writing \cup Comparing => job[t].before \in Values
  /\ \A t, u \in Threads :
       pc[t] \in Executing /\ pc[u] \in Executing /\ job[t].plan = job[u].plan
       => t = u \/ job[t].plan = None

\* The writes a plan has sent when its verification is at a step.
WritesAt(step) ==
  IF step \in {"verifying", "rollingBack"} THEN 1
  ELSE IF step = "rollbackVerifying" THEN 2 ELSE 0

WritesCounted ==
  /\ \A p \in Pending : writes[p] = 0
  /\ \A t \in Threads :
       pc[t] \in Executing /\ job[t].plan # None => writes[job[t].plan] = WritesAt(pc[t])

MutationInv ==
  /\ MutationTypeOK
  /\ LockIsHeld
  /\ NothingOnceLatched
  /\ TokenOfTarget
  /\ PlansCarried
  /\ WritesCounted
  /\ AtMostTwoWrites

\* While the latch is open, only the verification under way can have changed a value,
\* only on its target, and only until an accepted write is seen to have kept it.
DriftInv ==
  ~interrupted /\ ~latched =>
    /\ (\A t \in Threads : pc[t] \notin Comparing \cup {"rollingBack"})
         => setting = baseline /\ late = {}
    /\ \A t \in Threads :
         /\ pc[t] \in Writing \cup Comparing => job[t].before = baseline[job[t].target]
         /\ pc[t] = "verifying" =>
              /\ \A c \in Controllers \ {job[t].target} : setting[c] = baseline[c]
              /\ job[t].accepted => late = {}
              /\ \A w \in late : w.controller = job[t].target

-------------------------------------------------------------------------------
(* A claim of the documentation that does not hold of the code. *)

\* docs/mcp.md: plans "are bound to the controller identity".
PlanStaysOnController ==
  \A t \in Threads :
    pc[t] \in Writing /\ job[t].plan # None => job[t].target = job[t].controller
===============================================================================
