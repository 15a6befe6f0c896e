------------------------ MODULE MutationServiceProofs -------------------------
(***************************************************************************)
(* What holds of MutationService for every set of threads, plans and       *)
(* controllers and every lifetime of a plan.                               *)
(***************************************************************************)
EXTENDS MutationService, TLAPS

\* Types: every action assigns what MutationTypeOK allows.
LEMMA SessionTyped ==
  ASSUME MutationTypeOK, IdentityRead \/ RequestFails \/ GetClient
  PROVE  session' \in Controllers \cup {None, "expired"}
BY DEF MutationTypeOK, IdentityRead, IdentityOverHttp, IdentityOverTmp, RequestFails, GetClient

LEMMA NoJobTyped == NoJob \in Job
BY DEF NoJob, Job

LEMMA ReturnTyped ==
  ASSUME MutationTypeOK, NEW t \in Threads, Return(t)
  PROVE  pc' \in [Threads -> Steps] /\ job' \in [Threads -> Job]
BY NoJobTyped DEF MutationTypeOK, Return, Goto, Steps

LEMMA PlanningTyped ==
  ASSUME MutationTypeOK, NEW t \in Threads
  PROVE  /\ Assess(t) => MutationTypeOK'
         /\ Register(t) => MutationTypeOK'
         /\ RegisterFails(t) => MutationTypeOK'
<1>1. Assess(t) => MutationTypeOK'
  <2> SUFFICES ASSUME Assess(t) PROVE MutationTypeOK'
    OBVIOUS
  <2>1. PICK c \in Controllers : Inventory(c) /\
          IF c \in ExactP9
          THEN Goto(t, "planning") /\ job' = [job EXCEPT ![t].deadline = now + PlanTtl]
          ELSE UNCHANGED <<pc, job>>
    BY DEF Assess
  <2>2. session' \in Controllers \cup {None, "expired"} /\ cache' \in Controllers \cup {None}
    BY <2>1, SessionTyped DEF Inventory, MutationTypeOK
  <2>3. pc' \in [Threads -> Steps]
    BY <2>1 DEF Goto, MutationTypeOK, Steps
  <2>4. job' \in [Threads -> Job]
    BY <2>1, MutationAssumption DEF MutationTypeOK, Job
  <2> QED
    BY <2>2, <2>3, <2>4 DEF Assess, MutationTypeOK, environment
<1>2. Register(t) => MutationTypeOK'
  <2> SUFFICES ASSUME Register(t) PROVE MutationTypeOK'
    OBVIOUS
  <2>1. PICK p \in PlanIds \ issued :
          /\ plans' = [plans EXCEPT ![p] = [controller |-> cache, expires |-> job[t].deadline]]
          /\ issued' = issued \cup {p}
    BY DEF Register
  <2>2. [controller |-> cache, expires |-> job[t].deadline] \in Plan
    BY DEF Register, IdentityKnown, MutationTypeOK, Plan, Job
  <2>3. plans' \in [PlanIds -> Plan \cup {NoPlan}] /\ issued' \subseteq PlanIds
    BY <2>1, <2>2 DEF MutationTypeOK
  <2> QED
    BY <2>3, ReturnTyped DEF Register, MutationTypeOK, environment
<1>3. RegisterFails(t) => MutationTypeOK'
  BY ReturnTyped DEF RegisterFails, MutationTypeOK, environment
<1> QED
  BY <1>1, <1>2, <1>3

LEMMA ExecuteTyped ==
  ASSUME MutationTypeOK, NEW t \in Threads
  PROVE  /\ \A p \in PlanIds : Execute(t, p) => MutationTypeOK'
         /\ Refresh(t) => MutationTypeOK'
         /\ RefreshFails(t) => MutationTypeOK'
<1>1. ASSUME NEW p \in PlanIds, Execute(t, p)
      PROVE  MutationTypeOK'
  <2>1. plans[p] \in Plan
    BY <1>1 DEF Execute, Pending, MutationTypeOK
  <2>2. job' \in [Threads -> Job]
    <3>1. job[t] \in Job /\ plans[p].controller \in Controllers \cup {None}
      BY <2>1 DEF MutationTypeOK, Plan
    <3>2. [job[t] EXCEPT !.plan = p, !.controller = plans[p].controller] \in Job
      BY <3>1 DEF Job
    <3>3. job' = [job EXCEPT ![t] = [job[t] EXCEPT !.plan = p, !.controller = plans[p].controller]]
      BY <1>1, <3>1 DEF Execute, MutationTypeOK
    <3> QED
      BY <3>2, <3>3 DEF MutationTypeOK
  <2>3. pc' \in [Threads -> Steps]
    BY <1>1 DEF Execute, Goto, MutationTypeOK, Steps
  <2> QED
    BY <1>1, <2>2, <2>3 DEF Execute, MutationTypeOK, environment
<1>2. ASSUME Refresh(t)
      PROVE  MutationTypeOK'
  <2>1. session' \in Controllers \cup {None, "expired"}
    BY <1>2, SessionTyped DEF Refresh
  <2>2. plans' \in [PlanIds -> Plan \cup {NoPlan}]
    BY <1>2 DEF Refresh, Consumed, MutationTypeOK
  <2>3. pc' \in [Threads -> Steps] /\ job' \in [Threads -> Job]
    BY <1>2, ReturnTyped DEF Refresh, Goto, MutationTypeOK, Steps
  <2> QED
    BY <1>2, <2>1, <2>2, <2>3 DEF Refresh, MutationTypeOK, environment
<1>3. ASSUME RefreshFails(t)
      PROVE  MutationTypeOK'
  BY <1>3, SessionTyped, ReturnTyped DEF RefreshFails, LockAfterError, MutationTypeOK, environment
<1> QED
  BY <1>1, <1>2, <1>3

LEMMA VerifyTyped ==
  ASSUME MutationTypeOK, NEW t \in Threads
  PROVE  /\ VerifyDirectly(t) => MutationTypeOK'
         /\ RequireExactProfile(t) => MutationTypeOK'
         /\ ProfileFails(t) => MutationTypeOK'
         /\ Enter(t) => MutationTypeOK'
         /\ EnterRefused(t) => MutationTypeOK'
<1>1. VerifyDirectly(t) => MutationTypeOK'
  BY DEF VerifyDirectly, Goto, MutationTypeOK, Steps, environment
<1>2. ASSUME RequireExactProfile(t)
      PROVE  MutationTypeOK'
  <2>1. PICK c \in Controllers :
          Inventory(c) /\ IF c \in ExactP9 THEN Goto(t, "queued") /\ UNCHANGED job ELSE Return(t)
    BY <1>2 DEF RequireExactProfile
  <2>2. session' \in Controllers \cup {None, "expired"} /\ cache' \in Controllers \cup {None}
    BY <2>1, SessionTyped DEF Inventory, MutationTypeOK
  <2>3. pc' \in [Threads -> Steps] /\ job' \in [Threads -> Job]
    BY <2>1, ReturnTyped DEF Goto, MutationTypeOK, Steps
  <2> QED
    BY <1>2, <2>2, <2>3 DEF RequireExactProfile, MutationTypeOK, environment
<1>3. ProfileFails(t) => MutationTypeOK'
  BY SessionTyped, ReturnTyped DEF ProfileFails, MutationTypeOK, environment
<1>4. Enter(t) => MutationTypeOK'
  BY SessionTyped DEF Enter, Goto, MutationTypeOK, Steps, Verification, environment
<1>5. EnterRefused(t) => MutationTypeOK'
  BY ReturnTyped DEF EnterRefused, MutationTypeOK, environment
<1> QED
  BY <1>1, <1>2, <1>3, <1>4, <1>5

LEMMA SentTyped ==
  ASSUME MutationTypeOK, NEW t \in Threads, Sent(t), Counted(t),
         job[t].before \in Values
  PROVE  /\ setting' \in [Controllers -> Values]
         /\ late' \subseteq [controller : Controllers, value : Values]
         /\ writes' \in [PlanIds -> Nat]
<1>1. setting' \in [Controllers -> Values]
  BY DEF Sent, MutationTypeOK
<1>2. late' \subseteq [controller : Controllers, value : Values]
  BY DEF Sent, MutationTypeOK
<1>3. writes' \in [PlanIds -> Nat]
  BY DEF Counted, MutationTypeOK, Job
<1> QED
  BY <1>1, <1>2, <1>3

LEMMA NoopTyped ==
  ASSUME MutationTypeOK, NEW t \in Threads,
         pc[t] \in Writing => job[t].before \in Values
  PROVE  /\ Preflight(t) => MutationTypeOK'
         /\ PreflightFails(t) => MutationTypeOK'
         /\ Write(t) => MutationTypeOK'
         /\ Verify(t) => MutationTypeOK'
         /\ VerifyFails(t) => MutationTypeOK'
         /\ Escape(t) => MutationTypeOK'
         /\ Rollback(t) => MutationTypeOK'
         /\ RollbackVerify(t) => MutationTypeOK'
<1>1. ASSUME Preflight(t)
      PROVE  MutationTypeOK'
  <2>1. job' \in [Threads -> Job]
    <3>1. router \in Controllers /\ setting[router] \in Values /\ job[t] \in Job
      BY DEF MutationTypeOK
    <3>2. [job[t] EXCEPT !.target = router, !.before = setting[router]] \in Job
      BY <3>1 DEF Job
    <3> QED
      BY <1>1, <3>2 DEF Preflight, MutationTypeOK
  <2>2. pc' \in [Threads -> Steps]
    BY <1>1 DEF Preflight, Goto, MutationTypeOK, Steps, Verification, Writing
  <2> QED
    BY <1>1, <2>1, <2>2 DEF Preflight, MutationTypeOK, environment
<1>2. PreflightFails(t) => MutationTypeOK'
  BY ReturnTyped DEF PreflightFails, LockAfterError, MutationTypeOK, environment
<1>3. ASSUME Write(t)
      PROVE  MutationTypeOK'
  <2>1. PICK ok \in BOOLEAN : job' = [job EXCEPT ![t].accepted = ok]
    BY <1>3 DEF Write
  <2>2. job' \in [Threads -> Job]
    BY <2>1 DEF MutationTypeOK, Job
  <2>3. pc' \in [Threads -> Steps]
    BY <1>3 DEF Write, Goto, MutationTypeOK, Steps, Verification, Comparing
  <2>4. job[t].before \in Values
    BY <1>3 DEF Write, Writing
  <2> QED
    BY <1>3, <2>2, <2>3, <2>4, SentTyped DEF Write, MutationTypeOK
<1>4. Verify(t) => MutationTypeOK'
  BY ReturnTyped DEF Verify, MustLatch, MutationTypeOK, environment
<1>5. VerifyFails(t) => MutationTypeOK'
  BY DEF VerifyFails, Goto, MutationTypeOK, Steps, Verification, Writing, environment
<1>6. ASSUME Rollback(t)
      PROVE  MutationTypeOK'
  <2>1. pc' \in [Threads -> Steps]
    BY <1>6 DEF Rollback, Goto, MutationTypeOK, Steps, Verification, Comparing
  <2>2. job[t].before \in Values
    BY <1>6 DEF Rollback, Writing
  <2> QED
    BY <1>6, <2>1, <2>2, SentTyped DEF Rollback, MutationTypeOK
<1>7. RollbackVerify(t) => MutationTypeOK'
  BY ReturnTyped DEF RollbackVerify, MutationTypeOK, environment
<1>8. Escape(t) => MutationTypeOK'
  BY ReturnTyped DEF Escape, LockAfterError, MutationTypeOK, environment
<1> QED
  BY <1>1, <1>2, <1>3, <1>4, <1>5, <1>6, <1>7, <1>8

LEMMA AroundTyped ==
  ASSUME MutationTypeOK, OtherStep \/ ExternalStep
  PROVE  MutationTypeOK'
<1>1. ASSUME NEW p \in PlanIds, Expire(p)
      PROVE  MutationTypeOK'
  BY <1>1 DEF Expire, MutationTypeOK, environment
<1>2. CASE RefreshCache
  BY <1>2, SessionTyped DEF RefreshCache, MutationTypeOK, environment
<1>3. CASE ReadEndpoint
  BY <1>3 DEF ReadEndpoint, MutationTypeOK, environment
<1>4. CASE Close
  BY <1>4 DEF Close, MutationTypeOK, environment
<1>5. CASE Restart
  BY <1>5, NoJobTyped DEF Restart, MutationTypeOK, Steps
<1>6. CASE SwapRouter
  BY <1>6 DEF SwapRouter, MutationTypeOK, state
<1>7. CASE SessionExpires
  BY <1>7 DEF SessionExpires, MutationTypeOK, environment
<1>8. ASSUME NEW c \in Controllers, NEW v \in Values, OwnerSets(c, v)
      PROVE  MutationTypeOK'
  BY <1>8 DEF OwnerSets, MutationTypeOK, state
<1>9. CASE LateApply
  BY <1>9 DEF LateApply, MutationTypeOK, state
<1>10. CASE Tick
  BY <1>10 DEF Tick, MutationTypeOK, state
<1> QED
  BY <1>1, <1>2, <1>3, <1>4, <1>5, <1>6, <1>7, <1>8, <1>9, <1>10 DEF OtherStep, ExternalStep


-------------------------------------------------------------------------------
\* The invariant's parts about lock, session, plans and writes.

LEMMA QuietPreserves ==
  ASSUME MutationInv, MutationTypeOK',
         UNCHANGED <<lock, plans, latched, pc, job, issued, writes>>,
         \A t \in Threads : pc[t] \in Writing \cup Comparing => session' \in {session, "expired"}
  PROVE  MutationInv'
<1>1. TokenOfTarget'
  BY DEF MutationInv, TokenOfTarget
<1> QED
  BY <1>1 DEF MutationInv, LockIsHeld, NothingOnceLatched, PlansCarried, WritesCounted,
              AtMostTwoWrites, Pending

\* With the lock free, no thread is inside a locked block.
LEMMA NobodyInside ==
  ASSUME MutationInv, LockFree
  PROVE  \A t \in Threads : pc[t] \notin {"refreshing"} \cup Verification
BY MutationAssumption DEF MutationInv, LockIsHeld, LockFree

LEMMA AroundPreserves ==
  ASSUME MutationInv, OtherStep \/ ExternalStep
  PROVE  MutationInv'
<1>0. MutationTypeOK'
  BY AroundTyped DEF MutationInv
<1>1. CASE RefreshCache \/ ReadEndpoint
  BY <1>0, <1>1, NobodyInside, QuietPreserves
     DEF RefreshCache, ReadEndpoint, MayRead, Verification
<1>2. CASE SwapRouter \/ LateApply \/ Tick \/ \E c \in Controllers, v \in Values : OwnerSets(c, v)
  BY <1>0, <1>2, QuietPreserves DEF SwapRouter, LateApply, Tick, OwnerSets, state
<1>3. CASE SessionExpires
  BY <1>0, <1>3, QuietPreserves DEF SessionExpires
<1>4. ASSUME NEW p \in PlanIds, Expire(p)
      PROVE  MutationInv'
  <2>1. \A q \in PlanIds : plans'[q] \in {plans[q], NoPlan}
    BY <1>4 DEF Expire, MutationInv, MutationTypeOK
  <2>2. Pending' \subseteq Pending
    BY <2>1 DEF Pending
  <2>3. PlansCarried'
    BY <1>4, <2>1, <2>2, NobodyInside DEF Expire, MutationInv, PlansCarried
  <2> QED
    BY <1>0, <1>4, <2>2, <2>3 DEF Expire, MutationInv, LockIsHeld, NothingOnceLatched,
       TokenOfTarget, WritesCounted, AtMostTwoWrites
<1>5. CASE Close
  <2>1. Pending' = {} /\ \A q \in PlanIds : plans'[q] = NoPlan
    BY <1>5 DEF Close, Pending
  <2>2. PlansCarried'
    BY <1>5, <2>1, NobodyInside DEF Close, MutationInv, PlansCarried
  <2>3. TokenOfTarget'
    BY <1>5, NobodyInside DEF Close, TokenOfTarget, Verification
  <2> QED
    BY <1>0, <1>5, <2>1, <2>2, <2>3 DEF Close, MutationInv, LockIsHeld, NothingOnceLatched,
       WritesCounted, AtMostTwoWrites
<1>6. CASE Restart
  <2>1. Pending' = {} /\ \A q \in PlanIds : plans'[q] = NoPlan
    BY <1>6 DEF Restart, Pending
  <2>2. \A t \in Threads : pc'[t] = "idle" /\ job'[t].plan = None
    BY <1>6 DEF Restart, NoJob
  <2>3. LockIsHeld' /\ NothingOnceLatched' /\ TokenOfTarget'
    BY <1>6, <2>2, MutationAssumption DEF Restart, LockIsHeld, NothingOnceLatched,
       TokenOfTarget, Verification, Writing, Comparing
  <2>4. PlansCarried'
    BY <1>6, <2>1, <2>2 DEF Restart, MutationInv, PlansCarried, Executing, Verification,
       Writing, Comparing
  <2>5. WritesCounted' /\ AtMostTwoWrites'
    BY <1>6, <2>1, <2>2 DEF Restart, MutationInv, WritesCounted, AtMostTwoWrites, Executing,
       Verification, Writing, Comparing
  <2> QED
    BY <1>0, <2>3, <2>4, <2>5 DEF MutationInv
<1> QED
  BY <1>1, <1>2, <1>3, <1>4, <1>5, <1>6 DEF OtherStep, ExternalStep

\* A thread that holds the lock stops at nothing but returning it.
LEMMA ReturnPreserves ==
  ASSUME MutationInv, MutationTypeOK', NEW t \in Threads, Return(t),
         lock \in {t, None}, lock' = None,
         Pending' \subseteq Pending, UNCHANGED <<issued, writes>>,
         \A p \in PlanIds : plans'[p] \in {plans[p], NoPlan}
  PROVE  MutationInv'
<1>1. pc'[t] = "idle" /\ job'[t].plan = None
  BY DEF MutationInv, MutationTypeOK, Return, Goto, NoJob
<1>2. \A u \in Threads \ {t} : pc'[u] = pc[u] /\ job'[u] = job[u]
  BY DEF MutationInv, MutationTypeOK, Return, Goto
<1>3. \A u \in Threads : pc'[u] \notin {"refreshing"} \cup Verification
  <2>1. \A u \in Threads \ {t} : pc[u] \notin {"refreshing"} \cup Verification
    BY MutationAssumption DEF MutationInv, LockIsHeld
  <2> QED
    BY <1>1, <1>2, <2>1 DEF Verification, Writing, Comparing
<1>4. LockIsHeld' /\ NothingOnceLatched' /\ TokenOfTarget'
  BY <1>3, MutationAssumption DEF LockIsHeld, NothingOnceLatched, TokenOfTarget, Verification
<1>5. PlansCarried'
  BY <1>1, <1>2, <1>3 DEF MutationInv, PlansCarried, Executing, Verification, Writing, Comparing
<1>6. WritesCounted' /\ AtMostTwoWrites'
  BY <1>1, <1>2 DEF MutationInv, WritesCounted, AtMostTwoWrites, Executing, Verification,
     Writing, Comparing
<1> QED
  BY <1>4, <1>5, <1>6 DEF MutationInv

\* A step of thread t outside the locked blocks, its plan unchanged.
LEMMA OutsidePreserves ==
  ASSUME MutationInv, MutationTypeOK', NEW t \in Threads, NEW step,
         Goto(t, step), job'[t].plan = job[t].plan,
         \A u \in Threads \ {t} : job'[u] = job[u],
         \/ pc[t] = "idle" /\ step \in {"planning", "profiling"}
         \/ pc[t] = "profiling" /\ step = "queued",
         session' = session \/ LockFree,
         UNCHANGED <<lock, plans, latched, issued, writes>>
  PROVE  MutationInv'
<1>1. pc'[t] = step /\ \A u \in Threads \ {t} : pc'[u] = pc[u]
  BY DEF MutationInv, MutationTypeOK, Goto
<1>2. pc'[t] \notin {"refreshing"} \cup Verification /\ pc[t] \notin {"refreshing"} \cup Verification
  BY <1>1 DEF Verification, Writing, Comparing
<1>3. LockIsHeld' /\ NothingOnceLatched'
  BY <1>1, <1>2 DEF MutationInv, LockIsHeld, NothingOnceLatched
<1>4. TokenOfTarget'
  BY <1>1, <1>2, NobodyInside DEF MutationInv, TokenOfTarget, Verification
<1>5. PlansCarried'
  <2>1. pc[t] = "idle" => job[t].plan = None
    BY DEF MutationInv, PlansCarried
  <2>2. Pending' = Pending
    BY DEF Pending
  <2> QED
    BY <1>1, <1>2, <2>1, <2>2 DEF MutationInv, PlansCarried, Executing, Verification
<1>6. WritesCounted' /\ AtMostTwoWrites'
  <2>1. pc[t] = "idle" => job[t].plan = None
    BY DEF MutationInv, PlansCarried
  <2>2. Pending' = Pending
    BY DEF Pending
  <2> QED
    BY <1>1, <1>2, <2>1, <2>2 DEF MutationInv, WritesCounted, AtMostTwoWrites, WritesAt,
       Executing, Verification
<1> QED
  BY <1>3, <1>4, <1>5, <1>6 DEF MutationInv

LEMMA AssessPreserves ==
  ASSUME MutationInv, NEW t \in Threads, Assess(t)
  PROVE  MutationInv'
<1>0. MutationTypeOK'
  BY PlanningTyped DEF MutationInv
<1>1. CASE UNCHANGED <<pc, job>>
  BY <1>0, <1>1, NobodyInside, QuietPreserves DEF Assess, Verification
<1>2. CASE Goto(t, "planning") /\ job' = [job EXCEPT ![t].deadline = now + PlanTtl]
  <2>1. job'[t].plan = job[t].plan /\ \A u \in Threads \ {t} : job'[u] = job[u]
    BY <1>2 DEF MutationInv, MutationTypeOK, Job
  <2> QED
    BY <1>0, <1>2, <2>1, OutsidePreserves DEF Assess
<1> QED
  BY <1>1, <1>2 DEF Assess

LEMMA VerifyDirectlyPreserves ==
  ASSUME MutationInv, NEW t \in Threads, VerifyDirectly(t)
  PROVE  MutationInv'
<1>1. MutationTypeOK'
  BY VerifyTyped DEF MutationInv
<1> QED
  BY <1>1, OutsidePreserves DEF VerifyDirectly

LEMMA RegisterPreserves ==
  ASSUME MutationInv, NEW t \in Threads, Register(t)
  PROVE  MutationInv'
<1>0. MutationTypeOK'
  BY PlanningTyped DEF MutationInv
<1>1. PICK p \in PlanIds \ issued :
        /\ plans' = [plans EXCEPT ![p] = [controller |-> cache, expires |-> job[t].deadline]]
        /\ issued' = issued \cup {p}
  BY DEF Register
<1>2. \A q \in PlanIds \ {p} : plans'[q] = plans[q]
  BY <1>1 DEF MutationInv, MutationTypeOK
<1>3. Pending' \subseteq Pending \cup {p} /\ Pending \subseteq Pending'
  BY <1>1, <1>2 DEF Pending, MutationInv, PlansCarried
<1>4. pc'[t] = "idle" /\ job'[t].plan = None
  BY DEF Register, MutationInv, MutationTypeOK, Return, Goto, NoJob
<1>5. \A u \in Threads \ {t} : pc'[u] = pc[u] /\ job'[u] = job[u]
  BY DEF Register, MutationInv, MutationTypeOK, Return, Goto
<1>6. \A u \in Threads : pc'[u] \notin {"refreshing"} \cup Verification
  BY <1>4, <1>5, NobodyInside DEF Register, Verification, Writing, Comparing
<1>7. LockIsHeld' /\ NothingOnceLatched' /\ TokenOfTarget'
  BY <1>6, MutationAssumption DEF Register, LockFree, LockIsHeld, NothingOnceLatched,
     TokenOfTarget, Verification
<1>8. PlansCarried'
  <2>1. \A u \in Threads : pc'[u] \in Executing /\ job'[u].plan # None
                             => job[u].plan \in issued \ Pending
    BY <1>4, <1>5 DEF MutationInv, PlansCarried, Executing, Verification, Writing, Comparing
  <2> QED
    BY <1>1, <1>2, <1>3, <1>4, <1>5, <1>6, <2>1 DEF Register, MutationInv, PlansCarried,
       Executing, Verification, Writing, Comparing
<1>9. WritesCounted' /\ AtMostTwoWrites'
  BY <1>1, <1>3, <1>4, <1>5 DEF Register, MutationInv, PlansCarried, WritesCounted,
     AtMostTwoWrites, Executing, Verification, Writing, Comparing
<1> QED
  BY <1>0, <1>7, <1>8, <1>9 DEF MutationInv

LEMMA ExecutePreserves ==
  ASSUME MutationInv, NEW t \in Threads, NEW p \in PlanIds, Execute(t, p)
  PROVE  MutationInv'
<1>0. MutationTypeOK'
  BY ExecuteTyped DEF MutationInv
<1>1. pc'[t] = "refreshing" /\ job'[t].plan = p
  BY DEF Execute, MutationInv, MutationTypeOK, Goto, Job
<1>2. \A u \in Threads \ {t} : pc'[u] = pc[u] /\ job'[u] = job[u]
  BY DEF Execute, MutationInv, MutationTypeOK, Goto
<1>3. \A u \in Threads \ {t} : pc[u] \notin {"refreshing"} \cup Verification
  BY NobodyInside DEF Execute
<1>4. LockIsHeld' /\ NothingOnceLatched' /\ TokenOfTarget'
  BY <1>1, <1>2, <1>3 DEF Execute, LockIsHeld, NothingOnceLatched, TokenOfTarget,
     Verification, Writing, Comparing
<1>5. PlansCarried' /\ WritesCounted' /\ AtMostTwoWrites'
  BY <1>1, <1>2, <1>3 DEF Execute, MutationInv, PlansCarried, WritesCounted, AtMostTwoWrites,
     Pending, Executing, Verification, Writing, Comparing
<1> QED
  BY <1>0, <1>4, <1>5 DEF MutationInv

LEMMA RefreshPreserves ==
  ASSUME MutationInv, NEW t \in Threads, Refresh(t)
  PROVE  MutationInv'
<1>0. MutationTypeOK' /\ lock = t
  BY ExecuteTyped DEF MutationInv, Refresh, LockIsHeld
<1>1. PICK p \in Pending : p = job[t].plan
  BY DEF Refresh, MutationInv, PlansCarried
<1>2. p \in PlanIds /\ p \in issued /\ plans'[p] = NoPlan
      /\ \A q \in PlanIds \ {p} : plans'[q] = plans[q]
  BY <1>1 DEF Refresh, Consumed, MutationInv, MutationTypeOK, PlansCarried, Pending
<1>3. Pending' = Pending \ {p}
  BY <1>2 DEF Pending
<1>4. CASE Goto(t, "profiling") /\ UNCHANGED job
  <2>1. pc'[t] = "profiling" /\ pc[t] = "refreshing" /\ \A u \in Threads \ {t} : pc'[u] = pc[u]
    BY <1>4 DEF Refresh, MutationInv, MutationTypeOK, Goto
  <2>2. \A u \in Threads \ {t} : pc[u] \notin {"refreshing"} \cup Verification
    BY <1>0 DEF MutationInv, LockIsHeld
  <2>3. LockIsHeld' /\ NothingOnceLatched' /\ TokenOfTarget'
    BY <2>1, <2>2, MutationAssumption DEF Refresh, LockIsHeld, NothingOnceLatched,
       TokenOfTarget, Verification, Writing, Comparing
  <2>4. PlansCarried'
    BY <1>1, <1>2, <1>3, <1>4, <2>1, <2>2 DEF Refresh, MutationInv, PlansCarried, Executing,
       Verification, Writing, Comparing
  <2>5. WritesCounted' /\ AtMostTwoWrites'
    BY <1>1, <1>2, <1>3, <1>4, <2>1 DEF Refresh, MutationInv, WritesCounted, WritesAt,
       AtMostTwoWrites, Executing, Verification, Writing, Comparing
  <2> QED
    BY <1>0, <2>3, <2>4, <2>5 DEF MutationInv
<1>5. CASE Return(t)
  BY <1>0, <1>2, <1>3, <1>5, ReturnPreserves DEF Refresh
<1> QED
  BY <1>4, <1>5 DEF Refresh

LEMMA RequireExactProfilePreserves ==
  ASSUME MutationInv, NEW t \in Threads, RequireExactProfile(t)
  PROVE  MutationInv'
<1>0. MutationTypeOK'
  BY VerifyTyped DEF MutationInv
<1>1. CASE Goto(t, "queued") /\ UNCHANGED job
  BY <1>0, <1>1, OutsidePreserves DEF RequireExactProfile
<1>2. CASE Return(t)
  BY <1>0, <1>2, ReturnPreserves DEF RequireExactProfile, LockFree, Pending
<1> QED
  BY <1>1, <1>2 DEF RequireExactProfile

\* The steps that end a request without a change of plan.
LEMMA LeavePreserves ==
  ASSUME MutationInv, NEW t \in Threads,
         \/ RegisterFails(t) \/ RefreshFails(t) \/ ProfileFails(t) \/ EnterRefused(t)
         \/ PreflightFails(t) \/ Verify(t) \/ RollbackVerify(t) \/ Escape(t)
  PROVE  MutationInv'
<1>1. pc[t] \in Writing => job[t].before \in Values
  BY DEF MutationInv, PlansCarried
<1>2. MutationTypeOK'
  BY <1>1, PlanningTyped, ExecuteTyped, VerifyTyped, NoopTyped DEF MutationInv
<1>3. Return(t) /\ UNCHANGED <<plans, issued, writes>> /\ lock' = None
  BY DEF RegisterFails, RefreshFails, ProfileFails, EnterRefused, PreflightFails, Verify,
     RollbackVerify, Escape, LockFree, LockAfterError
<1>4. lock \in {t, None}
  BY DEF MutationInv, LockIsHeld, RegisterFails, RefreshFails, ProfileFails, EnterRefused,
     PreflightFails, Verify, RollbackVerify, Escape, LockFree, Verification, Comparing
<1> QED
  BY <1>2, <1>3, <1>4, ReturnPreserves DEF Pending

LEMMA EnterPreserves ==
  ASSUME MutationInv, NEW t \in Threads, Enter(t)
  PROVE  MutationInv'
<1>0. MutationTypeOK'
  BY VerifyTyped DEF MutationInv
<1>1. pc[t] = "queued" /\ pc'[t] = "preflight" /\ \A u \in Threads \ {t} : pc'[u] = pc[u]
  BY DEF Enter, MutationInv, MutationTypeOK, Goto
<1>2. \A u \in Threads : pc[u] \notin {"refreshing"} \cup Verification
  BY NobodyInside DEF Enter
<1>3. LockIsHeld' /\ NothingOnceLatched' /\ TokenOfTarget'
  BY <1>1, <1>2 DEF Enter, LatchOpen, LockIsHeld, NothingOnceLatched, TokenOfTarget,
     Verification, Writing, Comparing
<1>4. PlansCarried' /\ WritesCounted' /\ AtMostTwoWrites'
  BY <1>1, <1>2 DEF Enter, MutationInv, PlansCarried, WritesCounted, WritesAt,
     AtMostTwoWrites, Pending, Executing, Verification, Writing, Comparing
<1> QED
  BY <1>0, <1>3, <1>4 DEF MutationInv

\* From one step of a verification to the next, under the same lock and session.
LEMMA InsidePreserves ==
  ASSUME MutationInv, MutationTypeOK', NEW t \in Threads, NEW step \in Verification,
         Goto(t, step), pc[t] \in Verification, step \in Writing \cup Comparing,
         job'[t].plan = job[t].plan, job'[t].before \in Values,
         session \in {job'[t].target, "expired"},
         \A u \in Threads \ {t} : job'[u] = job[u],
         UNCHANGED <<lock, session, plans, latched, issued>>,
         \A p \in PlanIds \ {job[t].plan} : writes'[p] = writes[p],
         job[t].plan # None =>
           writes'[job[t].plan] = writes[job[t].plan] + (WritesAt(step) - WritesAt(pc[t]))
  PROVE  MutationInv'
<1>1. pc'[t] = step /\ \A u \in Threads \ {t} : pc'[u] = pc[u]
  BY DEF MutationInv, MutationTypeOK, Goto
<1>2. Pending' = Pending
  BY DEF Pending
<1>3. LockIsHeld' /\ NothingOnceLatched' /\ TokenOfTarget'
  BY <1>1 DEF MutationInv, LockIsHeld, NothingOnceLatched, TokenOfTarget, Verification
<1>4. job[t].plan # None => job[t].plan \in issued \ Pending
  BY DEF MutationInv, PlansCarried, Executing
<1>5. PlansCarried'
  <2>1. pc'[t] \in Executing /\ pc'[t] \notin {"refreshing", "idle", "planning"}
        /\ pc[t] \in Executing
    BY <1>1 DEF Executing, Verification, Writing, Comparing
  <2>2. \A p \in PlanIds : p \notin issued => plans[p] = NoPlan /\ writes'[p] = 0
    BY <1>4, MutationAssumption DEF MutationInv, PlansCarried
  <2>3. \A u, v \in Threads :
          pc'[u] \in Executing /\ pc'[v] \in Executing /\ job'[u].plan = job'[v].plan
          => u = v \/ job'[u].plan = None
    BY <1>1, <2>1 DEF MutationInv, PlansCarried
  <2> QED
    BY <1>1, <1>2, <1>4, <2>1, <2>2, <2>3 DEF MutationInv, PlansCarried
<1>6. job[t].plan # None => writes'[job[t].plan] = WritesAt(step)
  <2>1. WritesAt(step) \in 0 .. 2 /\ WritesAt(pc[t]) \in 0 .. 2
    BY DEF WritesAt
  <2>2. job[t].plan # None => writes[job[t].plan] = WritesAt(pc[t])
    BY DEF MutationInv, WritesCounted, Executing
  <2>3. ASSUME NEW a \in 0 .. 2, NEW b \in 0 .. 2
        PROVE  a + (b - a) = b
    OBVIOUS
  <2> QED
    BY <2>1, <2>2, <2>3
<1>7. WritesCounted'
  <2>1. \A u \in Threads \ {t} :
          pc[u] \in Executing /\ job[u].plan # None => job[u].plan # job[t].plan
                                                      /\ job[u].plan \in PlanIds
    BY DEF MutationInv, MutationTypeOK, PlansCarried, Executing
  <2>2. \A p \in Pending : p \in PlanIds /\ p # job[t].plan
    BY <1>4, MutationAssumption DEF Pending
  <2> QED
    BY <1>1, <1>2, <1>6, <2>1, <2>2 DEF MutationInv, WritesCounted
<1>8. AtMostTwoWrites'
  <2>1. WritesAt(step) <= 2
    BY DEF WritesAt
  <2>2. \A p \in PlanIds : p = job[t].plan => job[t].plan # None
    BY MutationAssumption
  <2> QED
    BY <1>6, <2>1, <2>2 DEF MutationInv, AtMostTwoWrites
<1> QED
  BY <1>3, <1>5, <1>7, <1>8 DEF MutationInv

LEMMA NoopPreserves ==
  ASSUME MutationInv, NEW t \in Threads,
         Preflight(t) \/ Write(t) \/ VerifyFails(t) \/ Rollback(t)
  PROVE  MutationInv'
<1>1. pc[t] \in Writing \cup Comparing =>
        job[t].before \in Values /\ session \in {job[t].target, "expired"}
  BY DEF MutationInv, PlansCarried, TokenOfTarget
<1>2. MutationTypeOK'
  BY <1>1, NoopTyped DEF MutationInv
<1>3. job[t] \in Job /\ (job[t].plan # None => writes[job[t].plan] \in Nat)
  BY DEF MutationInv, MutationTypeOK, Job
<1>4. CASE Preflight(t)
  <2>1. job'[t].plan = job[t].plan /\ job'[t].target = router /\ job'[t].before \in Values
        /\ \A u \in Threads \ {t} : job'[u] = job[u]
    BY <1>3, <1>4 DEF Preflight, MutationInv, MutationTypeOK, Job
  <2>2. WritesAt("writing") = 0 /\ WritesAt("preflight") = 0
    BY DEF WritesAt
  <2> QED
    BY <1>2, <1>3, <1>4, <2>1, <2>2, InsidePreserves DEF Preflight, Live, Verification, Writing
<1>5. CASE Write(t)
  <2>1. PICK ok \in BOOLEAN : job' = [job EXCEPT ![t].accepted = ok]
    BY <1>5 DEF Write
  <2>2. job'[t].plan = job[t].plan /\ job'[t].target = job[t].target
        /\ job'[t].before = job[t].before /\ \A u \in Threads \ {t} : job'[u] = job[u]
    BY <1>3, <2>1 DEF MutationInv, MutationTypeOK, Job
  <2>3. WritesAt("writing") = 0 /\ WritesAt("verifying") = 1
    BY DEF WritesAt
  <2>4. /\ \A p \in PlanIds \ {job[t].plan} : writes'[p] = writes[p]
        /\ job[t].plan # None => writes'[job[t].plan] = writes[job[t].plan] + 1
    BY <1>3, <1>5 DEF Write, Counted, MutationInv, MutationTypeOK, Job
  <2> QED
    BY <1>1, <1>2, <1>5, <2>2, <2>3, <2>4, InsidePreserves
       DEF Write, Verification, Writing, Comparing
<1>6. CASE VerifyFails(t)
  <2>1. WritesAt("rollingBack") = 1 /\ WritesAt("verifying") = 1
    BY DEF WritesAt
  <2> QED
    BY <1>1, <1>2, <1>3, <1>6, <2>1, InsidePreserves
       DEF VerifyFails, Verification, Writing, Comparing
<1>7. CASE Rollback(t)
  <2>1. WritesAt("rollingBack") = 1 /\ WritesAt("rollbackVerifying") = 2
    BY DEF WritesAt
  <2>2. /\ \A p \in PlanIds \ {job[t].plan} : writes'[p] = writes[p]
        /\ job[t].plan # None => writes'[job[t].plan] = writes[job[t].plan] + 1
    BY <1>3, <1>7 DEF Rollback, Counted, MutationInv, MutationTypeOK, Job
  <2> QED
    BY <1>1, <1>2, <1>7, <2>1, <2>2, InsidePreserves
       DEF Rollback, Verification, Writing, Comparing
<1> QED
  BY <1>4, <1>5, <1>6, <1>7

-------------------------------------------------------------------------------
LEMMA MutationInitEstablishes == MutationInit => MutationInv
<1> SUFFICES ASSUME MutationInit PROVE MutationInv
  OBVIOUS
<1>1. \A t \in Threads : pc[t] = "idle" /\ job[t] = NoJob /\ job[t].plan = None
  BY DEF MutationInit, NoJob
<1>2. MutationTypeOK
  BY NoJobTyped DEF MutationInit, MutationTypeOK, Steps
<1>3. LockIsHeld /\ NothingOnceLatched /\ TokenOfTarget
  BY <1>1, MutationAssumption DEF MutationInit, LockIsHeld, NothingOnceLatched, TokenOfTarget,
     Verification, Writing, Comparing
<1>4. PlansCarried /\ WritesCounted /\ AtMostTwoWrites
  BY <1>1 DEF MutationInit, PlansCarried, WritesCounted, AtMostTwoWrites, Pending, Executing,
     Verification, Writing, Comparing
<1> QED
  BY <1>2, <1>3, <1>4 DEF MutationInv

LEMMA MutationStepPreserves == MutationInv /\ [MutationNext]_vars => MutationInv'
<1> SUFFICES ASSUME MutationInv, [MutationNext]_vars PROVE MutationInv'
  OBVIOUS
<1>1. ASSUME NEW t \in Threads, ThreadStep(t)
      PROVE  MutationInv'
  <2>1. CASE Assess(t) \/ Register(t) \/ VerifyDirectly(t)
    BY <2>1, AssessPreserves, RegisterPreserves, VerifyDirectlyPreserves
  <2>2. CASE \E p \in PlanIds : Execute(t, p)
    BY <2>2, ExecutePreserves
  <2>3. CASE RequireExactProfile(t) \/ Enter(t) \/ Refresh(t)
    BY <2>3, RequireExactProfilePreserves, EnterPreserves, RefreshPreserves
  <2>4. CASE \/ RegisterFails(t) \/ RefreshFails(t) \/ ProfileFails(t) \/ EnterRefused(t)
             \/ PreflightFails(t) \/ Verify(t) \/ RollbackVerify(t) \/ Escape(t)
    BY <2>4, LeavePreserves
  <2>5. CASE Preflight(t) \/ Write(t) \/ VerifyFails(t) \/ Rollback(t)
    BY <2>5, NoopPreserves
  <2> QED
    BY <1>1, <2>1, <2>2, <2>3, <2>4, <2>5 DEF ThreadStep, LockedStep
<1>2. CASE OtherStep \/ ExternalStep
  BY <1>2, AroundPreserves
<1>3. CASE UNCHANGED vars
  <2>1. MutationTypeOK'
    BY <1>3 DEF vars, state, environment, MutationInv, MutationTypeOK
  <2> QED
    BY <1>3, <2>1, QuietPreserves DEF vars, state
<1> QED
  BY <1>1, <1>2, <1>3 DEF MutationNext

\* The invariant holds in every behaviour of the service.
THEOREM MutationInvariance == MutationSpec => []MutationInv
BY MutationInitEstablishes, MutationStepPreserves, PTL DEF MutationSpec

\* A plan sends at most two writes, over all its executions, threads and restarts.
THEOREM TwoWritesPerPlan == MutationSpec => []AtMostTwoWrites
BY MutationInvariance, PTL DEF MutationInv

\* No verification is under way once the latch is closed.
THEOREM LatchStopsWrites == MutationSpec => []NothingOnceLatched
BY MutationInvariance, PTL DEF MutationInv

LEMMA TokenKeepsTarget == MutationInv => WritesStayOnTarget
BY MutationAssumption DEF MutationInv, MutationTypeOK, TokenOfTarget, WritesStayOnTarget, Live

\* Whatever becomes of router and session, a write reaches no controller but the one
\* whose value it restores.
THEOREM WritesReachTarget == MutationSpec => []WritesStayOnTarget
BY MutationInvariance, TokenKeepsTarget, PTL

-------------------------------------------------------------------------------
\* What a verification may leave behind, as long as the owner keeps out of it.

LEMMA OneInside ==
  ASSUME MutationInv, NEW t \in Threads, pc[t] \in Verification
  PROVE  \A u \in Threads \ {t} : pc[u] \notin Verification
BY DEF MutationInv, LockIsHeld

LEMMA DriftFrame ==
  ASSUME DriftInv, UNCHANGED <<setting, late, baseline, interrupted>>, latched' = latched,
         \A t \in Threads :
           \/ pc'[t] = pc[t] /\ job'[t] = job[t]
           \/ /\ pc'[t] \notin Writing \cup Comparing
              /\ pc[t] \notin Comparing \cup {"rollingBack"}
  PROVE  DriftInv'
<1>1. (\A t \in Threads : pc'[t] \notin Comparing \cup {"rollingBack"})
      => \A t \in Threads : pc[t] \notin Comparing \cup {"rollingBack"}
  OBVIOUS
<1> QED
  BY <1>1 DEF DriftInv, Writing, Comparing

LEMMA DriftVerify ==
  ASSUME MutationInv, DriftInv, NEW t \in Threads, Verify(t)
  PROVE  DriftInv'
<1> SUFFICES ASSUME ~interrupted', ~latched'
             PROVE  /\ setting' = baseline' /\ late' = {}
                    /\ \A u \in Threads : pc'[u] \notin Writing \cup Comparing
  BY DEF DriftInv, Comparing
<1>1. ~interrupted /\ ~latched /\ job[t].accepted /\ Unchanged(t)
  BY DEF Verify, MustLatch, environment
<1>2. router = job[t].target /\ setting[router] = job[t].before
  BY <1>1, TokenKeepsTarget DEF Verify, Unchanged, WritesStayOnTarget, Comparing
<1>3. /\ job[t].before = baseline[job[t].target]
      /\ \A c \in Controllers \ {job[t].target} : setting[c] = baseline[c]
      /\ late = {}
  BY <1>1 DEF DriftInv, Verify, Comparing
<1>4. setting = baseline
  BY <1>2, <1>3 DEF MutationInv, MutationTypeOK
<1>5. \A u \in Threads : pc'[u] \notin Writing \cup Comparing
  BY OneInside DEF Verify, Return, Goto, MutationInv, MutationTypeOK, Verification, Writing,
     Comparing
<1> QED
  BY <1>3, <1>4, <1>5 DEF Verify, environment

LEMMA DriftPreflight ==
  ASSUME MutationInv, DriftInv, NEW t \in Threads, Preflight(t)
  PROVE  DriftInv'
<1> SUFFICES ASSUME ~interrupted, ~latched
             PROVE  DriftInv'
  BY DEF DriftInv, Preflight, environment
<1>1. \A u \in Threads \ {t} : pc'[u] = pc[u] /\ pc[u] \notin Verification
  BY OneInside DEF Preflight, Goto, MutationInv, MutationTypeOK, Verification
<1>2. pc[t] = "preflight" /\ pc'[t] = "writing"
  BY DEF Preflight, Goto, MutationInv, MutationTypeOK
<1>3. job'[t].target = router /\ job'[t].before = setting[router]
  BY DEF Preflight, MutationInv, MutationTypeOK, Job
<1>4. setting = baseline /\ late = {}
  BY <1>1, <1>2 DEF DriftInv, Verification, Writing, Comparing
<1> QED
  BY <1>1, <1>2, <1>3, <1>4 DEF DriftInv, Preflight, environment, Verification, Writing, Comparing

LEMMA DriftWrite ==
  ASSUME MutationInv, DriftInv, NEW t \in Threads, Write(t)
  PROVE  DriftInv'
<1> SUFFICES ASSUME ~interrupted, ~latched
             PROVE  DriftInv'
  BY DEF DriftInv, Write
<1>1. \A u \in Threads \ {t} : pc'[u] = pc[u] /\ pc[u] \notin Verification
  BY OneInside DEF Write, Goto, MutationInv, MutationTypeOK, Verification, Writing
<1>2. pc[t] = "writing" /\ pc'[t] = "verifying"
  BY DEF Write, Goto, MutationInv, MutationTypeOK
<1>3. PICK ok \in IF Answered THEN BOOLEAN ELSE {FALSE} : job' = [job EXCEPT ![t].accepted = ok]
  BY DEF Write
<1>4. job'[t].target = job[t].target /\ job'[t].before = job[t].before /\ job'[t].accepted = ok
  BY <1>3 DEF MutationInv, MutationTypeOK, Job
<1>5. setting = baseline /\ late = {}
  BY <1>1, <1>2 DEF DriftInv, Verification, Writing, Comparing
<1>6. job[t].before = baseline[job[t].target]
  BY <1>2 DEF DriftInv, Writing
<1>7. Live => router = job[t].target
  BY <1>2, TokenKeepsTarget DEF WritesStayOnTarget, Writing
<1>8. \A c \in Controllers \ {job[t].target} : setting'[c] = baseline[c]
  BY <1>5, <1>7 DEF Write, Sent, MutationInv, MutationTypeOK
<1>9. \A w \in late' : w.controller = job[t].target
  BY <1>5, <1>7 DEF Write, Sent
<1>10. ok => late' = {}
  BY <1>5 DEF Answered
<1> QED
  BY <1>1, <1>2, <1>4, <1>6, <1>8, <1>9, <1>10 DEF DriftInv, Write, Verification, Writing, Comparing

LEMMA DriftRollback ==
  ASSUME MutationInv, DriftInv, NEW t \in Threads, VerifyFails(t) \/ Rollback(t)
  PROVE  DriftInv'
<1>1. \A u \in Threads \ {t} : pc'[u] = pc[u] /\ pc[u] \notin Verification
  BY OneInside DEF VerifyFails, Rollback, Goto, MutationInv, MutationTypeOK, Verification,
     Writing, Comparing
<1>2. pc[t] \in Writing \cup Comparing /\ pc'[t] \in {"rollingBack", "rollbackVerifying"}
  BY DEF VerifyFails, Rollback, Goto, MutationInv, MutationTypeOK, Writing, Comparing
<1> QED
  BY <1>1, <1>2 DEF DriftInv, VerifyFails, Rollback, environment, Verification, Writing, Comparing

LEMMA DriftLateApply ==
  ASSUME MutationInv, DriftInv, LateApply
  PROVE  DriftInv'
<1>1. PICK w \in late :
        /\ late' = late \ {w}
        /\ setting' = [setting EXCEPT ![w.controller] = w.value]
  BY DEF LateApply
<1>2. UNCHANGED <<pc, job, latched, interrupted, baseline>>
  BY DEF LateApply, state
<1>3. ASSUME NEW t \in Threads, ~interrupted, ~latched, pc[t] = "verifying"
      PROVE  /\ \A c \in Controllers \ {job[t].target} : setting'[c] = baseline[c]
             /\ job[t].accepted => late' = {}
             /\ \A v \in late' : v.controller = job[t].target
  <2>1. w.controller = job[t].target /\ ~job[t].accepted
    BY <1>1, <1>3 DEF DriftInv
  <2> QED
    BY <1>1, <1>3, <2>1 DEF DriftInv, MutationInv, MutationTypeOK
<1> QED
  BY <1>1, <1>2, <1>3 DEF DriftInv

LEMMA DriftOwner ==
  ASSUME MutationInv, DriftInv, ~OwnerConcurrent,
         NEW c \in Controllers, NEW v \in Values, OwnerSets(c, v)
  PROVE  DriftInv'
<1>1. \A t \in Threads : pc[t] \notin Writing \cup Comparing
  BY DEF OwnerSets, Verifying, Verification
<1> QED
  BY <1>1 DEF DriftInv, OwnerSets, state, Writing, Comparing

LEMMA DriftRestart ==
  ASSUME DriftInv, Restart
  PROVE  DriftInv'
<1>1. \A t \in Threads : pc'[t] \notin Writing \cup Comparing
  BY DEF Restart, Writing, Comparing
<1> QED
  BY <1>1 DEF DriftInv, Restart, Writing, Comparing

LEMMA DriftStep ==
  ASSUME MutationInv, DriftInv, OnlyRequestErrors, ~OwnerConcurrent, [MutationNext]_vars
  PROVE  DriftInv'
<1>1. CASE UNCHANGED vars
  BY <1>1, DriftFrame DEF vars, state, environment
<1>2. CASE OtherStep
  <2>1. CASE Restart
    BY <2>1, DriftRestart
  <2>2. CASE RefreshCache \/ ReadEndpoint \/ Close \/ \E p \in PlanIds : Expire(p)
    BY <2>2, DriftFrame DEF RefreshCache, ReadEndpoint, Close, Expire, environment
  <2> QED
    BY <1>2, <2>1, <2>2 DEF OtherStep
<1>3. CASE ExternalStep
  <2>1. CASE SwapRouter \/ SessionExpires \/ Tick
    BY <2>1, DriftFrame DEF SwapRouter, SessionExpires, Tick, state, environment
  <2> QED
    BY <1>3, <2>1, DriftLateApply, DriftOwner DEF ExternalStep
<1>4. ASSUME NEW t \in Threads, ThreadStep(t)
      PROVE  DriftInv'
  <2>1. CASE Verify(t) \/ Preflight(t) \/ Write(t) \/ VerifyFails(t) \/ Rollback(t)
    BY <2>1, DriftVerify, DriftPreflight, DriftWrite, DriftRollback
  <2>2. CASE RollbackVerify(t)
    BY <2>2 DEF RollbackVerify, DriftInv
  <2>4. ~Escape(t)
    BY DEF Escape
  <2>3. CASE \/ Assess(t) \/ Register(t) \/ RegisterFails(t) \/ VerifyDirectly(t)
             \/ RequireExactProfile(t) \/ ProfileFails(t) \/ Enter(t) \/ EnterRefused(t)
             \/ Refresh(t) \/ RefreshFails(t) \/ PreflightFails(t)
             \/ \E p \in PlanIds : Execute(t, p)
    <3>1. UNCHANGED <<setting, late, baseline, interrupted, latched>>
      BY <2>3 DEF Assess, Register, RegisterFails, VerifyDirectly, RequireExactProfile,
         ProfileFails, Enter, EnterRefused, Refresh, RefreshFails, PreflightFails, Execute,
         environment
    <3>2. \A u \in Threads \ {t} : pc'[u] = pc[u] /\ job'[u] = job[u]
      BY <2>3 DEF Assess, Register, RegisterFails, VerifyDirectly, RequireExactProfile,
         ProfileFails, Enter, EnterRefused, Refresh, RefreshFails, PreflightFails, Execute,
         Return, Goto, MutationInv, MutationTypeOK
    <3>3. /\ pc[t] \notin Comparing \cup {"rollingBack"}
          /\ pc'[t] \notin Writing \cup Comparing
      BY <2>3 DEF Assess, Register, RegisterFails, VerifyDirectly, RequireExactProfile,
         ProfileFails, Enter, EnterRefused, Refresh, RefreshFails, PreflightFails, Execute,
         Return, Goto, MutationInv, MutationTypeOK, Writing, Comparing
    <3> QED
      BY <3>1, <3>2, <3>3, DriftFrame
  <2> QED
    BY <1>4, <2>1, <2>2, <2>3, <2>4 DEF ThreadStep, LockedStep
<1> QED
  BY <1>1, <1>2, <1>3, <1>4 DEF MutationNext

\* If the owner keeps out of running verifications and no router answer breaks off:
\* whatever writes are lost, delayed or misapplied, a setting that is not the owner's
\* is reported by a closed latch.
THEOREM DriftReported ==
  ASSUME OnlyRequestErrors, ~OwnerConcurrent
  PROVE  MutationSpec => []DriftIsLatched
<1>1. MutationInit => DriftInv
  BY DEF MutationInit, DriftInv, Writing, Comparing
<1>2. MutationInv /\ DriftInv /\ [MutationNext]_vars => DriftInv'
  BY DriftStep
<1>3. DriftInv => DriftIsLatched
  BY DEF DriftInv, DriftIsLatched, Verifying, Verification, Writing, Comparing
<1> QED
  BY <1>1, <1>2, <1>3, MutationInvariance, PTL DEF MutationSpec

-------------------------------------------------------------------------------
\* The service implements OneShotPlans.

LEMMA PlansFrame ==
  ASSUME UNCHANGED <<issued, plans, writes>>, Claimed' = Claimed
  PROVE  UNCHANGED OneShot!planVars
BY DEF OneShot!planVars, Pending

\* A step that neither begins nor ends an execution leaves the claims alone.
LEMMA ClaimsFrame ==
  ASSUME \A t \in Threads :
           \/ pc'[t] \notin Executing /\ pc[t] \notin Executing
           \/ /\ job'[t].plan = job[t].plan
              /\ pc'[t] \in Executing <=> pc[t] \in Executing
           \/ /\ job[t].plan = None \/ pc[t] \notin Executing
              /\ job'[t].plan = None \/ pc'[t] \notin Executing
  PROVE  Claimed' = Claimed
BY MutationAssumption DEF Claimed

\* The end of an execution gives the plan's claim back, if it ran for a plan.
LEMMA ReturnSettles ==
  ASSUME MutationInv, NEW t \in Threads, Return(t), UNCHANGED <<issued, plans, writes>>
  PROVE  [OneShot!Next]_OneShot!planVars
<1>1. pc'[t] = "idle" /\ \A u \in Threads \ {t} : pc'[u] = pc[u] /\ job'[u] = job[u]
  BY DEF MutationInv, MutationTypeOK, Return, Goto
<1>2. pc'[t] \notin Executing
  BY <1>1 DEF Executing, Verification, Writing, Comparing
<1>3. CASE pc[t] \notin Executing \/ job[t].plan = None
  <2>1. Claimed' = Claimed
    BY <1>1, <1>2, <1>3, ClaimsFrame
  <2> QED
    BY <2>1, PlansFrame
<1>4. CASE pc[t] \in Executing /\ job[t].plan # None
  <2>1. job[t].plan \in PlanIds /\ job[t].plan \in Claimed
    BY <1>4 DEF MutationInv, PlansCarried, MutationTypeOK, Claimed
  <2>2. \A u \in Threads \ {t} : pc[u] \in Executing => job[u].plan # job[t].plan
    BY <1>4 DEF MutationInv, PlansCarried
  <2>3. Claimed' = Claimed \ {job[t].plan}
    BY <1>1, <1>2, <2>2 DEF Claimed
  <2>4. OneShot!Settle(job[t].plan)
    BY <2>1, <2>3 DEF OneShot!Settle, Pending
  <2> QED
    BY <2>1, <2>4 DEF OneShot!Next
<1> QED
  BY <1>3, <1>4

LEMMA RegisterIssues ==
  ASSUME MutationInv, NEW t \in Threads, Register(t)
  PROVE  [OneShot!Next]_OneShot!planVars
<1>1. PICK p \in PlanIds \ issued :
        /\ plans' = [plans EXCEPT ![p] = [controller |-> cache, expires |-> job[t].deadline]]
        /\ issued' = issued \cup {p}
  BY DEF Register
<1>2. plans'[p].controller # None /\ \A q \in PlanIds \ {p} : plans'[q] = plans[q]
  BY <1>1 DEF Register, IdentityKnown, MutationInv, MutationTypeOK
<1>3. Pending' = Pending \cup {p}
  BY <1>2 DEF Pending, NoPlan
<1>4. pc'[t] = "idle" /\ pc[t] = "planning"
      /\ \A u \in Threads \ {t} : pc'[u] = pc[u] /\ job'[u] = job[u]
  BY DEF Register, Return, Goto, MutationInv, MutationTypeOK
<1>5. Claimed' = Claimed
  BY <1>4, ClaimsFrame DEF Executing, Verification, Writing, Comparing
<1>6. OneShot!Issue(p)
  BY <1>1, <1>3, <1>5 DEF OneShot!Issue, Register
<1> QED
  BY <1>6 DEF OneShot!Next

LEMMA RefreshClaims ==
  ASSUME MutationInv, NEW t \in Threads, Refresh(t)
  PROVE  [OneShot!Next]_OneShot!planVars
<1>1. PICK p \in Pending : p = job[t].plan
  BY DEF Refresh, MutationInv, PlansCarried
<1>2. p \in PlanIds /\ plans'[p] = NoPlan /\ \A q \in PlanIds \ {p} : plans'[q] = plans[q]
  BY <1>1 DEF Refresh, Consumed, MutationInv, MutationTypeOK, Pending
<1>3. Pending' = Pending \ {p}
  BY <1>2 DEF Pending
<1>4. \A u \in Threads \ {t} : pc'[u] = pc[u] /\ job'[u] = job[u]
  BY DEF Refresh, Return, Goto, MutationInv, MutationTypeOK
<1>5. pc[t] = "refreshing" /\ "refreshing" \notin Executing
  BY DEF Refresh, Executing, Verification, Writing, Comparing
<1>6. CASE Goto(t, "profiling") /\ UNCHANGED job
  <2>1. pc'[t] = "profiling" /\ pc'[t] \in Executing /\ job'[t].plan = p
    BY <1>1, <1>6 DEF Goto, MutationInv, MutationTypeOK, Executing
  <2>2. Claimed' = Claimed \cup {p}
    BY <1>2, <1>4, <1>5, <2>1 DEF Claimed
  <2>3. OneShot!Claim(p)
    BY <1>1, <1>3, <2>2 DEF OneShot!Claim, Refresh
  <2> QED
    BY <1>2, <2>3 DEF OneShot!Next
<1>7. CASE Return(t)
  <2>1. pc'[t] = "idle" /\ pc'[t] \notin Executing
    BY <1>7 DEF Return, Goto, MutationInv, MutationTypeOK, Executing, Verification, Writing,
       Comparing
  <2>2. Claimed' = Claimed
    BY <1>4, <1>5, <2>1, ClaimsFrame
  <2>3. OneShot!Drop({p})
    BY <1>3, <2>2 DEF OneShot!Drop, Refresh
  <2> QED
    BY <1>1, <2>3 DEF OneShot!Next
<1> QED
  BY <1>6, <1>7 DEF Refresh

LEMMA SendingWrites ==
  ASSUME MutationInv, NEW t \in Threads, Write(t) \/ Rollback(t)
  PROVE  [OneShot!Next]_OneShot!planVars
<1>1. /\ pc[t] \in Executing /\ pc'[t] \in Executing
      /\ job'[t].plan = job[t].plan
      /\ \A u \in Threads \ {t} : pc'[u] = pc[u] /\ job'[u] = job[u]
  <2>1. CASE Write(t)
    <3>1. PICK ok : job' = [job EXCEPT ![t].accepted = ok]
      BY <2>1 DEF Write
    <3> QED
      BY <2>1, <3>1 DEF Write, Goto, MutationInv, MutationTypeOK, Job, Executing, Verification,
         Writing, Comparing
  <2>2. CASE Rollback(t)
    BY <2>2 DEF Rollback, Goto, MutationInv, MutationTypeOK, Executing, Verification, Writing,
       Comparing
  <2> QED
    BY <2>1, <2>2
<1>2. Claimed' = Claimed
  BY <1>1, ClaimsFrame
<1>3. UNCHANGED <<issued, plans>> /\ Pending' = Pending
  BY DEF Write, Rollback, Pending, environment
<1>4. CASE job[t].plan = None
  <2>1. writes' = writes
    BY <1>4 DEF Write, Rollback, Counted
  <2> QED
    BY <1>2, <1>3, <2>1, PlansFrame
<1>5. CASE job[t].plan # None
  <2>1. job[t].plan \in Claimed /\ job[t].plan \in PlanIds
    <3>1. job[t].plan \in PlanIds
      BY <1>5 DEF MutationInv, MutationTypeOK, Job
    <3> QED
      BY <1>1, <3>1 DEF Claimed
  <2>2. writes[job[t].plan] = WritesAt(pc[t]) /\ WritesAt(pc[t]) < 2
    <3>1. writes[job[t].plan] = WritesAt(pc[t])
      BY <1>1, <1>5 DEF MutationInv, WritesCounted
    <3>2. pc[t] \in {"writing", "rollingBack"}
      BY DEF Write, Rollback
    <3> QED
      BY <3>1, <3>2 DEF WritesAt
  <2>3. writes' = [writes EXCEPT ![job[t].plan] = @ + 1]
    BY <1>5 DEF Write, Rollback, Counted
  <2>4. OneShot!Write(job[t].plan)
    BY <1>2, <1>3, <2>1, <2>2, <2>3 DEF OneShot!Write
  <2> QED
    BY <2>1, <2>4 DEF OneShot!Next
<1> QED
  BY <1>4, <1>5

LEMMA AroundRefines ==
  ASSUME MutationInv, OtherStep \/ ExternalStep
  PROVE  [OneShot!Next]_OneShot!planVars
<1>1. CASE UNCHANGED <<pc, job, plans, issued, writes>>
  BY <1>1, PlansFrame DEF Claimed
<1>2. ASSUME NEW p \in PlanIds, Expire(p)
      PROVE  [OneShot!Next]_OneShot!planVars
  <2>1. plans'[p] = NoPlan /\ \A q \in PlanIds \ {p} : plans'[q] = plans[q]
    BY <1>2 DEF Expire, MutationInv, MutationTypeOK
  <2>2. Pending' = Pending \ {p} /\ Claimed' = Claimed
    BY <1>2, <2>1 DEF Expire, Pending, Claimed
  <2>3. OneShot!Drop({p})
    BY <1>2, <2>2 DEF OneShot!Drop, Expire
  <2> QED
    BY <1>2, <2>3 DEF OneShot!Next, Expire
<1>3. CASE Close
  <2>1. Pending' = Pending \ Pending /\ Claimed' = Claimed
    BY <1>3 DEF Close, Pending, Claimed
  <2>2. OneShot!Drop(Pending)
    BY <1>3, <2>1 DEF OneShot!Drop, Close
  <2> QED
    BY <2>2 DEF OneShot!Next
<1>4. CASE Restart
  <2>1. Pending' = {} /\ Claimed' = {}
    BY <1>4 DEF Restart, Pending, Claimed, Executing, Verification, Writing, Comparing
  <2>2. OneShot!Crash
    BY <1>4, <2>1 DEF OneShot!Crash, Restart
  <2> QED
    BY <2>2 DEF OneShot!Next
<1>5. ExternalStep => UNCHANGED <<pc, job, plans, issued, writes>>
  BY DEF ExternalStep, SwapRouter, SessionExpires, OwnerSets, LateApply, Tick, state
<1>6. RefreshCache \/ ReadEndpoint => UNCHANGED <<pc, job, plans, issued, writes>>
  BY DEF RefreshCache, ReadEndpoint
<1> QED
  BY <1>1, <1>2, <1>3, <1>4, <1>5, <1>6 DEF OtherStep

\* The steps that keep a thread outside or inside its execution.
LEMMA StayRefines ==
  ASSUME MutationInv, NEW t \in Threads,
         \/ Assess(t) \/ VerifyDirectly(t) \/ RequireExactProfile(t) \/ Enter(t)
         \/ Preflight(t) \/ VerifyFails(t) \/ \E p \in PlanIds : Execute(t, p)
  PROVE  [OneShot!Next]_OneShot!planVars
<1>1. UNCHANGED <<issued, plans, writes>>
  BY DEF Assess, VerifyDirectly, RequireExactProfile, Enter, Preflight, VerifyFails, Execute
<1>2. CASE Return(t)
  BY <1>1, <1>2, ReturnSettles
<1>3. CASE ~Return(t)
  <2>1. \A u \in Threads \ {t} : pc'[u] = pc[u] /\ job'[u] = job[u]
    BY <1>3 DEF Assess, VerifyDirectly, RequireExactProfile, Enter, Preflight, VerifyFails,
       Execute, Goto, MutationInv, MutationTypeOK
  <2>2. CASE Assess(t) \/ \E p \in PlanIds : Execute(t, p)
    <3>1. pc[t] = "idle" /\ pc'[t] \in {"idle", "planning", "refreshing"}
      BY <2>2 DEF Assess, Execute, Goto, MutationInv, MutationTypeOK
    <3>2. Claimed' = Claimed
      BY <2>1, <3>1, ClaimsFrame DEF Executing, Verification, Writing, Comparing
    <3> QED
      BY <1>1, <3>2, PlansFrame
  <2>3. CASE VerifyDirectly(t)
    <3>1. job[t].plan = None /\ job'[t].plan = None
      BY <2>3 DEF VerifyDirectly, MutationInv, PlansCarried
    <3>2. Claimed' = Claimed
      BY <2>1, <3>1, ClaimsFrame
    <3> QED
      BY <1>1, <3>2, PlansFrame
  <2>4. CASE RequireExactProfile(t) \/ Enter(t) \/ Preflight(t) \/ VerifyFails(t)
    <3>1. job'[t].plan = job[t].plan
      BY <1>3, <2>4 DEF RequireExactProfile, Enter, Preflight, VerifyFails, MutationInv,
         MutationTypeOK, Job
    <3>2. pc[t] \in Executing /\ pc'[t] \in Executing
      BY <1>3, <2>4 DEF RequireExactProfile, Enter, Preflight, VerifyFails, Goto, MutationInv,
         MutationTypeOK, Executing, Verification, Writing, Comparing
    <3>3. Claimed' = Claimed
      BY <2>1, <3>1, <3>2, ClaimsFrame
    <3> QED
      BY <1>1, <3>3, PlansFrame
  <2> QED
    BY <2>2, <2>3, <2>4
<1> QED
  BY <1>2, <1>3

\* The service implements OneShotPlans: its plans are claimed once, before their first
\* write, by one execution that sends at most two.
THEOREM MutationRefinement == MutationSpec => ImplementsOneShot
<1>1. MutationInit => OneShot!Init
  <2> SUFFICES ASSUME MutationInit PROVE OneShot!Init
    OBVIOUS
  <2>1. Pending = {} /\ Claimed = {}
    BY DEF MutationInit, Pending, Claimed, Executing, Verification, Writing, Comparing
  <2> QED
    BY <2>1 DEF OneShot!Init, MutationInit
<1>2. MutationInv /\ [MutationNext]_vars => [OneShot!Next]_OneShot!planVars
  <2> SUFFICES ASSUME MutationInv, [MutationNext]_vars
               PROVE  [OneShot!Next]_OneShot!planVars
    OBVIOUS
  <2>1. CASE UNCHANGED vars
    <3>1. Claimed' = Claimed /\ UNCHANGED <<issued, plans, writes>>
      BY <2>1 DEF vars, state, Claimed
    <3> QED
      BY <3>1, PlansFrame
  <2>2. CASE OtherStep \/ ExternalStep
    BY <2>2, AroundRefines
  <2>3. ASSUME NEW t \in Threads, ThreadStep(t)
        PROVE  [OneShot!Next]_OneShot!planVars
    <3>1. CASE \/ RegisterFails(t) \/ RefreshFails(t) \/ ProfileFails(t) \/ EnterRefused(t)
               \/ PreflightFails(t) \/ Verify(t) \/ RollbackVerify(t) \/ Escape(t)
      <4>1. Return(t) /\ UNCHANGED <<issued, plans, writes>>
        BY <3>1 DEF RegisterFails, RefreshFails, ProfileFails, EnterRefused, PreflightFails,
           Verify, RollbackVerify, Escape
      <4> QED
        BY <4>1, ReturnSettles
    <3>2. CASE Register(t) \/ Refresh(t) \/ Write(t) \/ Rollback(t)
      BY <3>2, RegisterIssues, RefreshClaims, SendingWrites
    <3>3. CASE \/ Assess(t) \/ VerifyDirectly(t) \/ RequireExactProfile(t) \/ Enter(t)
               \/ Preflight(t) \/ VerifyFails(t) \/ \E p \in PlanIds : Execute(t, p)
      BY <3>3, StayRefines
    <3> QED
      BY <2>3, <3>1, <3>2, <3>3 DEF ThreadStep, LockedStep
  <2> QED
    BY <2>1, <2>2, <2>3 DEF MutationNext
<1> QED
  BY <1>1, <1>2, MutationInvariance, PTL DEF MutationSpec, ImplementsOneShot, OneShot!Spec

\* The steps a hold of the lock may still take, at most: each is one request to the router.
HoldLeft(t) ==
  [refreshing |-> 1, preflight |-> 5, writing |-> 4, verifying |-> 3, rollingBack |-> 2,
   rollbackVerifying |-> 1][pc[t]]

\* Every step of the thread that holds the lock ends the hold or shortens what is left of
\* it, and nobody else makes it longer.
HoldShortens ==
  \A t \in Threads : lock = t =>
    /\ HoldLeft(t) \in 1..5
    /\ lock' = t => HoldLeft(t)' <= HoldLeft(t)
    /\ LockedStep(t) /\ lock' = t => HoldLeft(t)' < HoldLeft(t)

LEMMA LockedStepShortens ==
  ASSUME MutationInv, NEW t \in Threads, LockedStep(t)
  PROVE  lock' # t \/ HoldLeft(t)' < HoldLeft(t)
<1>1. t # None /\ pc \in [Threads -> Steps]
  BY MutationAssumption DEF MutationInv, MutationTypeOK
<1>2. CASE Refresh(t) \/ RefreshFails(t) \/ PreflightFails(t) \/ Verify(t) \/ Escape(t)
           \/ RollbackVerify(t)
  BY <1>1, <1>2 DEF Refresh, RefreshFails, PreflightFails, Verify, Escape, RollbackVerify,
     LockAfterError
<1>3. CASE Preflight(t)
  BY <1>1, <1>3 DEF Preflight, Goto, HoldLeft
<1>4. CASE Write(t)
  BY <1>1, <1>4 DEF Write, Goto, HoldLeft
<1>5. CASE VerifyFails(t)
  BY <1>1, <1>5 DEF VerifyFails, Goto, HoldLeft
<1>6. CASE Rollback(t)
  BY <1>1, <1>6 DEF Rollback, Goto, HoldLeft
<1> QED
  BY <1>2, <1>3, <1>4, <1>5, <1>6 DEF LockedStep

\* Under the lock, no other thread and no event moves the thread that holds it.
LEMMA HolderStays ==
  ASSUME MutationInv, [MutationNext]_vars, NEW t \in Threads, lock = t, ~LockedStep(t)
  PROVE  lock' # t \/ pc'[t] = pc[t]
<1>1. t # None /\ pc \in [Threads -> Steps] /\ pc[t] \in {"refreshing"} \cup Verification
  BY MutationAssumption DEF MutationInv, MutationTypeOK, LockIsHeld
<1>2. ~LockFree
  BY <1>1 DEF LockFree
<1>3. ASSUME NEW u \in Threads, ThreadStep(u)
      PROVE  pc'[t] = pc[t]
  <2>1. CASE u = t
    <3>1. pc[t] \notin {"idle", "planning", "profiling", "queued"}
      BY <1>1 DEF Verification, Writing, Comparing
    <3> QED
      BY <1>2, <1>3, <2>1, <3>1 DEF ThreadStep, Assess, Register, RegisterFails, Execute,
         VerifyDirectly, RequireExactProfile, ProfileFails, Enter, EnterRefused
  <2>2. CASE u # t
    <3>1. lock # u
      BY <2>2
    <3>2. pc[u] \notin {"refreshing"} \cup Verification
      BY <3>1 DEF MutationInv, LockIsHeld
    <3>3. ~LockedStep(u)
      BY <3>2 DEF LockedStep, Refresh, RefreshFails, Preflight, PreflightFails, Write, Verify,
         VerifyFails, Escape, Rollback, RollbackVerify, Verification, Writing, Comparing
    <3>4. VerifyDirectly(u)
      BY <1>2, <1>3, <3>3 DEF ThreadStep, Assess, Register, RegisterFails, Execute,
         RequireExactProfile, ProfileFails, Enter, EnterRefused
    <3> QED
      BY <1>1, <2>2, <3>4 DEF VerifyDirectly, Goto
  <2> QED
    BY <2>1, <2>2
<1>4. CASE OtherStep
  BY <1>1, <1>4 DEF OtherStep, Expire, RefreshCache, ReadEndpoint, Close, Restart
<1>5. CASE ExternalStep
  BY <1>5 DEF ExternalStep, SwapRouter, SessionExpires, OwnerSets, LateApply, Tick, state
<1>6. CASE UNCHANGED vars
  BY <1>6 DEF vars, state
<1> QED
  BY <1>3, <1>4, <1>5, <1>6 DEF MutationNext

\* The lock is kept for at most five steps, each a request to the router, whatever the
\* other threads, the router and the owner do meanwhile (execute_semantic_mutation,
\* verify_http_setting_noop; the measure behind LockReleased).
THEOREM HoldsAreShort == MutationSpec => [][HoldShortens]_vars
<1>1. MutationInv /\ [MutationNext]_vars => [HoldShortens]_vars
  <2> SUFFICES ASSUME MutationInv, MutationNext, NEW t \in Threads, lock = t
               PROVE  /\ HoldLeft(t) \in 1..5
                      /\ lock' = t => HoldLeft(t)' <= HoldLeft(t)
                      /\ LockedStep(t) /\ lock' = t => HoldLeft(t)' < HoldLeft(t)
    BY DEF HoldShortens
  <2>1. HoldLeft(t) \in 1..5
    <3>1. pc[t] \in {"refreshing"} \cup Verification
      BY DEF MutationInv, LockIsHeld
    <3> QED
      BY <3>1 DEF HoldLeft, Verification, Writing, Comparing
  <2>2. CASE LockedStep(t)
    <3>1. lock' # t \/ HoldLeft(t)' < HoldLeft(t)
      BY <2>2, LockedStepShortens
    <3>2. ASSUME lock' = t PROVE HoldLeft(t)' \in 1..5
      <4>1. MutationInv'
        BY MutationStepPreserves
      <4>2. pc'[t] \in {"refreshing"} \cup Verification
        BY <3>2, <4>1 DEF MutationInv, LockIsHeld
      <4> QED
        BY <4>2 DEF HoldLeft, Verification, Writing, Comparing
    <3> QED
      BY <2>1, <3>1, <3>2
  <2>3. CASE ~LockedStep(t)
    <3>1. lock' # t \/ pc'[t] = pc[t]
      BY <2>3, HolderStays
    <3>2. pc'[t] = pc[t] => HoldLeft(t)' = HoldLeft(t)
      BY DEF HoldLeft
    <3> QED
      BY <2>1, <2>3, <3>1, <3>2
  <2> QED
    BY <2>2, <2>3, <2>1
<1> QED
  BY <1>1, MutationInvariance, PTL DEF MutationSpec
===============================================================================
