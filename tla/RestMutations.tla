---------------------------- MODULE RestMutations -----------------------------
(***************************************************************************)
(* POST /mutation-plans/{id}/executions: the idempotency store wrapped     *)
(* around DecoService.execute_semantic_mutation, next to the MCP tool that *)
(* executes the same plans without the store.                              *)
(*                                                                         *)
(* The store is IdempotencyStore, whose operation is now an execution; the *)
(* service is OneShotPlans, which MutationService is shown to implement.   *)
(***************************************************************************)
EXTENDS Naturals, FiniteSets

CONSTANTS Keys, Callers, PlanIds, MaxRecords, Ttl, MaxTime, None

VARIABLES
  records, now, pc, request, outcome, answer, returned,   \* see IdempotencyStore
  issued, pending, writes,                                \* see OneShotPlans
  asked,    \* the plan and the confirmation of each caller's last request
  runner    \* who executes each plan at the moment: a caller, or the MCP tool

storeVars == <<records, now, pc, request, outcome, answer, returned>>
planVars  == <<issued, pending, writes, runner>>
restVars  == <<storeVars, planVars, asked>>

Mcp     == "mcp"

ASSUME RestAssumption ==
  /\ None \notin PlanIds \cup Callers \cup {Mcp}
  /\ Mcp \notin Callers
  /\ Ttl \in Nat /\ MaxTime \in Nat

Running == {p \in PlanIds : runner[p] # None}
Asked   == [plan : PlanIds, confirmed : BOOLEAN]

\* As in IdempotencyStore, ...Fault is a slip in the definition that follows it.

FingerprintFault(a) == <<CHOOSE p \in PlanIds : TRUE, a.confirmed>>

\* The digest tells every two pairs of plan id and confirmation apart.
Fingerprint(a) == <<a.plan, a.confirmed>>

\* The evidence a verification returns is that of its plan's one run.
Store == INSTANCE IdempotencyStore
  WITH Fingerprints <- PlanIds \X BOOLEAN, Results <- PlanIds

Service == INSTANCE OneShotPlans WITH running <- Running, MaxWrites <- 2

-------------------------------------------------------------------------------
RestInit ==
  /\ Store!StoreInit
  /\ asked = [c \in Callers |-> None]
  /\ issued = {}
  /\ pending = {}
  /\ writes = [p \in PlanIds |-> 0]
  /\ runner = [p \in PlanIds |-> None]

\* createMutationPlan, or the MCP tool of the same name.
CreatePlan(p) ==
  /\ UNCHANGED <<storeVars, runner, asked>>
  /\ Service!Issue(p)

\* executeMutationPlan: the store replays, refuses or starts the operation.
Submit(c, k, a) ==
  /\ Store!Execute(c, k, Fingerprint(a))
  /\ asked' = [asked EXCEPT ![c] = a]
  /\ UNCHANGED planVars

\* Unknown plan, wrong confirmation, or an identity that could not be read: raised,
\* and the plan, if there is one, stays pending.
Refuse(c) ==
  /\ Store!OperationRaises(c)
  /\ \A p \in Running : runner[p] # c
  /\ UNCHANGED <<planVars, asked>>

\* An expired plan, or one for another controller, is dropped.
RefuseAndDrop(c) ==
  /\ Store!OperationRaises(c)
  /\ \A p \in Running : runner[p] # c
  /\ asked[c].plan \in pending
  /\ UNCHANGED <<runner, asked>>
  /\ Service!Drop({asked[c].plan})

\* A plan also expires when its status is read.
Expire(p) ==
  /\ p \in pending
  /\ UNCHANGED <<storeVars, runner, asked>>
  /\ Service!Drop({p})

TakesFault(p) == p \in pending /\ UNCHANGED <<issued, pending, writes>>

\* The service consumes the plan before it runs it.
Takes(p) == Service!Claim(p)

Start(c) ==
  LET p == asked[c].plan
  IN  /\ pc[c] = "operating"
      /\ asked[c].confirmed
      /\ p \in pending
      /\ runner' = [runner EXCEPT ![p] = c]
      /\ Takes(p)
      /\ UNCHANGED <<storeVars, asked>>

StartByMcp(p) ==
  /\ p \in pending
  /\ runner' = [runner EXCEPT ![p] = Mcp]
  /\ Takes(p)
  /\ UNCHANGED <<storeVars, asked>>

Write(p) ==
  /\ UNCHANGED <<storeVars, runner, asked>>
  /\ Service!Write(p)

EvidenceFault(p) == None

\* A verification returns a dictionary, never None, whatever its status is.
Evidence(p) == p

\* The verification ends with evidence, or raises: latch, preflight, login.
End(c) ==
  \E p \in Running :
    /\ runner[p] = c
    /\ runner' = [runner EXCEPT ![p] = None]
    /\ Service!Settle(p)
    /\ Store!OperationReturns(c, Evidence(p)) \/ Store!OperationRaises(c)
    /\ UNCHANGED asked

EndByMcp(p) ==
  /\ runner[p] = Mcp
  /\ runner' = [runner EXCEPT ![p] = None]
  /\ Service!Settle(p)
  /\ UNCHANGED <<storeVars, asked>>

\* The store's second locked block.
Settle(c) ==
  /\ Store!Retain(c) \/ Store!Release(c)
  /\ UNCHANGED <<planVars, asked>>

Tick == Store!Tick /\ UNCHANGED <<planVars, asked>>

\* Neither plans nor records survive the process; issued ids are never drawn again.
Restart ==
  /\ runner' = [p \in PlanIds |-> None]
  /\ Service!Crash
  /\ records' = [k \in Keys |-> Store!Absent]
  /\ pc' = [c \in Callers |-> "idle"]
  /\ request' = [c \in Callers |-> None]
  /\ outcome' = [c \in Callers |-> None]
  /\ answer' = [c \in Callers |-> [kind |-> "none", result |-> None]]
  /\ returned' = {}
  /\ asked' = [c \in Callers |-> None]
  /\ UNCHANGED now

CallerStep(c) ==
  \/ Refuse(c)
  \/ RefuseAndDrop(c)
  \/ Start(c)
  \/ End(c)
  \/ Settle(c)

RestNext ==
  \/ \E c \in Callers, k \in Keys, a \in Asked : Submit(c, k, a)
  \/ \E c \in Callers : CallerStep(c)
  \/ \E p \in PlanIds :
       CreatePlan(p) \/ Expire(p) \/ StartByMcp(p) \/ Write(p) \/ EndByMcp(p)
  \/ Tick
  \/ Restart

RestSpec == RestInit /\ [][RestNext]_restVars

-------------------------------------------------------------------------------
RestTypeOK ==
  /\ Store!StoreTypeOK
  /\ asked \in [Callers -> Asked \cup {None}]
  /\ runner \in [PlanIds -> Callers \cup {Mcp, None}]
  /\ issued \subseteq PlanIds
  /\ pending \subseteq issued
  /\ writes \in [PlanIds -> 0 .. 2]

\* A caller that is told of success, now or in a replay, is given the evidence of the
\* plan it named, and had confirmed that plan.
AnswersOwnPlan ==
  \A c \in Callers :
    answer[c].kind \in {"executed", "replayed"} =>
      answer[c].result = asked[c].plan /\ asked[c].confirmed

\* Whatever keys clients retry a plan with, its one run is retained under one key.
OneKeyPerRun ==
  \A j, k \in Keys :
    /\ records[j].state = "completed"
    /\ records[k].state = "completed"
    /\ records[j].result = records[k].result
    => j = k

\* A caller between its two locked blocks runs the request it made; the plan that
\* runs for it, or has run, is the one it named and confirmed.
Matched ==
  \A c \in Callers :
    /\ pc[c] # "idle" =>
         /\ request[c] \in Store!Request
         /\ asked[c] \in Asked
         /\ request[c].fingerprint = Fingerprint(asked[c])
    /\ pc[c] = "returned" => outcome[c] = asked[c].plan /\ asked[c].confirmed
    /\ \A p \in PlanIds :
         runner[p] = c => pc[c] = "operating" /\ asked[c].plan = p /\ asked[c].confirmed

Recorded ==
  \A k \in Keys :
    records[k].state = "completed" => records[k].fingerprint = <<records[k].result, TRUE>>

\* A plan that has been taken is in one place: running, with the caller it ran for,
\* or under a key.
Spent(p) == p \in issued /\ p \notin pending

TakenOnce ==
  /\ \A p \in PlanIds : runner[p] # None => Spent(p)
  /\ \A c \in Callers :
       pc[c] = "returned" => Spent(outcome[c]) /\ runner[outcome[c]] = None
  /\ \A k \in Keys :
       records[k].state = "completed" => Spent(records[k].result) /\ runner[records[k].result] = None
  /\ \A c, d \in Callers :
       pc[c] = "returned" /\ pc[d] = "returned" /\ outcome[c] = outcome[d] => c = d
  /\ \A c \in Callers, k \in Keys :
       pc[c] = "returned" /\ records[k].state = "completed" => outcome[c] # records[k].result

\* The store's records, the service's plans and the callers agree on who asked for
\* what, and on where each plan is.
RestInv == RestTypeOK /\ Matched /\ Recorded /\ TakenOnce /\ AnswersOwnPlan /\ OneKeyPerRun

===============================================================================
