------------------------- MODULE RestMutationsProofs ------------------------
(***************************************************************************)
(* RestInv is an invariant of the store and the service together, for any  *)
(* keys, callers, plans, capacity, retention and clock: with it, a client  *)
(* is told of the run of the plan it named and confirmed, and one run is   *)
(* retained under one key.                                                 *)
(***************************************************************************)
EXTENDS RestMutations, TLAPS

-----------------------------------------------------------------------------
(* The parts.                                                              *)

PlanTypes ==
  /\ asked \in [Callers -> Asked \cup {None}]
  /\ runner \in [PlanIds -> Callers \cup {Mcp, None}]
  /\ issued \subseteq PlanIds
  /\ pending \subseteq issued
  /\ writes \in [PlanIds -> 0 .. 2]

LEMMA TypeParts == RestTypeOK <=> Store!StoreTypeOK /\ PlanTypes
  BY DEF RestTypeOK, PlanTypes

LEMMA TypePartsNext == Store!StoreTypeOK' /\ PlanTypes' => RestTypeOK'
  BY TypeParts, PTL

LEMMA InvTypes == RestInv => Store!StoreTypeOK /\ PlanTypes
  BY TypeParts DEF RestInv

\* A record table that lost records, or had them reserved, has no new result.
NoNewResult ==
  \A k \in Keys : records'[k].state = "completed" => records'[k] = records[k]

LEMMA RecordTypes ==
  /\ Store!Absent \in Store!Record
  /\ Store!Absent.state # "completed"
  /\ \A f \in PlanIds \X BOOLEAN :
       Store!StoreTypeOK =>
         /\ Store!Reservation(f) \in Store!Record
         /\ Store!Reservation(f).state # "completed"
         /\ \A p \in PlanIds : Store!Completion(f, p) \in Store!Record
  BY RestAssumption DEF Store!Absent, Store!Record, Store!Reservation, Store!ReservedRecord,
     Store!Completion, Store!CompletedRecord, Store!StoreTypeOK

LEMMA PurgedResults ==
  ASSUME Store!StoreTypeOK
  PROVE  /\ Store!Purged \in [Keys -> Store!Record]
         /\ \A k \in Keys : Store!Purged[k].state = "completed" => Store!Purged[k] = records[k]
  BY RecordTypes DEF Store!Purged, Store!StoreTypeOK

\* A plan that has been taken stays taken, and no run begins or ends.
PlansKept ==
  /\ runner' = runner
  /\ \A p \in issued : p \notin pending => p \in issued' /\ p \notin pending'

\* A step that keeps no new result and lets no operation return leaves what the
\* store and the service agree on.
LEMMA NothingNew ==
  ASSUME RestInv, NoNewResult, PlansKept,
         \A c \in Callers : pc'[c] = "returned" => pc[c] = "returned" /\ outcome'[c] = outcome[c]
  PROVE  Recorded' /\ TakenOnce' /\ OneKeyPerRun'
  <1>1. runner' = runner /\ \A p \in issued : p \notin pending => p \in issued' /\ p \notin pending'
    BY DEF PlansKept
  <1>2. Recorded'
    BY DEF RestInv, NoNewResult, Recorded
  <1>3. OneKeyPerRun'
    BY DEF RestInv, NoNewResult, OneKeyPerRun
  <1>4. /\ \A p \in PlanIds : runner'[p] # None => p \in issued' /\ p \notin pending'
        /\ \A c \in Callers :
             pc'[c] = "returned" =>
               outcome'[c] \in issued' /\ outcome'[c] \notin pending' /\ runner'[outcome'[c]] = None
        /\ \A k \in Keys :
             records'[k].state = "completed" =>
               /\ records'[k].result \in issued' /\ records'[k].result \notin pending'
               /\ runner'[records'[k].result] = None
    BY <1>1 DEF RestInv, NoNewResult, TakenOnce, Spent
  <1>5. /\ \A c, d \in Callers :
             pc'[c] = "returned" /\ pc'[d] = "returned" /\ outcome'[c] = outcome'[d] => c = d
        /\ \A c \in Callers, k \in Keys :
             pc'[c] = "returned" /\ records'[k].state = "completed"
               => outcome'[c] # records'[k].result
    BY DEF RestInv, NoNewResult, TakenOnce
  <1>6. TakenOnce'
    BY <1>4, <1>5 DEF TakenOnce, Spent
  <1> QED BY <1>2, <1>3, <1>6

-----------------------------------------------------------------------------
(* The requests.                                                           *)

\* What a request does to the store: the caller is refused, told of a result kept
\* under its key, or goes on to its operation.
Submitted(c, k, a) ==
  /\ NoNewResult
  /\ pc[c] = "idle"
  /\ \A d \in Callers \ {c} :
       pc'[d] = pc[d] /\ request'[d] = request[d] /\ answer'[d] = answer[d]
  /\ outcome' = outcome
  /\ pc'[c] \in {"idle", "operating"}
  /\ pc'[c] = "operating" => request'[c] = [key |-> k, fingerprint |-> Fingerprint(a)]
  /\ \/ answer'[c].kind = "none"
     \/ /\ answer'[c].kind = "replayed"
        /\ records[k].state = "completed"
        /\ records[k].fingerprint = Fingerprint(a)
        /\ answer'[c].result = records[k].result

LEMMA SubmitStore ==
  ASSUME RestInv, NEW c \in Callers, NEW k \in Keys, NEW a \in Asked,
         Store!Execute(c, k, Fingerprint(a))
  PROVE  Store!StoreTypeOK' /\ Submitted(c, k, a)
  <1> DEFINE f == Fingerprint(a)
             ask == [key |-> k, fingerprint |-> f]
  <1>1. Store!StoreTypeOK
    BY InvTypes
  <1>2. f \in PlanIds \X BOOLEAN
    BY DEF Fingerprint, Asked
  <1>3. ask \in Store!Request
    BY <1>2 DEF Store!Request
  <1> HIDE DEF f
  <1>4. CASE Store!Refuse(c)
    <2>1. /\ pc[c] = "idle"
          /\ records' = Store!Purged
          /\ request' = [request EXCEPT ![c] = None]
          /\ answer' = [answer EXCEPT ![c] = [kind |-> "none", result |-> None]]
          /\ UNCHANGED <<now, pc, outcome, returned>>
      BY <1>4 DEF Store!Refuse, Store!Nothing, Store!Answer
    <2>2. Store!StoreTypeOK'
      BY <1>1, <2>1, PurgedResults DEF Store!StoreTypeOK, Store!Kinds
    <2> QED BY <1>1, <2>1, <2>2, PurgedResults DEF Store!StoreTypeOK, NoNewResult, Submitted
  <1>5. CASE Store!Replay(c, k, f)
    <2>1. /\ pc[c] = "idle"
          /\ Store!Purged[k].state = "completed"
          /\ Store!Purged[k].fingerprint = f
          /\ records' = Store!Purged
          /\ request' = [request EXCEPT ![c] = ask]
          /\ answer' = [answer EXCEPT ![c] = [kind |-> "replayed", result |-> Store!Purged[k].result]]
          /\ UNCHANGED <<now, pc, outcome, returned>>
      BY <1>5 DEF Store!Replay, Store!Ask, Store!Answer, Store!SameRequest
    <2>2. Store!Purged[k] = records[k] /\ records[k] \in Store!CompletedRecord
      BY <1>1, <2>1, PurgedResults
         DEF Store!StoreTypeOK, Store!Record, Store!Absent, Store!ReservedRecord
    <2>3. records[k].result \in PlanIds
      BY <2>2 DEF Store!CompletedRecord
    <2>4. Store!StoreTypeOK'
      BY <1>1, <1>3, <2>1, <2>2, <2>3, PurgedResults DEF Store!StoreTypeOK, Store!Kinds
    <2> QED BY <1>1, <2>1, <2>2, <2>4, PurgedResults DEF Store!StoreTypeOK, NoNewResult, Submitted, f
  <1>6. CASE Store!Reserve(c, k, f)
    <2>1. /\ pc[c] = "idle"
          /\ request' = [request EXCEPT ![c] = ask]
          /\ pc' = [pc EXCEPT ![c] = "operating"]
          /\ answer' = [answer EXCEPT ![c] = [kind |-> "none", result |-> None]]
          /\ UNCHANGED <<now, outcome, returned>>
      BY <1>6 DEF Store!Reserve, Store!Ask, Store!Answer
    <2>2. PICK v \in Keys : \/ records' = [Store!Purged EXCEPT ![k] = Store!Reservation(f)]
                            \/ records' = [Store!Purged EXCEPT ![v] = Store!Absent, ![k] = Store!Reservation(f)]
      BY <1>6 DEF Store!Reserve, Store!Victims, Store!Completed
    <2>3. records' \in [Keys -> Store!Record] /\ NoNewResult
      BY <1>1, <1>2, <2>2, PurgedResults, RecordTypes DEF NoNewResult
    <2>4. Store!StoreTypeOK'
      BY <1>1, <1>3, <2>1, <2>3 DEF Store!StoreTypeOK, Store!Kinds
    <2> QED BY <1>1, <2>1, <2>3, <2>4 DEF Store!StoreTypeOK, Submitted, f
  <1> QED BY <1>4, <1>5, <1>6 DEF Store!Execute, Store!Conflict, Store!InProgress, Store!Full, f

LEMMA SubmitKeeps ==
  ASSUME RestInv, NEW c \in Callers, NEW k \in Keys, NEW a \in Asked, Submit(c, k, a)
  PROVE  RestInv'
  <1>1. /\ Store!Execute(c, k, Fingerprint(a))
        /\ asked' = [asked EXCEPT ![c] = a]
        /\ UNCHANGED planVars
    BY DEF Submit
  <1>2. PlanTypes
    BY InvTypes
  <1>s. Store!StoreTypeOK' /\ Submitted(c, k, a)
    BY <1>1, SubmitStore
  <1>3. asked'[c] = a /\ (\A d \in Callers \ {c} : asked'[d] = asked[d])
    BY <1>1, <1>2 DEF PlanTypes
  <1>4. RestTypeOK'
    BY <1>1, <1>2, <1>s, TypePartsNext DEF PlanTypes, planVars
  <1>5. Matched'
    <2>1. SUFFICES ASSUME NEW d \in Callers
                   PROVE  /\ pc'[d] # "idle" =>
                               /\ request'[d] \in Store!Request
                               /\ asked'[d] \in Asked
                               /\ request'[d].fingerprint = Fingerprint(asked'[d])
                          /\ pc'[d] = "returned" => outcome'[d] = asked'[d].plan /\ asked'[d].confirmed
                          /\ \A p \in PlanIds :
                               runner'[p] = d => pc'[d] = "operating" /\ asked'[d].plan = p /\ asked'[d].confirmed
      BY DEF Matched, Store!Request, Fingerprint
    <2>2. CASE d = c
      <3>1. \A p \in PlanIds : runner'[p] # c
        BY <1>1, <1>s DEF RestInv, Matched, planVars, Submitted
      <3>2. Fingerprint(a) \in PlanIds \X BOOLEAN
        BY DEF Fingerprint, Asked
      <3> QED BY <1>1, <1>3, <1>s, <2>2, <3>1, <3>2 DEF Store!Request, planVars, Submitted
    <2>3. CASE d # c
      BY <1>1, <1>3, <2>3, <1>s DEF RestInv, Matched, planVars, Submitted
    <2> QED BY <2>2, <2>3
  <1>6. Recorded' /\ TakenOnce' /\ OneKeyPerRun'
    BY <1>1, <1>s, NothingNew DEF Submitted, PlansKept, planVars
  <1>7. AnswersOwnPlan'
    <2>1. SUFFICES ASSUME NEW d \in Callers, answer'[d].kind \in {"executed", "replayed"}
                   PROVE  answer'[d].result = asked'[d].plan /\ asked'[d].confirmed
      BY DEF AnswersOwnPlan
    <2>2. CASE d = c
      <3>1. /\ records[k].state = "completed"
            /\ records[k].fingerprint = Fingerprint(a)
            /\ answer'[c].result = records[k].result
        BY <1>1, <2>1, <2>2, <1>s DEF Submitted
      <3>2. <<a.plan, a.confirmed>> = <<records[k].result, TRUE>>
        BY <3>1 DEF RestInv, Recorded, Fingerprint
      <3> QED BY <1>3, <2>2, <3>1, <3>2
    <2>3. CASE d # c
      BY <1>1, <1>3, <2>1, <2>3, <1>s DEF RestInv, AnswersOwnPlan, Submitted
    <2> QED BY <2>2, <2>3
  <1> QED BY <1>4, <1>5, <1>6, <1>7 DEF RestInv

-----------------------------------------------------------------------------
(* The steps without a result.                                             *)

LEMMA AnswersKept ==
  ASSUME RestInv, UNCHANGED <<asked, answer>>
  PROVE  AnswersOwnPlan'
  BY DEF RestInv, AnswersOwnPlan

\* Steps of the service alone that run nothing.
LEMMA PlanSteps ==
  ASSUME RestInv, NEW p \in PlanIds, CreatePlan(p) \/ Expire(p) \/ Write(p)
  PROVE  RestInv'
  <1>1. UNCHANGED <<storeVars, asked, runner>>
    BY DEF CreatePlan, Expire, Write
  <1>2. Store!StoreTypeOK /\ PlanTypes
    BY InvTypes
  <1>3. /\ PlanTypes'
        /\ PlansKept
    <2>1. CASE CreatePlan(p)
      BY <1>1, <1>2, <2>1 DEF CreatePlan, Service!Issue, PlanTypes, PlansKept
    <2>2. CASE Expire(p)
      BY <1>1, <1>2, <2>2 DEF Expire, Service!Drop, PlanTypes, PlansKept
    <2>3. CASE Write(p)
      <3>1. /\ writes[p] \in 0..2 /\ writes[p] < 2
            /\ writes' = [writes EXCEPT ![p] = @ + 1]
            /\ UNCHANGED <<issued, pending>>
        BY <1>2, <2>3 DEF Write, Service!Write, PlanTypes
      <3>2. writes[p] + 1 \in 0..2
        BY <3>1
      <3> QED BY <1>1, <1>2, <3>1, <3>2 DEF PlanTypes, PlansKept
    <2> QED BY <2>1, <2>2, <2>3
  <1>4. RestTypeOK'
    BY <1>1, <1>2, <1>3, TypePartsNext DEF storeVars, Store!StoreTypeOK
  <1>5. Matched'
    BY <1>1 DEF RestInv, Matched, storeVars
  <1>6. Recorded' /\ TakenOnce' /\ OneKeyPerRun'
    BY <1>1, <1>3, NothingNew DEF storeVars, NoNewResult
  <1>7. AnswersOwnPlan'
    BY <1>1, AnswersKept DEF storeVars
  <1> QED BY <1>4, <1>5, <1>6, <1>7 DEF RestInv

\* The service refuses: the operation raises and runs no plan.
LEMMA RefuseSteps ==
  ASSUME RestInv, NEW c \in Callers, Refuse(c) \/ RefuseAndDrop(c)
  PROVE  RestInv'
  <1>1. /\ pc[c] = "operating"
        /\ pc' = [pc EXCEPT ![c] = "raised"]
        /\ UNCHANGED <<records, now, request, outcome, answer, returned, asked, runner>>
        /\ \A p \in Running : runner[p] # c
    BY DEF Refuse, RefuseAndDrop, Store!OperationRaises, planVars
  <1>2. Store!StoreTypeOK /\ PlanTypes
    BY InvTypes
  <1>3. PlanTypes' /\ PlansKept
    BY <1>1, <1>2 DEF Refuse, RefuseAndDrop, Service!Drop, PlanTypes, PlansKept, planVars
  <1>4. Store!StoreTypeOK'
    BY <1>1, <1>2 DEF Store!StoreTypeOK
  <1>5. Matched'
    <2>1. \A p \in PlanIds : runner[p] # c
      BY <1>1, RestAssumption DEF Running
    <2> QED BY <1>1, <1>2, <2>1 DEF RestInv, Matched, Store!StoreTypeOK
  <1>6. Recorded' /\ TakenOnce' /\ OneKeyPerRun'
    BY <1>1, <1>2, <1>3, NothingNew DEF NoNewResult, Store!StoreTypeOK
  <1>7. AnswersOwnPlan'
    BY <1>1, AnswersKept
  <1> QED BY <1>3, <1>4, <1>5, <1>6, <1>7, TypePartsNext DEF RestInv

LEMMA TickKeeps ==
  ASSUME RestInv, Tick
  PROVE  RestInv'
  <1>1. now' = now + 1 /\ UNCHANGED <<records, pc, request, outcome, answer, returned, planVars, asked>>
    BY DEF Tick, Store!Tick
  <1>2. Store!StoreTypeOK /\ PlanTypes
    BY InvTypes
  <1>3. Store!StoreTypeOK' /\ PlanTypes'
    BY <1>1, <1>2 DEF Store!StoreTypeOK, PlanTypes, planVars
  <1>4. Matched'
    BY <1>1 DEF RestInv, Matched, planVars
  <1>5. Recorded' /\ TakenOnce' /\ OneKeyPerRun'
    BY <1>1, NothingNew DEF NoNewResult, PlansKept, planVars
  <1>6. AnswersOwnPlan'
    BY <1>1, AnswersKept
  <1> QED BY <1>3, <1>4, <1>5, <1>6, TypePartsNext DEF RestInv

LEMMA StutterKeeps ==
  ASSUME RestInv, UNCHANGED restVars
  PROVE  RestInv'
  <1>1. UNCHANGED <<records, now, pc, request, outcome, answer, returned, planVars, asked>>
    BY DEF restVars, storeVars
  <1>2. Store!StoreTypeOK /\ PlanTypes
    BY InvTypes
  <1>3. Store!StoreTypeOK' /\ PlanTypes'
    BY <1>1, <1>2 DEF Store!StoreTypeOK, PlanTypes, planVars
  <1>4. Matched'
    BY <1>1 DEF RestInv, Matched, planVars
  <1>5. Recorded' /\ TakenOnce' /\ OneKeyPerRun'
    BY <1>1, NothingNew DEF NoNewResult, PlansKept, planVars
  <1>6. AnswersOwnPlan'
    BY <1>1, AnswersKept
  <1> QED BY <1>3, <1>4, <1>5, <1>6, TypePartsNext DEF RestInv

-----------------------------------------------------------------------------
(* The runs.                                                               *)

\* A plan is taken out of the pending ones: it is nowhere yet.
LEMMA TakeKeeps ==
  ASSUME RestInv, NEW p \in PlanIds, NEW r \in Callers \cup {Mcp},
         Takes(p), runner' = [runner EXCEPT ![p] = r],
         UNCHANGED <<storeVars, asked>>,
         r \in Callers => pc[r] = "operating" /\ asked[r].plan = p /\ asked[r].confirmed
  PROVE  RestInv'
  <1>1. /\ p \in pending
        /\ pending' = pending \ {p}
        /\ UNCHANGED <<issued, writes>>
    BY DEF Takes, Service!Claim
  <1>2. UNCHANGED <<records, now, pc, request, outcome, answer, returned, asked>>
    BY DEF storeVars
  <1>3. Store!StoreTypeOK /\ PlanTypes
    BY InvTypes
  <1>4. Store!StoreTypeOK' /\ PlanTypes'
    BY <1>1, <1>2, <1>3 DEF Store!StoreTypeOK, PlanTypes
  <1>5. runner'[p] = r /\ \A q \in PlanIds \ {p} : runner'[q] = runner[q]
    BY <1>3 DEF PlanTypes
  <1>6. Matched'
    <2>1. \A c \in Callers, q \in PlanIds :
            runner'[q] = c => pc[c] = "operating" /\ asked[c].plan = q /\ asked[c].confirmed
      BY <1>5 DEF RestInv, Matched
    <2> QED BY <1>2, <2>1 DEF RestInv, Matched
  <1>7. /\ \A q \in PlanIds : runner'[q] # None => q \in issued' /\ q \notin pending'
        /\ \A c \in Callers :
             pc[c] = "returned" =>
               outcome[c] \in issued' /\ outcome[c] \notin pending' /\ runner'[outcome[c]] = None
        /\ \A k \in Keys :
             records[k].state = "completed" =>
               /\ records[k].result \in issued' /\ records[k].result \notin pending'
               /\ runner'[records[k].result] = None
    <2>1. p \in issued /\ issued \subseteq PlanIds
      BY <1>1, <1>3 DEF PlanTypes
    <2> QED BY <1>1, <1>5, <2>1 DEF RestInv, TakenOnce, Spent
  <1>8. TakenOnce'
    BY <1>2, <1>7 DEF RestInv, TakenOnce, Spent
  <1>9. Recorded' /\ OneKeyPerRun' /\ AnswersOwnPlan'
    BY <1>2 DEF RestInv, Recorded, OneKeyPerRun, AnswersOwnPlan
  <1> QED BY <1>4, <1>6, <1>8, <1>9, TypePartsNext DEF RestInv

LEMMA StartSteps ==
  ASSUME RestInv,
         \/ \E c \in Callers : Start(c)
         \/ \E p \in PlanIds : StartByMcp(p)
  PROVE  RestInv'
  <1>1. ASSUME NEW c \in Callers, Start(c)
        PROVE  RestInv'
    <2>1. asked[c].plan \in PlanIds
      BY <1>1, InvTypes DEF Start, PlanTypes
    <2> QED BY <1>1, <2>1, TakeKeeps DEF Start
  <1>2. ASSUME NEW p \in PlanIds, StartByMcp(p)
        PROVE  RestInv'
    BY <1>2, TakeKeeps, RestAssumption DEF StartByMcp
  <1> QED BY <1>1, <1>2

\* The plan's one run is over.
Over(p) ==
  /\ runner[p] # None
  /\ runner' = [runner EXCEPT ![p] = None]
  /\ UNCHANGED <<issued, pending, writes, asked>>

LEMMA OverFacts ==
  ASSUME RestInv, NEW p \in PlanIds, Over(p)
  PROVE  /\ PlanTypes'
         /\ runner'[p] = None /\ \A q \in PlanIds \ {p} : runner'[q] = runner[q]
         /\ Spent(p)
         /\ \A c \in Callers : pc[c] = "returned" => outcome[c] # p
         /\ \A k \in Keys : records[k].state = "completed" => records[k].result # p
  <1>1. PlanTypes
    BY InvTypes
  <1>2. PlanTypes' /\ runner'[p] = None /\ \A q \in PlanIds \ {p} : runner'[q] = runner[q]
    BY <1>1 DEF Over, PlanTypes
  <1> QED BY <1>2 DEF Over, RestInv, TakenOnce

LEMMA OverTaken ==
  ASSUME RestInv, NEW p \in PlanIds, Over(p), NoNewResult,
         \A c \in Callers : pc'[c] = "returned" => pc[c] = "returned" /\ outcome'[c] = outcome[c]
  PROVE  Recorded' /\ TakenOnce' /\ OneKeyPerRun'
  <1>1. /\ runner'[p] = None /\ \A q \in PlanIds \ {p} : runner'[q] = runner[q]
        /\ issued' = issued /\ pending' = pending /\ issued \subseteq PlanIds
    BY OverFacts, InvTypes DEF Over, PlanTypes
  <1>2. Recorded'
    BY DEF RestInv, NoNewResult, Recorded
  <1>3. OneKeyPerRun'
    BY DEF RestInv, NoNewResult, OneKeyPerRun
  <1>4. /\ \A q \in PlanIds : runner'[q] # None => q \in issued' /\ q \notin pending'
        /\ \A c \in Callers :
             pc'[c] = "returned" =>
               outcome'[c] \in issued' /\ outcome'[c] \notin pending' /\ runner'[outcome'[c]] = None
        /\ \A k \in Keys :
             records'[k].state = "completed" =>
               /\ records'[k].result \in issued' /\ records'[k].result \notin pending'
               /\ runner'[records'[k].result] = None
    BY <1>1 DEF RestInv, NoNewResult, TakenOnce, Spent
  <1>5. /\ \A c, d \in Callers :
             pc'[c] = "returned" /\ pc'[d] = "returned" /\ outcome'[c] = outcome'[d] => c = d
        /\ \A c \in Callers, k \in Keys :
             pc'[c] = "returned" /\ records'[k].state = "completed"
               => outcome'[c] # records'[k].result
    BY DEF RestInv, NoNewResult, TakenOnce
  <1>6. TakenOnce'
    BY <1>4, <1>5 DEF TakenOnce, Spent
  <1> QED BY <1>2, <1>3, <1>6

LEMMA EndByMcpKeeps ==
  ASSUME RestInv, NEW p \in PlanIds, EndByMcp(p)
  PROVE  RestInv'
  <1>1. Over(p) /\ UNCHANGED <<records, now, pc, request, outcome, answer, returned>>
    BY RestAssumption DEF EndByMcp, Over, Service!Settle, storeVars
  <1>2. Store!StoreTypeOK' /\ PlanTypes'
    BY <1>1, OverFacts, InvTypes DEF Store!StoreTypeOK
  <1>3. Matched'
    <2>1. \A c \in Callers, q \in PlanIds : runner'[q] = c => runner[q] = c
      BY <1>1, OverFacts, RestAssumption
    <2> QED BY <1>1, <2>1 DEF RestInv, Matched, Over
  <1>4. Recorded' /\ TakenOnce' /\ OneKeyPerRun'
    BY <1>1, OverTaken DEF NoNewResult
  <1>5. AnswersOwnPlan'
    BY <1>1, AnswersKept DEF Over
  <1> QED BY <1>2, <1>3, <1>4, <1>5, TypePartsNext DEF RestInv

LEMMA EndKeeps ==
  ASSUME RestInv, NEW c \in Callers, End(c)
  PROVE  RestInv'
  <1>1. PICK p \in PlanIds :
          /\ runner[p] = c
          /\ Over(p)
          /\ Store!OperationReturns(c, p) \/ Store!OperationRaises(c)
    BY RestAssumption DEF End, Over, Service!Settle, Running, Evidence
  <1>2. /\ asked[c].plan = p /\ asked[c].confirmed /\ pc[c] = "operating"
        /\ request[c] \in Store!Request /\ asked[c] \in Asked
        /\ request[c].fingerprint = Fingerprint(asked[c])
    BY <1>1 DEF RestInv, Matched
  <1>3. /\ \A q \in PlanIds : runner'[q] # c
        /\ \A d \in Callers \ {c}, q \in PlanIds : runner'[q] = d => runner[q] = d
    BY <1>1, <1>2, OverFacts, RestAssumption DEF RestInv, Matched
  <1>4. Store!StoreTypeOK /\ PlanTypes' /\ UNCHANGED <<records, now, request, answer, asked>>
    BY <1>1, InvTypes, OverFacts DEF Over, Store!OperationReturns, Store!OperationRaises
  <1>5. CASE Store!OperationRaises(c)
    <2>1. pc' = [pc EXCEPT ![c] = "raised"] /\ UNCHANGED <<outcome, returned>>
      BY <1>5 DEF Store!OperationRaises
    <2>2. Store!StoreTypeOK'
      BY <1>4, <2>1 DEF Store!StoreTypeOK
    <2>3. pc'[c] = "raised" /\ \A d \in Callers \ {c} : pc'[d] = pc[d]
      BY <1>4, <2>1 DEF Store!StoreTypeOK
    <2>4. Matched'
      BY <1>2, <1>3, <1>4, <2>1, <2>3 DEF RestInv, Matched
    <2>5. Recorded' /\ TakenOnce' /\ OneKeyPerRun'
      BY <1>1, <1>4, <2>1, <2>3, OverTaken DEF NoNewResult
    <2>6. AnswersOwnPlan'
      BY <1>4, AnswersKept
    <2> QED BY <1>4, <2>2, <2>4, <2>5, <2>6, TypePartsNext DEF RestInv
  <1>6. CASE Store!OperationReturns(c, p)
    <2>1. /\ pc' = [pc EXCEPT ![c] = "returned"]
          /\ outcome' = [outcome EXCEPT ![c] = p]
          /\ returned' = returned \cup {[key |-> request[c].key,
                                         fingerprint |-> request[c].fingerprint,
                                         result |-> p]}
      BY <1>6 DEF Store!OperationReturns
    <2>2. Store!StoreTypeOK'
      BY <1>2, <1>4, <2>1 DEF Store!StoreTypeOK, Store!Return, Store!Request
    <2>3. /\ pc'[c] = "returned" /\ outcome'[c] = p
          /\ \A d \in Callers \ {c} : pc'[d] = pc[d] /\ outcome'[d] = outcome[d]
      BY <1>4, <2>1 DEF Store!StoreTypeOK
    <2>4. Matched'
      BY <1>2, <1>3, <1>4, <2>3 DEF RestInv, Matched
    <2>5. Recorded' /\ OneKeyPerRun'
      BY <1>4 DEF RestInv, Recorded, OneKeyPerRun
    <2>6. TakenOnce'
      <3>1. /\ runner'[p] = None /\ \A q \in PlanIds \ {p} : runner'[q] = runner[q]
            /\ issued' = issued /\ pending' = pending /\ issued \subseteq PlanIds
            /\ p \in issued /\ p \notin pending
        BY <1>1, OverFacts, InvTypes DEF Over, PlanTypes, Spent
      <3>2. /\ \A d \in Callers : pc[d] = "returned" => outcome[d] # p
            /\ \A k \in Keys : records[k].state = "completed" => records[k].result # p
        BY <1>1, OverFacts
      <3>3. /\ \A q \in PlanIds : runner'[q] # None => q \in issued' /\ q \notin pending'
            /\ \A d \in Callers :
                 pc'[d] = "returned" =>
                   outcome'[d] \in issued' /\ outcome'[d] \notin pending' /\ runner'[outcome'[d]] = None
            /\ \A k \in Keys :
                 records'[k].state = "completed" =>
                   /\ records'[k].result \in issued' /\ records'[k].result \notin pending'
                   /\ runner'[records'[k].result] = None
        BY <1>4, <2>3, <3>1 DEF RestInv, TakenOnce, Spent
      <3>4. \A d, e \in Callers :
              pc'[d] = "returned" /\ pc'[e] = "returned" /\ outcome'[d] = outcome'[e] => d = e
        BY <2>3, <3>2 DEF RestInv, TakenOnce
      <3>5. \A d \in Callers, k \in Keys :
              pc'[d] = "returned" /\ records'[k].state = "completed" => outcome'[d] # records'[k].result
        BY <1>4, <2>3, <3>2 DEF RestInv, TakenOnce
      <3> QED BY <3>3, <3>4, <3>5 DEF TakenOnce, Spent
    <2>7. AnswersOwnPlan'
      BY <1>4, AnswersKept
    <2> QED BY <1>4, <2>2, <2>4, <2>5, <2>6, <2>7, TypePartsNext DEF RestInv
  <1> QED BY <1>1, <1>5, <1>6

-----------------------------------------------------------------------------
(* The store's second locked block, and the end of the process.            *)

LEMMA ReleaseKeeps ==
  ASSUME RestInv, NEW c \in Callers, Store!Release(c), UNCHANGED <<planVars, asked>>
  PROVE  RestInv'
  <1>1. /\ pc[c] = "raised"
        /\ pc' = [pc EXCEPT ![c] = "idle"]
        /\ request' = [request EXCEPT ![c] = None]
        /\ answer' = [answer EXCEPT ![c] = [kind |-> "none", result |-> None]]
        /\ UNCHANGED <<now, outcome, returned>>
    BY DEF Store!Release, Store!Nothing, Store!Answer
  <1>2. \/ records' = records
        \/ records' = [records EXCEPT ![request[c].key] = Store!Absent]
    BY DEF Store!Release, Store!Released
  <1>3. Store!StoreTypeOK /\ PlanTypes
    BY InvTypes
  <1>4. records' \in [Keys -> Store!Record] /\ NoNewResult
    BY <1>2, <1>3, RecordTypes DEF NoNewResult, Store!StoreTypeOK
  <1>5. Store!StoreTypeOK' /\ PlanTypes'
    BY <1>1, <1>3, <1>4 DEF Store!StoreTypeOK, Store!Kinds, PlanTypes, planVars
  <1>6. /\ pc'[c] = "idle" /\ answer'[c].kind = "none"
        /\ \A d \in Callers \ {c} :
             pc'[d] = pc[d] /\ request'[d] = request[d] /\ answer'[d] = answer[d]
    BY <1>1, <1>3 DEF Store!StoreTypeOK
  <1>7. Matched'
    BY <1>1, <1>6 DEF RestInv, Matched, planVars
  <1>8. Recorded' /\ TakenOnce' /\ OneKeyPerRun'
    BY <1>1, <1>4, <1>6, NothingNew DEF PlansKept, planVars
  <1>9. AnswersOwnPlan'
    BY <1>6 DEF RestInv, AnswersOwnPlan
  <1> QED BY <1>5, <1>7, <1>8, <1>9, TypePartsNext DEF RestInv

LEMMA RetainKeeps ==
  ASSUME RestInv, NEW c \in Callers, Store!Retain(c), UNCHANGED <<planVars, asked>>
  PROVE  RestInv'
  <1> DEFINE key == request[c].key
             plan == asked[c].plan
             done == Store!Completion(<<plan, TRUE>>, plan)
  <1>1. /\ request[c] \in Store!Request /\ asked[c] \in Asked
        /\ request[c].fingerprint = <<plan, TRUE>>
        /\ outcome[c] = plan
        /\ asked[c].confirmed
        /\ pc[c] = "returned"
    BY DEF RestInv, Matched, Fingerprint, Asked, Store!Retain
  <1>2. key \in Keys /\ plan \in PlanIds /\ <<plan, TRUE>> \in PlanIds \X BOOLEAN
    BY <1>1 DEF Store!Request, Asked
  <1>3. /\ records' = [records EXCEPT ![key] = done]
        /\ pc' = [pc EXCEPT ![c] = "idle"]
        /\ outcome' = [outcome EXCEPT ![c] = None]
        /\ request' = [request EXCEPT ![c] = None]
        /\ answer' = [answer EXCEPT ![c] = [kind |-> "executed", result |-> plan]]
        /\ UNCHANGED <<now, returned>>
    BY <1>1 DEF Store!Retain, Store!Answer
  <1>4. Store!StoreTypeOK /\ PlanTypes
    BY InvTypes
  <1>5. done \in Store!Record /\ done.state = "completed" /\ done.result = plan
        /\ done.fingerprint = <<plan, TRUE>>
    BY <1>2, <1>4, RecordTypes DEF Store!Completion
  <1> HIDE DEF done, key, plan
  <1>6. Store!StoreTypeOK' /\ PlanTypes'
    BY <1>2, <1>3, <1>4, <1>5 DEF Store!StoreTypeOK, Store!Kinds, PlanTypes, planVars
  <1>7. /\ pc'[c] = "idle" /\ answer'[c] = [kind |-> "executed", result |-> plan]
        /\ \A d \in Callers \ {c} :
             /\ pc'[d] = pc[d] /\ request'[d] = request[d] /\ answer'[d] = answer[d]
             /\ outcome'[d] = outcome[d]
        /\ records'[key] = done /\ \A k \in Keys \ {key} : records'[k] = records[k]
    BY <1>2, <1>3, <1>4 DEF Store!StoreTypeOK
  <1>8. Matched'
    BY <1>1, <1>7 DEF RestInv, Matched, planVars
  <1>9. Recorded'
    BY <1>5, <1>7 DEF RestInv, Recorded
  <1>10. /\ Spent(plan) /\ runner[plan] = None
         /\ \A k \in Keys : records[k].state = "completed" => records[k].result # plan
         /\ \A d \in Callers \ {c} : pc[d] = "returned" => outcome[d] # plan
    BY <1>1 DEF RestInv, TakenOnce
  <1>11. OneKeyPerRun'
    <2>1. SUFFICES ASSUME NEW j \in Keys, NEW k \in Keys,
                          records'[j].state = "completed", records'[k].state = "completed",
                          records'[j].result = records'[k].result
                   PROVE  j = k
      BY DEF OneKeyPerRun
    <2>2. CASE j = key \/ k = key
      BY <1>5, <1>7, <1>10, <2>1, <2>2
    <2>3. CASE j # key /\ k # key
      BY <1>7, <2>1, <2>3 DEF RestInv, OneKeyPerRun
    <2> QED BY <2>2, <2>3
  <1>12. TakenOnce'
    <2>1. UNCHANGED <<issued, pending, runner>>
      BY DEF planVars
    <2>2. /\ \A p \in PlanIds : runner'[p] # None => p \in issued' /\ p \notin pending'
          /\ \A d \in Callers :
               pc'[d] = "returned" =>
                 outcome'[d] \in issued' /\ outcome'[d] \notin pending' /\ runner'[outcome'[d]] = None
          /\ \A k \in Keys :
               records'[k].state = "completed" =>
                 /\ records'[k].result \in issued' /\ records'[k].result \notin pending'
                 /\ runner'[records'[k].result] = None
      BY <1>5, <1>7, <1>10, <2>1 DEF RestInv, TakenOnce, Spent
    <2>3. \A d, e \in Callers :
            pc'[d] = "returned" /\ pc'[e] = "returned" /\ outcome'[d] = outcome'[e] => d = e
      BY <1>7 DEF RestInv, TakenOnce
    <2>4. \A d \in Callers, k \in Keys :
            pc'[d] = "returned" /\ records'[k].state = "completed" => outcome'[d] # records'[k].result
      BY <1>5, <1>7, <1>10 DEF RestInv, TakenOnce
    <2> QED BY <2>2, <2>3, <2>4 DEF TakenOnce, Spent
  <1>13. AnswersOwnPlan'
    BY <1>1, <1>7 DEF RestInv, AnswersOwnPlan, plan
  <1> QED BY <1>6, <1>8, <1>9, <1>11, <1>12, <1>13, TypePartsNext DEF RestInv

LEMMA FreshState ==
  ASSUME Store!StoreTypeOK', PlanTypes',
         \A k \in Keys : records'[k].state = "absent",
         \A c \in Callers : pc'[c] = "idle" /\ answer'[c].kind = "none",
         \A p \in PlanIds : runner'[p] = None
  PROVE  RestInv'
  <1>1. Matched'
    BY RestAssumption DEF Matched
  <1>2. TakenOnce' /\ Recorded' /\ OneKeyPerRun' /\ AnswersOwnPlan'
    BY DEF TakenOnce, Recorded, OneKeyPerRun, AnswersOwnPlan
  <1> QED BY <1>1, <1>2, TypePartsNext DEF RestInv

LEMMA RestartKeeps ==
  ASSUME RestInv, Restart
  PROVE  RestInv'
  <1>1. /\ runner' = [p \in PlanIds |-> None]
        /\ pending' = {} /\ UNCHANGED <<issued, writes, now>>
        /\ records' = [k \in Keys |-> Store!Absent]
        /\ pc' = [c \in Callers |-> "idle"]
        /\ request' = [c \in Callers |-> None]
        /\ outcome' = [c \in Callers |-> None]
        /\ answer' = [c \in Callers |-> [kind |-> "none", result |-> None]]
        /\ returned' = {}
        /\ asked' = [c \in Callers |-> None]
    BY DEF Restart, Service!Crash
  <1>2. Store!StoreTypeOK /\ PlanTypes
    BY InvTypes
  <1>3. PlanTypes'
    BY <1>1, <1>2 DEF PlanTypes
  <1>4. Store!StoreTypeOK'
    BY <1>1, <1>2, RecordTypes DEF Store!StoreTypeOK, Store!Kinds
  <1>5. \A k \in Keys : records'[k].state = "absent"
    BY <1>1 DEF Store!Absent
  <1> QED BY <1>1, <1>3, <1>4, <1>5, FreshState

LEMMA InitHolds == RestInit => RestInv
  <1>1. SUFFICES ASSUME RestInit
                 PROVE  RestInv
    OBVIOUS
  <1>2. Store!StoreTypeOK
    BY <1>1, RecordTypes DEF RestInit, Store!StoreInit, Store!StoreTypeOK, Store!Kinds
  <1>3. PlanTypes
    BY <1>1 DEF RestInit, PlanTypes
  <1>4. Matched
    BY <1>1, RestAssumption DEF RestInit, Store!StoreInit, Matched
  <1>5. Recorded /\ OneKeyPerRun /\ AnswersOwnPlan
    BY <1>1 DEF RestInit, Store!StoreInit, Store!Absent, Recorded, OneKeyPerRun, AnswersOwnPlan
  <1>6. TakenOnce
    BY <1>1 DEF RestInit, Store!StoreInit, Store!Absent, TakenOnce
  <1> QED BY <1>2, <1>3, <1>4, <1>5, <1>6, TypeParts DEF RestInv

LEMMA NextKeeps ==
  ASSUME RestInv, [RestNext]_restVars
  PROVE  RestInv'
  <1>1. CASE \E c \in Callers, k \in Keys, a \in Asked : Submit(c, k, a)
    BY <1>1, SubmitKeeps
  <1>2. ASSUME NEW c \in Callers, CallerStep(c)
        PROVE  RestInv'
    BY <1>2, RefuseSteps, StartSteps, EndKeeps, RetainKeeps, ReleaseKeeps DEF CallerStep, Settle
  <1>3. ASSUME NEW p \in PlanIds,
               CreatePlan(p) \/ Expire(p) \/ StartByMcp(p) \/ Write(p) \/ EndByMcp(p)
        PROVE  RestInv'
    BY <1>3, PlanSteps, StartSteps, EndByMcpKeeps
  <1>4. CASE Tick \/ Restart \/ UNCHANGED restVars
    BY <1>4, TickKeeps, RestartKeeps, StutterKeeps
  <1> QED BY <1>1, <1>2, <1>3, <1>4 DEF RestNext

\* The store, the service, the callers and the MCP tool agree on who asked for what
\* and on where each plan is, whatever is refused, raised, retried, expired or
\* evicted and whenever the process restarts.
THEOREM RestInvariance == RestSpec => []RestInv
  <1>1. RestInit => RestInv
    BY InitHolds
  <1>2. RestInv /\ [RestNext]_restVars => RestInv'
    BY NextKeeps
  <1> QED BY <1>1, <1>2, PTL DEF RestSpec

\* A client told of success is told of the run of the plan it named and confirmed
\* (executeMutationPlan in rest/app.py, execute of the store).
THEOREM AnswersAreOwn == RestSpec => []AnswersOwnPlan
  <1>1. RestInv => AnswersOwnPlan
    BY DEF RestInv
  <1> QED BY <1>1, RestInvariance, PTL

\* The one run of a plan is retained under one key, whatever keys clients retry
\* with.
THEOREM OneRunOneKey == RestSpec => []OneKeyPerRun
  <1>1. RestInv => OneKeyPerRun
    BY DEF RestInv
  <1> QED BY <1>1, RestInvariance, PTL
=============================================================================
