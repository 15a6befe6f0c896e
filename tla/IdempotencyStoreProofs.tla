------------------------ MODULE IdempotencyStoreProofs ------------------------
(***************************************************************************)
(* Proofs about IdempotencyStore, for every number of keys, callers,       *)
(* fingerprints and results and every capacity and retention time.         *)
(***************************************************************************)
EXTENDS IdempotencyStore, FiniteSetTheorems, TLAPS

-------------------------------------------------------------------------------
(* Lemmas about the operators.                                             *)

\* Purging keeps the table well typed; a record survives it unchanged or becomes
\* absent, and only a completed record becomes absent.
LEMMA PurgedFacts ==
  ASSUME StoreTypeOK
  PROVE  /\ Purged \in [Keys -> Record]
         /\ \A k \in Keys : Purged[k] = records[k] \/ Purged[k] = Absent
         /\ \A k \in Keys : records[k].state # "completed" => Purged[k] = records[k]
BY DEF StoreTypeOK, Purged, Expired, Record, Absent

\* What the three kinds of record look like.
LEMMA RecordFacts ==
  ASSUME StoreAssumption, StoreTypeOK, NEW f \in Fingerprints, NEW r \in Results
  PROVE  /\ Absent \in Record
         /\ Reservation(f) \in Record
         /\ Completion(f, r) \in Record
BY DEF StoreAssumption, StoreTypeOK, Record, Absent, Reservation, Completion,
       ReservedRecord, CompletedRecord

\* The held keys of a table are finitely many, and a table that holds fewer keys
\* than another holds no more records.
LEMMA HeldFinite ==
  ASSUME StoreAssumption, NEW tbl
  PROVE  /\ IsFiniteSet(Held(tbl))
         /\ Cardinality(Held(tbl)) \in Nat
<1>1. Held(tbl) \in SUBSET Keys
  BY DEF Held
<1>2. IsFiniteSet(Held(tbl))
  BY <1>1, FS_Subset DEF StoreAssumption
<1>. QED
  BY <1>2, FS_CardinalityType

LEMMA HeldMonotone ==
  ASSUME StoreAssumption, NEW t1, NEW t2, Held(t2) \subseteq Held(t1)
  PROVE  Cardinality(Held(t2)) <= Cardinality(Held(t1))
BY HeldFinite, FS_Subset

-------------------------------------------------------------------------------
(* What each step does to the table of records.  The invariance proof only *)
(* looks at a step through these three facts.                              *)

\* Answering without a reservation purges and does nothing else to the table.
LEMMA AnswerOnly ==
  ASSUME StoreInv, NEW c \in Callers, NEW k \in Keys, NEW f \in Fingerprints,
         Conflict(c, k, f) \/ InProgress(c, k, f) \/ Replay(c, k, f) \/ Full(c, k)
  PROVE  /\ records' = Purged
         /\ pc[c] = "idle"
         /\ \E q \in Request \cup {None} : request' = [request EXCEPT ![c] = q]
         /\ Replay(c, k, f) => request' = [request EXCEPT ![c] = [key |-> k, fingerprint |-> f]]
         /\ UNCHANGED <<now, pc, outcome, returned>>
BY DEF Conflict, InProgress, Replay, Full, Ask, Refuse, Nothing, Request

\* A reservation takes a free key, gives up at most one completed record, and leaves
\* the store within its capacity.
LEMMA ReserveStep ==
  ASSUME StoreAssumption, StoreInv,
         NEW c \in Callers, NEW k \in Keys, NEW f \in Fingerprints, Reserve(c, k, f)
  PROVE  /\ records' \in [Keys -> Record]
         /\ records'[k] = Reservation(f)
         /\ records[k].state # "inProgress"
         /\ \A j \in Keys \ {k} :
              /\ records'[j] = records[j] \/ records'[j] = Absent
              /\ records[j].state = "inProgress" => records'[j] = records[j]
         /\ Cardinality(Held(records')) <= MaxRecords
<1>. DEFINE P == Purged
<1>1. StoreTypeOK /\ Cardinality(Held(records)) <= MaxRecords
  BY DEF StoreInv, StoreBounded
<1>2. /\ P \in [Keys -> Record]
      /\ \A j \in Keys : P[j] = records[j] \/ P[j] = Absent
      /\ \A j \in Keys : records[j].state # "completed" => P[j] = records[j]
  BY <1>1, PurgedFacts
<1>3. Absent \in Record /\ Reservation(f) \in Record
  BY <1>1 DEF Record, Absent, Reservation, ReservedRecord, StoreAssumption, StoreTypeOK
<1>4. P[k].state = "absent" /\ k \notin Held(P) /\ records[k].state # "inProgress"
  BY <1>2 DEF Reserve, Held
<1>5. Cardinality(Held(P)) <= Cardinality(Held(records))
  <2>1. Held(P) \subseteq Held(records)
    BY <1>2 DEF Held, Absent
  <2>. QED
    BY <2>1, HeldMonotone
<1>6. IsFiniteSet(Held(P)) /\ Cardinality(Held(P)) \in Nat /\ Cardinality(Held(records)) \in Nat
  BY HeldFinite
<1>. HIDE DEF P
<1>7. CASE HasRoom(P) /\ records' = [P EXCEPT ![k] = Reservation(f)]
  <2>1. Held(records') = Held(P) \cup {k}
    BY <1>2, <1>3, <1>7 DEF Held, Reservation
  <2>2. Cardinality(Held(P) \cup {k}) = Cardinality(Held(P)) + 1
    BY <1>4, <1>6, FS_AddElement DEF P
  <2>3. Cardinality(Held(P)) < MaxRecords
    BY <1>7 DEF HasRoom
  <2>4. Cardinality(Held(records')) <= MaxRecords
    BY <2>1, <2>2, <2>3, <1>6 DEF StoreAssumption
  <2>. QED
    BY <1>2, <1>3, <1>4, <1>7, <2>4
<1>8. ASSUME NEW v \in Victims(P), records' = [P EXCEPT ![v] = Absent, ![k] = Reservation(f)]
      PROVE  /\ records' \in [Keys -> Record]
             /\ records'[k] = Reservation(f)
             /\ \A j \in Keys \ {k} :
                  /\ records'[j] = records[j] \/ records'[j] = Absent
                  /\ records[j].state = "inProgress" => records'[j] = records[j]
             /\ Cardinality(Held(records')) <= MaxRecords
  <2>1. v \in Keys /\ P[v].state = "completed" /\ v \in Held(P) /\ v # k
    BY <1>4, <1>8 DEF Victims, Completed, Held
  <2>2. Held(records') = (Held(P) \ {v}) \cup {k}
    BY <1>2, <1>3, <1>8, <2>1 DEF Held, Reservation, Absent
  <2>3. IsFiniteSet(Held(P) \ {v}) /\ Cardinality(Held(P) \ {v}) = Cardinality(Held(P)) - 1
    BY <1>6, <2>1, FS_RemoveElement
  <2>4. k \notin Held(P) \ {v}
    BY <1>4 DEF P
  <2>5. Cardinality(Held(records')) = Cardinality(Held(P))
    <3>1. Cardinality((Held(P) \ {v}) \cup {k}) = Cardinality(Held(P) \ {v}) + 1
      BY <2>3, <2>4, FS_AddElement
    <3>. QED
      BY <1>6, <2>2, <2>3, <3>1
  <2>6. records[v].state = "completed"
    BY <1>2, <2>1 DEF Absent
  <2>7. Cardinality(Held(records')) <= MaxRecords
    BY <1>1, <1>5, <1>6, <2>5 DEF StoreAssumption, P
  <2>8. records' \in [Keys -> Record] /\ records'[k] = Reservation(f)
    BY <1>2, <1>3, <1>8, <2>1
  <2>9. ASSUME NEW j \in Keys \ {k}
        PROVE  /\ records'[j] = records[j] \/ records'[j] = Absent
               /\ records[j].state = "inProgress" => records'[j] = records[j]
    BY <1>2, <1>3, <1>8, <2>1, <2>6
  <2>. QED
    BY <2>7, <2>8, <2>9
<1>. QED
  BY <1>4, <1>7, <1>8 DEF Reserve, P

-------------------------------------------------------------------------------
(* The invariant holds initially and every action preserves it.            *)

LEMMA InitEstablishes == StoreAssumption /\ StoreInit => StoreInv
<1>. SUFFICES ASSUME StoreAssumption, StoreInit PROVE StoreInv
  OBVIOUS
<1>1. StoreTypeOK /\ CallersTyped /\ ReservationKept
  BY DEF StoreInit, StoreTypeOK, CallersTyped, ReservationKept, Record, Absent, Kinds
<1>2. OneExecutionPerKey /\ ResultsFaithful /\ ReplayFaithful
  BY DEF StoreInit, OneExecutionPerKey, ResultsFaithful, ReplayFaithful, Absent
<1>3. Held(records) = {}
  BY DEF StoreInit, Held, Absent
<1>4. StoreBounded
  BY <1>3, FS_EmptySet DEF StoreBounded, StoreAssumption
<1>. QED
  BY <1>1, <1>2, <1>4 DEF StoreInv

\* A refused or replayed request: the table is purged, the caller keeps idle.
LEMMA AnswerPreserves ==
  ASSUME StoreAssumption, StoreInv,
         NEW c \in Callers, NEW k \in Keys, NEW f \in Fingerprints,
         Conflict(c, k, f) \/ InProgress(c, k, f) \/ Replay(c, k, f) \/ Full(c, k)
  PROVE  StoreInv'
<1>1. /\ records' = Purged
      /\ pc[c] = "idle"
      /\ \E q \in Request \cup {None} : request' = [request EXCEPT ![c] = q]
      /\ UNCHANGED <<now, pc, outcome, returned>>
  BY AnswerOnly
<1>2. StoreTypeOK /\ CallersTyped /\ ReservationKept /\ OneExecutionPerKey
      /\ ResultsFaithful /\ ReplayFaithful /\ StoreBounded
  BY DEF StoreInv
<1>3. /\ Purged \in [Keys -> Record]
      /\ \A j \in Keys : Purged[j] = records[j] \/ Purged[j] = Absent
      /\ \A j \in Keys : records[j].state # "completed" => Purged[j] = records[j]
  BY <1>2, PurgedFacts
<1>4. \E kind \in Kinds, r \in Results \cup {None} :
        /\ answer' = [answer EXCEPT ![c] = [kind |-> kind, result |-> r]]
        /\ kind = "replayed" =>
             /\ request' = [request EXCEPT ![c] = [key |-> k, fingerprint |-> f]]
             /\ Purged[k].state = "completed"
             /\ Purged[k].fingerprint = f
             /\ r = Purged[k].result
  <2>1. CASE Replay(c, k, f)
    <3>1. Purged[k].result \in Results \cup {None}
      BY <1>3 DEF Record, Absent, ReservedRecord, CompletedRecord
    <3>. QED
      BY <2>1, <3>1 DEF Replay, Ask, Answer, Kinds, SameRequest
  <2>2. CASE Conflict(c, k, f) \/ InProgress(c, k, f) \/ Full(c, k)
    BY <2>2 DEF Conflict, InProgress, Full, Refuse, Nothing, Answer, Kinds
  <2>. QED
    BY <2>1, <2>2
<1>5. StoreTypeOK'
  BY <1>1, <1>2, <1>3, <1>4 DEF StoreTypeOK, Request
<1>6. CallersTyped' /\ ReservationKept' /\ OneExecutionPerKey'
  <2>1. \A d \in Callers : pc[d] # "idle" => d # c /\ request'[d] = request[d]
    BY <1>1, <1>2 DEF StoreTypeOK
  <2>2. CallersTyped'
    BY <1>1, <1>2, <2>1 DEF CallersTyped
  <2>3. ReservationKept'
    BY <1>1, <1>2, <1>3, <2>1 DEF ReservationKept, CallersTyped, Request
  <2>4. OneExecutionPerKey'
    BY <1>1, <1>2, <2>1 DEF OneExecutionPerKey
  <2>. QED
    BY <2>2, <2>3, <2>4
<1>7. ResultsFaithful'
  <2>1. \A d \in Callers : pc[d] # "idle" => request'[d] = request[d]
    BY <1>1, <1>2 DEF StoreTypeOK
  <2>. QED
    BY <1>1, <1>2, <1>3, <2>1 DEF ResultsFaithful, Absent
<1>8. ReplayFaithful'
  <2>. SUFFICES ASSUME NEW d \in Callers, answer'[d].kind = "replayed"
                PROVE  [key         |-> request'[d].key,
                        fingerprint |-> request'[d].fingerprint,
                        result      |-> answer'[d].result] \in returned
    BY <1>1 DEF ReplayFaithful
  <2>1. CASE d = c
    <3>1. /\ Purged[k].state = "completed"
          /\ Purged[k].fingerprint = f
          /\ answer'[d].result = Purged[k].result
          /\ request' = [request EXCEPT ![c] = [key |-> k, fingerprint |-> f]]
      BY <1>2, <1>4, <2>1 DEF StoreTypeOK
    <3>2. Purged[k] = records[k]
      BY <1>3, <3>1 DEF Absent
    <3>3. request'[d].key = k /\ request'[d].fingerprint = f
      BY <1>1, <1>2, <2>1, <3>1 DEF StoreTypeOK
    <3>. QED
      BY <1>2, <3>1, <3>2, <3>3 DEF ResultsFaithful
  <2>2. CASE d # c
    BY <1>1, <1>2, <1>4, <2>2 DEF StoreTypeOK, ReplayFaithful
  <2>. QED
    BY <2>1, <2>2
<1>9. StoreBounded'
  <2>1. Held(Purged) \subseteq Held(records)
    BY <1>3 DEF Held, Absent
  <2>2. Cardinality(Held(Purged)) <= Cardinality(Held(records))
    BY <2>1, HeldMonotone
  <2>3. Cardinality(Held(Purged)) \in Nat /\ Cardinality(Held(records)) \in Nat
    BY HeldFinite
  <2>4. Cardinality(Held(Purged)) <= MaxRecords
    BY <1>2, <2>2, <2>3 DEF StoreBounded, StoreAssumption
  <2>. QED
    BY <1>1, <2>4 DEF StoreBounded
<1>. QED
  BY <1>5, <1>6, <1>7, <1>8, <1>9 DEF StoreInv

\* A reservation: the key was free, so no other caller is executing under it.
LEMMA ReservePreserves ==
  ASSUME StoreAssumption, StoreInv,
         NEW c \in Callers, NEW k \in Keys, NEW f \in Fingerprints, Reserve(c, k, f)
  PROVE  StoreInv'
<1>1. StoreTypeOK /\ CallersTyped /\ ReservationKept /\ OneExecutionPerKey
      /\ ResultsFaithful /\ ReplayFaithful
  BY DEF StoreInv
<1>2. /\ records' \in [Keys -> Record]
      /\ records'[k] = Reservation(f)
      /\ records[k].state # "inProgress"
      /\ \A j \in Keys \ {k} :
           /\ records'[j] = records[j] \/ records'[j] = Absent
           /\ records[j].state = "inProgress" => records'[j] = records[j]
      /\ Cardinality(Held(records')) <= MaxRecords
  BY ReserveStep
<1>3. /\ pc[c] = "idle" /\ pc' = [pc EXCEPT ![c] = "operating"]
      /\ request' = [request EXCEPT ![c] = [key |-> k, fingerprint |-> f]]
      /\ answer' = [answer EXCEPT ![c] = [kind |-> "none", result |-> None]]
      /\ UNCHANGED <<now, outcome, returned>>
  BY DEF Reserve, Ask, Answer
<1>4. StoreTypeOK'
  BY <1>1, <1>2, <1>3 DEF StoreTypeOK, Request, Kinds
<1>5. \A d \in Callers :
        /\ d # c => pc'[d] = pc[d] /\ request'[d] = request[d] /\ answer'[d] = answer[d]
        /\ d = c => /\ pc'[d] = "operating" /\ answer'[d].kind = "none"
                    /\ request'[d].key = k /\ request'[d].fingerprint = f
                    /\ request'[d] \in Request
  BY <1>1, <1>3 DEF StoreTypeOK, Request
<1>6. \A d \in Callers : d # c /\ pc[d] # "idle" => request[d].key \in Keys \ {k}
  BY <1>1, <1>2 DEF CallersTyped, ReservationKept, Request
<1>7. CallersTyped'
  BY <1>1, <1>3, <1>5 DEF CallersTyped
<1>8. ReservationKept'
  BY <1>1, <1>2, <1>5, <1>6 DEF ReservationKept, Reservation
<1>9. OneExecutionPerKey'
  BY <1>1, <1>5, <1>6 DEF OneExecutionPerKey
<1>10. ResultsFaithful'
  BY <1>1, <1>2, <1>3, <1>5 DEF ResultsFaithful, Absent, Reservation
<1>11. ReplayFaithful'
  <2>1. \A d \in Callers : answer'[d].kind = "replayed" =>
          d # c /\ request'[d] = request[d] /\ answer'[d] = answer[d]
    BY <1>5
  <2>2. ASSUME NEW d \in Callers, answer'[d].kind = "replayed"
        PROVE  [key         |-> request'[d].key,
                fingerprint |-> request'[d].fingerprint,
                result      |-> answer'[d].result] \in returned'
    <3>1. request'[d] = request[d] /\ answer'[d] = answer[d] /\ returned' = returned
      BY <1>3, <2>1, <2>2
    <3>. QED
      BY <1>1, <2>2, <3>1 DEF ReplayFaithful
  <2>. QED
    BY <2>2 DEF ReplayFaithful
<1>. QED
  BY <1>2, <1>4, <1>7, <1>8, <1>9, <1>10, <1>11 DEF StoreInv, StoreBounded

\* The operation, which runs without the store's lock, only leaves its result behind.
LEMMA OperationPreserves ==
  ASSUME StoreAssumption, StoreInv, NEW c \in Callers,
         OperationRaises(c) \/ \E r \in Results : OperationReturns(c, r)
  PROVE  StoreInv'
<1>1. StoreTypeOK /\ CallersTyped /\ ReservationKept /\ OneExecutionPerKey
      /\ ResultsFaithful /\ ReplayFaithful /\ StoreBounded
  BY DEF StoreInv
<1>2. /\ pc[c] = "operating"
      /\ UNCHANGED <<records, now, request, answer>>
      /\ returned \subseteq returned'
      /\ \A d \in Callers : d # c => pc'[d] = pc[d] /\ outcome'[d] = outcome[d]
      /\ pc'[c] # "idle"
  BY <1>1 DEF OperationRaises, OperationReturns, StoreTypeOK
<1>3. request[c] \in Request
  BY <1>1, <1>2 DEF CallersTyped
<1>4. StoreTypeOK'
  <2>1. CASE OperationRaises(c)
    BY <1>1, <2>1 DEF StoreTypeOK, OperationRaises
  <2>2. ASSUME NEW r \in Results, OperationReturns(c, r)
        PROVE  StoreTypeOK'
    <3>1. [key         |-> request[c].key,
           fingerprint |-> request[c].fingerprint,
           result      |-> r] \in Return
      BY <1>3 DEF Request, Return
    <3>. QED
      BY <1>1, <2>2, <3>1 DEF StoreTypeOK, OperationReturns
  <2>. QED
    BY <2>1, <2>2
<1>5. /\ pc'[c] = "returned" => outcome'[c] \in Results
      /\ pc'[c] = "returned" => [key         |-> request[c].key,
                                 fingerprint |-> request[c].fingerprint,
                                 result      |-> outcome'[c]] \in returned'
  BY <1>1 DEF OperationRaises, OperationReturns, StoreTypeOK
<1>6. CallersTyped' /\ ReservationKept' /\ OneExecutionPerKey'
  <2>1. \A d \in Callers : pc'[d] # "idle" => pc[d] # "idle"
    BY <1>2
  <2>2. CallersTyped'
    BY <1>1, <1>2, <1>5, <2>1 DEF CallersTyped
  <2>3. ReservationKept' /\ OneExecutionPerKey'
    BY <1>1, <1>2, <2>1 DEF ReservationKept, OneExecutionPerKey
  <2>. QED
    BY <2>2, <2>3
<1>7. ResultsFaithful'
  <2>1. \A d \in Callers : pc'[d] = "returned" =>
          [key         |-> request[d].key,
           fingerprint |-> request[d].fingerprint,
           result      |-> outcome'[d]] \in returned'
    BY <1>1, <1>2, <1>5 DEF ResultsFaithful
  <2>. QED
    BY <1>1, <1>2, <2>1 DEF ResultsFaithful
<1>8. ReplayFaithful' /\ StoreBounded'
  BY <1>1, <1>2 DEF ReplayFaithful, StoreBounded
<1>. QED
  BY <1>4, <1>6, <1>7, <1>8 DEF StoreInv

\* The second locked block after a result: it overwrites the caller's own
\* reservation, so the store does not grow.
LEMMA RetainPreserves ==
  ASSUME StoreAssumption, StoreInv, NEW c \in Callers, Retain(c)
  PROVE  StoreInv'
<1>. DEFINE k == request[c].key
            f == request[c].fingerprint
<1>1. StoreTypeOK /\ CallersTyped /\ ReservationKept /\ OneExecutionPerKey
      /\ ResultsFaithful /\ ReplayFaithful /\ StoreBounded
  BY DEF StoreInv
<1>2. /\ pc[c] = "returned" /\ pc' = [pc EXCEPT ![c] = "idle"]
      /\ records' = [records EXCEPT ![k] = Completion(f, outcome[c])]
      /\ outcome' = [outcome EXCEPT ![c] = None]
      /\ answer' = [answer EXCEPT ![c] = [kind |-> "executed", result |-> outcome[c]]]
      /\ request' = [request EXCEPT ![c] = None]
      /\ UNCHANGED <<now, returned>>
  BY DEF Retain, Answer
<1>3. k \in Keys /\ f \in Fingerprints /\ outcome[c] \in Results
  BY <1>1, <1>2 DEF CallersTyped, Request
<1>4. Completion(f, outcome[c]) \in Record
  BY <1>1, <1>3, RecordFacts
<1>5. records[k].state = "inProgress"
  BY <1>1, <1>2 DEF ReservationKept
<1>6. [key |-> k, fingerprint |-> f, result |-> outcome[c]] \in returned
  BY <1>1, <1>2 DEF ResultsFaithful
<1>7. \A d \in Callers : pc'[d] # "idle" =>
        d # c /\ pc'[d] = pc[d] /\ outcome'[d] = outcome[d] /\ request'[d] = request[d]
  BY <1>1, <1>2 DEF StoreTypeOK
<1>8. \A d \in Callers : pc'[d] # "idle" => request[d].key \in Keys \ {k}
  BY <1>1, <1>2, <1>7 DEF OneExecutionPerKey, CallersTyped, Request
<1>9. /\ records'[k] = Completion(f, outcome[c])
      /\ \A j \in Keys \ {k} : records'[j] = records[j]
  BY <1>1, <1>2, <1>3 DEF StoreTypeOK
<1>10. StoreTypeOK'
  BY <1>1, <1>2, <1>3, <1>4 DEF StoreTypeOK, Kinds
<1>. HIDE DEF k, f
<1>11. CallersTyped'
  BY <1>1, <1>2, <1>7 DEF CallersTyped
<1>12. ReservationKept'
  BY <1>1, <1>2, <1>7, <1>8, <1>9 DEF ReservationKept
<1>13. OneExecutionPerKey'
  BY <1>1, <1>2, <1>7 DEF OneExecutionPerKey
<1>14. ResultsFaithful'
  <2>1. \A j \in Keys : records'[j].state = "completed" =>
          [key         |-> j,
           fingerprint |-> records'[j].fingerprint,
           result      |-> records'[j].result] \in returned
    BY <1>1, <1>6, <1>9 DEF ResultsFaithful, Completion
  <2>2. \A d \in Callers : pc'[d] = "returned" =>
          [key         |-> request'[d].key,
           fingerprint |-> request'[d].fingerprint,
           result      |-> outcome'[d]] \in returned
    <3> SUFFICES ASSUME NEW d \in Callers, pc'[d] = "returned"
                 PROVE  [key         |-> request'[d].key,
                         fingerprint |-> request'[d].fingerprint,
                         result      |-> outcome'[d]] \in returned
      OBVIOUS
    <3>1. pc[d] = "returned" /\ outcome'[d] = outcome[d] /\ request'[d] = request[d]
      BY <1>7
    <3> QED BY <1>1, <3>1 DEF ResultsFaithful
  <2> QED BY <1>2, <2>1, <2>2 DEF ResultsFaithful
<1>15. ReplayFaithful'
  <2>1. \A d \in Callers : answer'[d].kind = "replayed" => d # c /\ answer'[d] = answer[d]
    BY <1>1, <1>2 DEF StoreTypeOK
  <2>2. ASSUME NEW d \in Callers, answer'[d].kind = "replayed"
        PROVE  [key         |-> request'[d].key,
                fingerprint |-> request'[d].fingerprint,
                result      |-> answer'[d].result] \in returned'
    <3>1. request'[d] = request[d] /\ answer'[d] = answer[d] /\ returned' = returned
      BY <1>1, <1>2, <2>1, <2>2 DEF StoreTypeOK
    <3>. QED
      BY <1>1, <2>2, <3>1 DEF ReplayFaithful
  <2>. QED
    BY <2>2 DEF ReplayFaithful
<1>16. StoreBounded'
  <2>1. Held(records') = Held(records)
    BY <1>3, <1>5, <1>9 DEF Held, Completion
  <2>. QED
    BY <1>1, <2>1 DEF StoreBounded
<1>. QED
  BY <1>10, <1>11, <1>12, <1>13, <1>14, <1>15, <1>16 DEF StoreInv

\* The handler after an exception: it deletes the caller's own reservation only.
LEMMA ReleasePreserves ==
  ASSUME StoreAssumption, StoreInv, NEW c \in Callers, Release(c)
  PROVE  StoreInv'
<1>. DEFINE k == request[c].key
<1>1. StoreTypeOK /\ CallersTyped /\ ReservationKept /\ OneExecutionPerKey
      /\ ResultsFaithful /\ ReplayFaithful /\ StoreBounded
  BY DEF StoreInv
<1>2. /\ pc[c] = "raised" /\ pc' = [pc EXCEPT ![c] = "idle"]
      /\ answer' = [answer EXCEPT ![c] = [kind |-> "none", result |-> None]]
      /\ request' = [request EXCEPT ![c] = None]
      /\ UNCHANGED <<now, outcome, returned>>
  BY DEF Release, Nothing, Answer
<1>3. k \in Keys
  BY <1>1, <1>2 DEF CallersTyped, Request
<1>4. records' = [records EXCEPT ![k] = Absent]
  BY <1>1, <1>2 DEF Release, Released, ReservationKept, SameRequest
<1>5. \A d \in Callers : pc'[d] # "idle" =>
        d # c /\ pc'[d] = pc[d] /\ request'[d] = request[d]
  BY <1>1, <1>2 DEF StoreTypeOK
<1>6. \A d \in Callers : pc'[d] # "idle" => request[d].key \in Keys \ {k}
  BY <1>1, <1>2, <1>5 DEF OneExecutionPerKey, CallersTyped, Request
<1>7. /\ records'[k] = Absent
      /\ \A j \in Keys \ {k} : records'[j] = records[j]
  BY <1>1, <1>3, <1>4 DEF StoreTypeOK
<1>8. StoreTypeOK'
  BY <1>1, <1>2, <1>4 DEF StoreTypeOK, Kinds, Record
<1>. HIDE DEF k
<1>9. CallersTyped'
  BY <1>1, <1>2, <1>5 DEF CallersTyped
<1>10. ReservationKept'
  BY <1>1, <1>2, <1>5, <1>6, <1>7 DEF ReservationKept
<1>11. OneExecutionPerKey'
  BY <1>1, <1>2, <1>5 DEF OneExecutionPerKey
<1>12. ResultsFaithful'
  <2>1. ASSUME NEW j \in Keys, records'[j].state = "completed"
        PROVE  [key         |-> j,
                fingerprint |-> records'[j].fingerprint,
                result      |-> records'[j].result] \in returned'
    <3>1. j # k /\ records'[j] = records[j] /\ returned' = returned
      BY <1>2, <1>7, <2>1 DEF Absent
    <3>. QED
      BY <1>1, <2>1, <3>1 DEF ResultsFaithful
  <2>2. ASSUME NEW d \in Callers, pc'[d] = "returned"
        PROVE  [key         |-> request'[d].key,
                fingerprint |-> request'[d].fingerprint,
                result      |-> outcome'[d]] \in returned'
    <3>1. /\ pc'[d] = pc[d] /\ request'[d] = request[d]
          /\ outcome' = outcome /\ returned' = returned
      BY <1>2, <1>5, <2>2
    <3>. QED
      BY <1>1, <2>2, <3>1 DEF ResultsFaithful
  <2>. QED
    BY <2>1, <2>2 DEF ResultsFaithful
<1>13. ReplayFaithful'
  <2>1. \A d \in Callers : answer'[d].kind = "replayed" => d # c /\ answer'[d] = answer[d]
    BY <1>1, <1>2 DEF StoreTypeOK
  <2>2. ASSUME NEW d \in Callers, answer'[d].kind = "replayed"
        PROVE  [key         |-> request'[d].key,
                fingerprint |-> request'[d].fingerprint,
                result      |-> answer'[d].result] \in returned'
    <3>1. request'[d] = request[d] /\ answer'[d] = answer[d] /\ returned' = returned
      BY <1>1, <1>2, <2>1, <2>2 DEF StoreTypeOK
    <3>. QED
      BY <1>1, <2>2, <3>1 DEF ReplayFaithful
  <2>. QED
    BY <2>2 DEF ReplayFaithful
<1>14. StoreBounded'
  <2>1. Held(records') \subseteq Held(records)
    BY <1>3, <1>7 DEF Held, Absent
  <2>2. Cardinality(Held(records')) <= Cardinality(Held(records))
    BY <2>1, HeldMonotone
  <2>3. Cardinality(Held(records')) \in Nat /\ Cardinality(Held(records)) \in Nat
    BY HeldFinite
  <2>. QED
    BY <1>1, <2>2, <2>3 DEF StoreBounded, StoreAssumption
<1>. QED
  BY <1>8, <1>9, <1>10, <1>11, <1>12, <1>13, <1>14 DEF StoreInv

LEMMA TickPreserves == StoreInv /\ (Tick \/ UNCHANGED storeVars) => StoreInv'
<1>. SUFFICES ASSUME StoreInv, Tick \/ UNCHANGED storeVars PROVE StoreInv'
  OBVIOUS
<1>1. UNCHANGED <<records, pc, request, outcome, answer, returned>>
  BY DEF Tick, storeVars
<1>2. StoreTypeOK'
  BY <1>1 DEF StoreInv, StoreTypeOK, Tick, storeVars
<1>. QED
  BY <1>1, <1>2 DEF StoreInv, CallersTyped, ReservationKept, OneExecutionPerKey,
                    ResultsFaithful, ReplayFaithful, StoreBounded

-------------------------------------------------------------------------------
(* The theorems.                                                           *)

\* The strengthened invariant of the store holds in every reachable state.
THEOREM StoreInvariance == StoreSpec => []StoreInv
<1>1. StoreInit => StoreInv
  BY StoreAssumption, InitEstablishes
<1>2. StoreInv /\ [StoreNext]_storeVars => StoreInv'
  <2>. SUFFICES ASSUME StoreInv, [StoreNext]_storeVars PROVE StoreInv'
    OBVIOUS
  <2>1. ASSUME NEW c \in Callers, NEW k \in Keys, NEW f \in Fingerprints, Execute(c, k, f)
        PROVE  StoreInv'
    BY <2>1, StoreAssumption, AnswerPreserves, ReservePreserves DEF Execute
  <2>2. ASSUME NEW c \in Callers, Finish(c)
        PROVE  StoreInv'
    BY <2>2, StoreAssumption, OperationPreserves, RetainPreserves, ReleasePreserves DEF Finish
  <2>3. CASE Tick \/ UNCHANGED storeVars
    BY <2>3, TickPreserves
  <2>. QED
    BY <2>1, <2>2, <2>3 DEF StoreNext
<1>. QED
  BY <1>1, <1>2, PTL DEF StoreSpec

\* The store never holds more than MaxRecords records (_in_memory_idempotency_store.py
\* checks the capacity only when it reserves).
THEOREM CapacityKept == StoreSpec => []StoreBounded
<1>1. StoreInv => StoreBounded
  BY DEF StoreInv
<1>. QED
  BY <1>1, StoreInvariance, PTL

\* At most one caller executes under a key, however callers, clock and evictions
\* interleave between the two locked blocks of execute.
THEOREM SingleExecution == StoreSpec => []OneExecutionPerKey
<1>1. StoreInv => OneExecutionPerKey
  BY DEF StoreInv
<1>. QED
  BY <1>1, StoreInvariance, PTL

\* Every replayed answer is a result returned for the same key and fingerprint.
THEOREM FaithfulReplay == StoreSpec => []ReplayFaithful
<1>1. StoreInv => ReplayFaithful
  BY DEF StoreInv
<1>. QED
  BY <1>1, StoreInvariance, PTL

\* What becomes of the reservations when a caller passes one of its locked blocks.
LEMMA CallerOfReservation ==
  ASSUME StoreAssumption, StoreInv, NoKeyStuck, NEW c \in Callers, NEW j \in Keys,
         NEW k \in Keys, NEW f \in Fingerprints, Execute(c, k, f) \/ Finish(c),
         records'[j].state = "inProgress"
  PROVE  \E d \in Callers : pc'[d] # "idle" /\ request'[d].key = j
<1> USE DEF StoreInv, StoreTypeOK
<1>1. CASE Conflict(c, k, f) \/ InProgress(c, k, f) \/ Replay(c, k, f) \/ Full(c, k)
  <2>1. records[j].state = "inProgress"
    BY <1>1, AnswerOnly, PurgedFacts DEF Absent
  <2>2. PICK d \in Callers : pc[d] # "idle" /\ request[d].key = j
    BY <2>1 DEF NoKeyStuck
  <2>3. d # c /\ pc'[d] = pc[d] /\ request'[d] = request[d]
    BY <1>1, <2>2, AnswerOnly
  <2> QED BY <2>2, <2>3
<1>2. CASE Reserve(c, k, f)
  <2>1. pc[c] = "idle" /\ pc' = [pc EXCEPT ![c] = "operating"]
        /\ request' = [request EXCEPT ![c] = [key |-> k, fingerprint |-> f]]
    BY <1>2 DEF Reserve, Ask
  <2>2. CASE j = k
    BY <2>1, <2>2
  <2>3. CASE j # k
    <3>1. records[j].state = "inProgress"
      BY <1>2, <2>3, ReserveStep DEF Absent
    <3>2. PICK d \in Callers : pc[d] # "idle" /\ request[d].key = j
      BY <3>1 DEF NoKeyStuck
    <3> QED BY <2>1, <3>2
  <2> QED BY <2>2, <2>3
<1>3. CASE OperationRaises(c) \/ \E r \in Results : OperationReturns(c, r)
  <2>1. records' = records /\ request' = request
        /\ \A d \in Callers : pc[d] # "idle" => pc'[d] # "idle"
    BY <1>3 DEF OperationRaises, OperationReturns
  <2> QED BY <2>1 DEF NoKeyStuck
<1>4. CASE Retain(c) \/ Release(c)
  <2>1. \A d \in Callers \ {c} : request'[d] = request[d] /\ pc'[d] = pc[d]
    BY <1>4 DEF Retain, Release, Nothing
  <2>2. request[c].key # j /\ records[j].state = "inProgress"
    <3>1. pc[c] # "idle" /\ request[c] \in Request
      BY <1>4 DEF Retain, Release, CallersTyped
    <3>2. CASE Retain(c)
      BY <3>1, <3>2 DEF Retain, Completion, Request
    <3>3. CASE Release(c)
      BY <3>1, <3>3 DEF Release, Released, ReservationKept, SameRequest, Request, Absent
    <3> QED BY <1>4, <3>2, <3>3
  <2>3. PICK d \in Callers : pc[d] # "idle" /\ request[d].key = j
    BY <2>2 DEF NoKeyStuck
  <2> QED BY <2>1, <2>2, <2>3
<1> QED BY <1>1, <1>2, <1>3, <1>4 DEF Execute, Finish

\* No key is left in progress by a caller that is gone, whatever its operation did.
THEOREM NobodyLeavesAKey == StoreSpec => []NoKeyStuck
<1>1. StoreInit => NoKeyStuck
  BY DEF StoreInit, NoKeyStuck, Absent
<1>2. StoreInv /\ NoKeyStuck /\ [StoreNext]_storeVars => NoKeyStuck'
  <2> SUFFICES ASSUME StoreInv, NoKeyStuck, [StoreNext]_storeVars PROVE NoKeyStuck'
    OBVIOUS
  <2>1. CASE Tick \/ UNCHANGED storeVars
    BY <2>1 DEF Tick, storeVars, NoKeyStuck
  <2>2. ASSUME NEW c \in Callers, NEW k \in Keys, NEW f \in Fingerprints,
               Execute(c, k, f) \/ Finish(c)
        PROVE  NoKeyStuck'
    BY <2>2, StoreAssumption, CallerOfReservation DEF NoKeyStuck
  <2>3. ASSUME NEW c \in Callers, Finish(c), NEW j \in Keys,
               records'[j].state = "inProgress"
        PROVE  \E d \in Callers : pc'[d] # "idle" /\ request'[d].key = j
    <3>1. PICK d \in Callers : pc[d] # "idle"
      BY <2>3 DEF Finish, OperationReturns, OperationRaises, Retain, Release
    <3>2. request[d].fingerprint \in Fingerprints
      BY <3>1 DEF StoreInv, CallersTyped, Request
    <3> QED BY <2>3, <3>2, StoreAssumption, CallerOfReservation
  <2> QED BY <2>1, <2>2, <2>3 DEF StoreNext, NoKeyStuck
<1> QED BY <1>1, <1>2, StoreInvariance, PTL DEF StoreSpec

-------------------------------------------------------------------------------
(* The store implements KeyedOnce.                                         *)

Entry == [k \in Keys |-> [state       |-> records[k].state,
                          fingerprint |-> records[k].fingerprint,
                          result      |-> records[k].result]]

\* A table that only loses completed records is one that forgets them.
LEMMA ForgetStep ==
  ASSUME StoreTypeOK, records' \in [Keys -> Record],
         NEW K \in SUBSET Keys,
         \A j \in Keys : records'[j] = IF j \in K THEN Absent ELSE records[j]
  PROVE  Entry' = Promise!Without(K)
BY DEF Entry, Promise!Without, Promise!Free, Absent

\* Refusing or replaying a request forgets the expired keys and begins nothing.
LEMMA AnswerRefines ==
  ASSUME StoreAssumption, StoreInv,
         NEW c \in Callers, NEW k \in Keys, NEW f \in Fingerprints,
         Conflict(c, k, f) \/ InProgress(c, k, f) \/ Replay(c, k, f) \/ Full(c, k)
  PROVE  Promise!Next
<1>. PICK K : K = {j \in Keys : Expired(records[j])}
  OBVIOUS
<1>1. StoreTypeOK /\ records' = Purged
  BY AnswerOnly DEF StoreInv
<1>2. Purged \in [Keys -> Record]
  BY <1>1, PurgedFacts
<1>3. Entry' = Promise!Without(K)
  BY <1>1, <1>2, ForgetStep DEF Purged
<1>4. K \in SUBSET Promise!DoneKeys
  BY DEF Promise!DoneKeys, Expired
<1>5. Promise!Forget(K)
  BY <1>3 DEF Promise!Forget, Entry
<1>. QED
  BY <1>4, <1>5 DEF Promise!Next

\* A reservation forgets the expired keys and the evicted one, and begins its own.
LEMMA ReserveRefines ==
  ASSUME StoreAssumption, StoreInv,
         NEW c \in Callers, NEW k \in Keys, NEW f \in Fingerprints, Reserve(c, k, f)
  PROVE  Promise!Next
<1>1. StoreTypeOK
  BY DEF StoreInv
<1>2. /\ records' \in [Keys -> Record]
      /\ records'[k] = Reservation(f)
      /\ records[k].state # "inProgress"
      /\ \A j \in Keys \ {k} :
           /\ records'[j] = records[j] \/ records'[j] = Absent
           /\ records[j].state = "inProgress" => records'[j] = records[j]
  BY ReserveStep
<1>. PICK K : K = {j \in Keys : /\ records[j].state = "completed"
                                /\ j = k \/ records'[j] = Absent}
  OBVIOUS
<1>3. K \in SUBSET Promise!DoneKeys
  BY DEF Promise!DoneKeys
<1>4. \A j \in Keys : records[j].state = "absent" => records[j] = Absent
  BY <1>1 DEF StoreTypeOK, Record, ReservedRecord, CompletedRecord
<1>5. \A j \in Keys : records[j].state \in {"absent", "inProgress", "completed"}
  BY <1>1 DEF StoreTypeOK, Record, ReservedRecord, CompletedRecord, Absent
<1>6. Promise!Without(K)[k] = Promise!Free
  BY <1>2, <1>4, <1>5 DEF Promise!Without, Promise!Free, Absent
<1>7. \A j \in Keys \ {k} : records'[j] = IF j \in K THEN Absent ELSE records[j]
  BY <1>2, <1>4, <1>5
<1>8. \A j \in Keys : Entry'[j] = IF j = k THEN Promise!Busy(f) ELSE Promise!Without(K)[j]
  BY <1>2, <1>7 DEF Entry, Promise!Without, Promise!Free, Promise!Busy, Absent, Reservation
<1>9. Entry' = [Promise!Without(K) EXCEPT ![k] = Promise!Busy(f)]
  <2>1. Promise!Without(K) = [j \in Keys |-> Promise!Without(K)[j]]
    BY DEF Promise!Without
  <2>2. Entry' = [j \in Keys |-> Entry'[j]]
    BY DEF Entry
  <2>. QED
    BY <1>8, <2>1, <2>2
<1>10. Promise!Begin(k, f, K)
  BY <1>6, <1>9 DEF Promise!Begin, Entry
<1>. QED
  BY <1>3, <1>10 DEF Promise!Next

\* Retaining finishes the key, releasing aborts it, everything else is a stutter.
LEMMA FinishRefines ==
  ASSUME StoreAssumption, StoreInv, NEW c \in Callers, Finish(c)
  PROVE  Promise!Next \/ UNCHANGED Entry
<1>. PICK k, r : k = request[c].key /\ r = outcome[c]
  OBVIOUS
<1>1. /\ records \in [Keys -> Record]
      /\ pc[c] # "idle" /\ k \in Keys
      /\ records[k].state = "inProgress"
      /\ records[k].fingerprint = request[c].fingerprint
      /\ pc[c] = "returned" => r \in Results
  BY DEF StoreInv, StoreTypeOK, CallersTyped, ReservationKept, Request,
         Finish, OperationReturns, OperationRaises, Retain, Release
<1>2. CASE Retain(c)
  <2>1. records' = [records EXCEPT ![k] = Completion(request[c].fingerprint, r)]
        /\ r \in Results
    BY <1>1, <1>2 DEF Retain
  <2>2. Promise!Finish(k, r)
    BY <1>1, <2>1 DEF Promise!Finish, Promise!Done, Completion
  <2>. QED
    BY <1>1, <2>1, <2>2 DEF Promise!Next, Promise!End
<1>3. CASE Release(c)
  <2>1. records' = [records EXCEPT ![k] = Absent]
    BY <1>1, <1>3 DEF Release, Released, SameRequest
  <2>2. Promise!Abort(k)
    BY <1>1, <2>1 DEF Promise!Abort, Promise!Free, Absent
  <2>. QED
    BY <1>1, <2>2 DEF Promise!Next, Promise!End
<1>4. CASE OperationRaises(c) \/ \E q \in Results : OperationReturns(c, q)
  BY <1>4 DEF OperationRaises, OperationReturns, Entry
<1>. QED
  BY <1>2, <1>3, <1>4 DEF Finish

\* The store implements KeyedOnce: whatever the clock, the capacity and the callers
\* do, a key is taken by one request at a time and its result stands until forgotten.
THEOREM Refinement == StoreSpec => KeepsPromise
<1>1. StoreInit => Promise!Init
  BY DEF StoreInit, Promise!Init, Promise!Free, Absent
<1>2. StoreInv /\ [StoreNext]_storeVars => [Promise!Next]_Entry
  <2>. SUFFICES ASSUME StoreInv, [StoreNext]_storeVars
                PROVE  Promise!Next \/ UNCHANGED Entry
    OBVIOUS
  <2>1. ASSUME NEW c \in Callers, NEW k \in Keys, NEW f \in Fingerprints, Execute(c, k, f)
        PROVE  Promise!Next
    BY <2>1, StoreAssumption, AnswerRefines, ReserveRefines DEF Execute
  <2>2. ASSUME NEW c \in Callers, Finish(c)
        PROVE  Promise!Next \/ UNCHANGED Entry
    BY <2>2, StoreAssumption, FinishRefines
  <2>3. CASE Tick \/ UNCHANGED storeVars
    BY <2>3 DEF Tick, storeVars, Entry
  <2>. QED
    BY <2>1, <2>2, <2>3 DEF StoreNext
<1>. QED
  BY <1>1, <1>2, StoreInvariance, PTL DEF StoreSpec, KeepsPromise, Promise!Spec, Entry

-------------------------------------------------------------------------------
(* What the store forgets.                                                 *)

\* The step may forget the completed record of key k.
MayForget(k) ==
  \/ Expired(records[k])
  \/ /\ Cardinality(Held(Purged)) >= MaxRecords
     /\ \A j \in Keys : records[j].state = "completed" /\ ~Expired(records[j])
          => records[k].expiresAt <= records[j].expiresAt

\* Eviction takes a record that is completed, in a full store, when none is older.
LEMMA EvictionAllowed ==
  ASSUME StoreAssumption, StoreInv,
         NEW c \in Callers, NEW q \in Keys, NEW f \in Fingerprints, Reserve(c, q, f),
         NEW k \in Keys, records[k].state = "completed", records'[k] # records[k]
  PROVE  MayForget(k)
<1>. SUFFICES ASSUME ~Expired(records[k])
              PROVE  /\ Cardinality(Held(Purged)) >= MaxRecords
                     /\ \A j \in Keys : records[j].state = "completed" /\ ~Expired(records[j])
                          => records[k].expiresAt <= records[j].expiresAt
  BY DEF MayForget
<1>1. \A j \in Keys : ~Expired(records[j]) => Purged[j] = records[j]
  BY DEF Purged
<1>2. Purged \in [Keys -> Record] /\ Purged[q].state = "absent" /\ k # q
  BY <1>1, PurgedFacts DEF Reserve, StoreInv
<1>3. ~HasRoom(Purged)
      /\ \E v \in Victims(Purged) :
           records' = [Purged EXCEPT ![v] = Absent, ![q] = Reservation(f)]
  BY <1>1, <1>2 DEF Reserve
<1>4. PICK v \in Victims(Purged) : records' = [Purged EXCEPT ![v] = Absent, ![q] = Reservation(f)]
  BY <1>3
<1>5. k = v
  BY <1>1, <1>2, <1>4
<1>6. Cardinality(Held(Purged)) >= MaxRecords
  <2>1. Cardinality(Held(Purged)) \in Nat /\ MaxRecords \in Nat
    BY HeldFinite DEF StoreAssumption
  <2>. QED
    BY <1>3, <2>1 DEF HasRoom
<1>7. ASSUME NEW j \in Keys, records[j].state = "completed", ~Expired(records[j])
      PROVE  records[k].expiresAt <= records[j].expiresAt
  <2>1. Purged[j] = records[j] /\ Purged[k] = records[k] /\ j \in Completed(Purged)
    BY <1>1, <1>7 DEF Completed
  <2>. QED
    BY <1>4, <1>5, <2>1 DEF Victims
<1>. QED
  BY <1>6, <1>7

\* The second locked block writes to the key of its own reservation, which is not completed.
LEMMA FinishForgetsNothing ==
  ASSUME StoreInv, NEW c \in Callers, Finish(c), NEW k \in Keys, records[k].state = "completed"
  PROVE  records'[k] = records[k]
<1>1. records \in [Keys -> Record]
  BY DEF StoreInv, StoreTypeOK
<1>2. CASE OperationRaises(c) \/ \E r \in Results : OperationReturns(c, r)
  BY <1>2 DEF OperationRaises, OperationReturns
<1>3. CASE Retain(c) \/ Release(c)
  <2>1. records[request[c].key].state = "inProgress"
    BY <1>3 DEF StoreInv, ReservationKept, Retain, Release
  <2>2. k # request[c].key
    BY <2>1
  <2>. QED
    BY <1>1, <1>3, <2>2 DEF Retain, Release, Released
<1>. QED
  BY <1>2, <1>3 DEF Finish

\* A result is forgotten only when its retention is over, or in a full store that holds
\* no older one (_purge and the eviction in execute).
THEOREM ForgetsAsAllowed == StoreSpec => ForgetsOnlyWhenAllowed
<1>1. StoreInv /\ [StoreNext]_storeVars =>
        [\A k \in Keys :
           records[k].state = "completed" /\ records'[k] # records[k] => MayForget(k)]_storeVars
  <2>. SUFFICES ASSUME StoreInv, StoreNext, NEW k \in Keys,
                       records[k].state = "completed", records'[k] # records[k]
                PROVE  MayForget(k)
    OBVIOUS
  <2>1. ASSUME NEW c \in Callers, NEW q \in Keys, NEW f \in Fingerprints, Execute(c, q, f)
        PROVE  MayForget(k)
    <3>1. CASE Conflict(c, q, f) \/ InProgress(c, q, f) \/ Replay(c, q, f) \/ Full(c, q)
      BY <3>1, AnswerOnly DEF Purged, MayForget
    <3>2. CASE Reserve(c, q, f)
      BY <3>2, StoreAssumption, EvictionAllowed
    <3>. QED
      BY <2>1, <3>1, <3>2 DEF Execute
  <2>2. ASSUME NEW c \in Callers, Finish(c)
        PROVE  MayForget(k)
    BY <2>2, FinishForgetsNothing
  <2>3. CASE Tick
    BY <2>3 DEF Tick
  <2>. QED
    BY <2>1, <2>2, <2>3 DEF StoreNext
<1>. QED
  BY <1>1, StoreInvariance, PTL DEF StoreSpec, ForgetsOnlyWhenAllowed, MayForget
===============================================================================
