--------------------------- MODULE IdempotencyStore ---------------------------
(***************************************************************************)
(* The process-local store behind POST .../executions: it reserves an      *)
(* Idempotency-Key, runs the operation without its lock and then retains   *)
(* the result for Ttl time units (_InMemoryIdempotencyStore).              *)
(*                                                                         *)
(* Each block the code runs under the store's lock is one action.  Between *)
(* the two blocks of one call the caller runs its operation, while other   *)
(* callers and the clock take steps.                                       *)
(***************************************************************************)
EXTENDS Naturals, FiniteSets

CONSTANTS
  Keys,          \* values of the Idempotency-Key header
  Fingerprints,  \* digests of (plan id, confirmation)
  Results,       \* what an operation may return
  Callers,       \* request threads
  MaxRecords,    \* capacity of the store (256 in the code)
  Ttl,           \* retention of a completed result (600 seconds in the code)
  MaxTime,       \* bound on the clock, for model checking
  None

ASSUME StoreAssumption ==
  /\ IsFiniteSet(Keys)
  /\ MaxRecords \in Nat \ {0}
  /\ Ttl \in Nat
  /\ MaxTime \in Nat
  /\ None \notin Fingerprints \cup Results

VARIABLES
  records,   \* the record of each key
  now,       \* time.monotonic()
  pc,        \* where each caller is inside execute
  request,   \* the (key, fingerprint) of each caller that executes or was replayed to
  outcome,   \* what the caller's operation returned
  answer,    \* the result the caller was given last, if it was not refused or failed
  returned   \* history: the results operations returned, with their request

storeVars == <<records, now, pc, request, outcome, answer, returned>>

Request == [key : Keys, fingerprint : Fingerprints]
Return  == [key : Keys, fingerprint : Fingerprints, result : Results]
Kinds   == {"none", "executed", "replayed"}
Absent  == [state |-> "absent", fingerprint |-> None, result |-> None, expiresAt |-> 0]

\* The code tells a reservation from a completed record by "result is None".
ReservedRecord ==
  [state : {"inProgress"}, fingerprint : Fingerprints, result : {None}, expiresAt : Nat]
CompletedRecord ==
  [state : {"completed"}, fingerprint : Fingerprints, result : Results, expiresAt : Nat]
Record == {Absent} \cup ReservedRecord \cup CompletedRecord

Reservation(f) ==
  [state |-> "inProgress", fingerprint |-> f, result |-> None, expiresAt |-> now + Ttl]

CompletionFault(f, r) ==
  [state |-> "completed", fingerprint |-> r, result |-> f, expiresAt |-> now + Ttl]

Completion(f, r) ==
  [state |-> "completed", fingerprint |-> f, result |-> r, expiresAt |-> now + Ttl]

\* The keys of a table tbl that hold a record, and those that hold a completed one.
Held(tbl)      == {k \in Keys : tbl[k].state # "absent"}
Completed(tbl) == {k \in Keys : tbl[k].state = "completed"}

-------------------------------------------------------------------------------
(* The decisions the code takes under the lock.  No action uses an operator *)
(* named ...Fault: it is a plausible slip in the definition that follows it, *)
(* kept to show that the properties below would notice it.                  *)

ExpiredFault(rec) == rec.state # "absent" /\ rec.expiresAt <= now

\* _purge: only a completed record expires.
Expired(rec) == rec.state = "completed" /\ rec.expiresAt <= now

Purged == [k \in Keys |-> IF Expired(records[k]) THEN Absent ELSE records[k]]

RecentVictimsFault(tbl) == Completed(tbl)

VictimsFault(tbl) ==
  {v \in Held(tbl) : \A k \in Held(tbl) : tbl[v].expiresAt <= tbl[k].expiresAt}

\* The completed records that expire first.  The code breaks a tie by insertion
\* order, which is not kept here: any of them may go.
Victims(tbl) ==
  {v \in Completed(tbl) : \A k \in Completed(tbl) : tbl[v].expiresAt <= tbl[k].expiresAt}

SameRequestFault(rec, f) == TRUE

SameRequest(rec, f) == rec.fingerprint = f

HasRoomFault(tbl) == Cardinality(Held(tbl)) <= MaxRecords

HasRoom(tbl) == Cardinality(Held(tbl)) < MaxRecords

-------------------------------------------------------------------------------
StoreInit ==
  /\ records  = [k \in Keys |-> Absent]
  /\ now      = 0
  /\ pc       = [c \in Callers |-> "idle"]
  /\ request  = [c \in Callers |-> None]
  /\ outcome  = [c \in Callers |-> None]
  /\ answer   = [c \in Callers |-> [kind |-> "none", result |-> None]]
  /\ returned = {}

Ask(c, k, f) ==
  /\ pc[c] = "idle"
  /\ request' = [request EXCEPT ![c] = [key |-> k, fingerprint |-> f]]

Answer(c, kind, r) == answer' = [answer EXCEPT ![c] = [kind |-> kind, result |-> r]]

\* The caller is refused, or its operation has failed: it is left with nothing.
Nothing(c) ==
  /\ request' = [request EXCEPT ![c] = None]
  /\ Answer(c, "none", None)

\* A request that is refused only purges the table.
Refuse(c) ==
  /\ pc[c] = "idle"
  /\ records' = Purged
  /\ Nothing(c)
  /\ UNCHANGED <<now, pc, outcome, returned>>

\* Another request owns the key.
Conflict(c, k, f) ==
  /\ Purged[k].state # "absent"
  /\ ~SameRequest(Purged[k], f)
  /\ Refuse(c)

\* The same request is still executing.
InProgress(c, k, f) ==
  /\ Purged[k].state = "inProgress"
  /\ SameRequest(Purged[k], f)
  /\ Refuse(c)

Replay(c, k, f) ==
  /\ Ask(c, k, f)
  /\ Purged[k].state = "completed"
  /\ SameRequest(Purged[k], f)
  /\ records' = Purged
  /\ Answer(c, "replayed", Purged[k].result)
  /\ UNCHANGED <<now, pc, outcome, returned>>

\* Every record is an execution in progress: nothing may be evicted.
Full(c, k) ==
  /\ Purged[k].state = "absent"
  /\ ~HasRoom(Purged)
  /\ Completed(Purged) = {}
  /\ Refuse(c)

Reserve(c, k, f) ==
  /\ Ask(c, k, f)
  /\ Purged[k].state = "absent"
  /\ \/ /\ HasRoom(Purged)
        /\ records' = [Purged EXCEPT ![k] = Reservation(f)]
     \/ /\ ~HasRoom(Purged)
        /\ \E v \in Victims(Purged) :
             records' = [Purged EXCEPT ![v] = Absent, ![k] = Reservation(f)]
  /\ pc' = [pc EXCEPT ![c] = "operating"]
  /\ Answer(c, "none", None)
  /\ UNCHANGED <<now, outcome, returned>>

\* operation(), which runs without the store's lock, returns or raises.
OperationReturns(c, r) ==
  /\ pc[c] = "operating"
  /\ pc' = [pc EXCEPT ![c] = "returned"]
  /\ outcome' = [outcome EXCEPT ![c] = r]
  /\ returned' = returned \cup {[key         |-> request[c].key,
                                 fingerprint |-> request[c].fingerprint,
                                 result      |-> r]}
  /\ UNCHANGED <<records, now, request, answer>>

OperationRaises(c) ==
  /\ pc[c] = "operating"
  /\ pc' = [pc EXCEPT ![c] = "raised"]
  /\ UNCHANGED <<records, now, request, outcome, answer, returned>>

Retain(c) ==
  LET k == request[c].key
      f == request[c].fingerprint
  IN  /\ pc[c] = "returned"
      /\ records' = [records EXCEPT ![k] = Completion(f, outcome[c])]
      /\ pc' = [pc EXCEPT ![c] = "idle"]
      /\ outcome' = [outcome EXCEPT ![c] = None]
      /\ request' = [request EXCEPT ![c] = None]
      /\ Answer(c, "executed", outcome[c])
      /\ UNCHANGED <<now, returned>>

ReleasedFault(c) == records

\* The exception handler deletes the record if it still carries the fingerprint.
Released(c) ==
  LET k == request[c].key
  IN  IF records[k].state # "absent" /\ SameRequest(records[k], request[c].fingerprint)
      THEN [records EXCEPT ![k] = Absent]
      ELSE records

Release(c) ==
  /\ pc[c] = "raised"
  /\ records' = Released(c)
  /\ pc' = [pc EXCEPT ![c] = "idle"]
  /\ Nothing(c)
  /\ UNCHANGED <<now, outcome, returned>>

Tick ==
  /\ now < MaxTime
  /\ now' = now + 1
  /\ UNCHANGED <<records, pc, request, outcome, answer, returned>>

Execute(c, k, f) ==
  \/ Conflict(c, k, f)
  \/ InProgress(c, k, f)
  \/ Replay(c, k, f)
  \/ Full(c, k)
  \/ Reserve(c, k, f)

Finish(c) ==
  \/ \E r \in Results : OperationReturns(c, r)
  \/ OperationRaises(c)
  \/ Retain(c)
  \/ Release(c)

StoreNext ==
  \/ \E c \in Callers, k \in Keys, f \in Fingerprints : Execute(c, k, f)
  \/ \E c \in Callers : Finish(c)
  \/ Tick

StoreSpec == StoreInit /\ [][StoreNext]_storeVars

-------------------------------------------------------------------------------
StoreTypeOK ==
  /\ records  \in [Keys -> Record]
  /\ now      \in Nat
  /\ pc       \in [Callers -> {"idle", "operating", "returned", "raised"}]
  /\ request  \in [Callers -> Request \cup {None}]
  /\ outcome  \in [Callers -> Results \cup {None}]
  /\ answer   \in [Callers -> [kind : Kinds, result : Results \cup {None}]]
  /\ returned \in SUBSET Return

\* The capacity of the store is never exceeded, although the second locked block
\* writes its record without looking at the capacity again.
StoreBounded == Cardinality(Held(records)) <= MaxRecords

\* While a caller is between its two locked blocks, the key it reserved still holds
\* its own reservation: no purge, eviction or other caller's handler took it away.
ReservationKept ==
  \A c \in Callers :
    pc[c] # "idle" =>
      /\ records[request[c].key].state = "inProgress"
      /\ records[request[c].key].fingerprint = request[c].fingerprint

\* No two callers execute under one key at the same time.
OneExecutionPerKey ==
  \A c, d \in Callers :
    pc[c] # "idle" /\ pc[d] # "idle" /\ request[c].key = request[d].key => c = d

\* A replay hands out a result that an operation returned for this very key and
\* this very fingerprint, whatever was evicted, expired or reserved again since.
ReplayFaithful ==
  \A c \in Callers :
    answer[c].kind = "replayed" =>
      [key         |-> request[c].key,
       fingerprint |-> request[c].fingerprint,
       result      |-> answer[c].result] \in returned

\* A completed result is never replaced by another one: it stays as it is until it
\* has expired, or until the store is full and no completed record is older.
ForgetsOnlyWhenAllowed ==
  [][\A k \in Keys :
       records[k].state = "completed" /\ records'[k] # records[k] =>
         \/ Expired(records[k])
         \/ /\ Cardinality(Held(Purged)) >= MaxRecords
            /\ \A j \in Keys : records[j].state = "completed" /\ ~Expired(records[j])
                 => records[k].expiresAt <= records[j].expiresAt]_storeVars

\* A key in progress is on its way to completed or free: some caller has still to pass
\* its second locked block for it.  Nobody else would ever take the reservation away.
NoKeyStuck ==
  \A k \in Keys :
    records[k].state = "inProgress" =>
      \E c \in Callers : pc[c] # "idle" /\ request[c].key = k

-------------------------------------------------------------------------------
(* The inductive invariant: what the second locked block and the replay    *)
(* rely on, and why they may.                                              *)

\* A caller past its reservation knows its request, and its result if it has one.
CallersTyped ==
  \A c \in Callers :
    /\ pc[c] # "idle" => request[c] \in Request
    /\ pc[c] = "returned" => outcome[c] \in Results

\* Every result the store or a caller holds was returned for the request it is under.
ResultsFaithful ==
  /\ \A k \in Keys :
       records[k].state = "completed" =>
         [key         |-> k,
          fingerprint |-> records[k].fingerprint,
          result      |-> records[k].result] \in returned
  /\ \A c \in Callers :
       pc[c] = "returned" =>
         [key         |-> request[c].key,
          fingerprint |-> request[c].fingerprint,
          result      |-> outcome[c]] \in returned

StoreInv ==
  /\ StoreTypeOK
  /\ CallersTyped
  /\ ReservationKept
  /\ OneExecutionPerKey
  /\ ResultsFaithful
  /\ ReplayFaithful
  /\ StoreBounded

-------------------------------------------------------------------------------
\* The store as KeyedOnce sees it: without clock, capacity and callers.
Promise == INSTANCE KeyedOnce
  WITH entry <- [k \in Keys |-> [state       |-> records[k].state,
                                 fingerprint |-> records[k].fingerprint,
                                 result      |-> records[k].result]]

\* The store implements KeyedOnce: a key is taken by one request at a time, is completed
\* or given back by that request, and keeps its result until it is forgotten.
KeepsPromise == Promise!Spec
===============================================================================
