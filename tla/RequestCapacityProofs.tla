------------------------- MODULE RequestCapacityProofs -------------------------
(***************************************************************************)
(* The capacity is respected for any number of requests and any limit.     *)
(* The counter alone does not show it: CapacityInv ties it to the set of   *)
(* requests inside, and a refusal to the lock that keeps it true.          *)
(***************************************************************************)
EXTENDS RequestCapacity, FiniteSetTheorems, TLAPS

USE DEF Locks, Places, Move

\* No more requests are inside than there are requests.
LEMMA InsideFinite == IsFiniteSet(Inside) /\ Cardinality(Inside) \in Nat
<1>1. Inside \in SUBSET Requests
  BY DEF Inside
<1> QED BY <1>1, CapacityAssumption, FS_Subset, FS_CardinalityType

\* Nobody is inside at first.
LEMMA CapacityInitial == CapacityInit => CapacityInv
<1> SUFFICES ASSUME CapacityInit PROVE CapacityInv
  OBVIOUS
<1>1. Inside = {}
  BY DEF CapacityInit, Inside
<1>2. CountsInside
  BY <1>1, FS_EmptySet DEF CapacityInit, CountsInside
<1>3. CapacityTypeOK /\ active <= MaxInFlight
  BY CapacityAssumption DEF CapacityInit, CapacityTypeOK
<1>4. LockOrderly
  BY DEF CapacityInit, LockOrderly, Waits, Queued
<1> QED BY <1>2, <1>3, <1>4 DEF CapacityInv, CapacityInit

\* Only an admission and a departure change who is inside.
LEMMA InsideAfter ==
  ASSUME CapacityTypeOK, NEW r \in Requests
  PROVE  /\ Admit(r) => Inside' = Inside \cup {r} /\ r \notin Inside
         /\ Leave(r) => Inside' = Inside \ {r} /\ r \in Inside
         /\ Arrive(r) \/ Refuse(r) \/ Refused(r) \/ Finish(r) => Inside' = Inside
BY DEF CapacityTypeOK, Inside, Admit, Leave, Arrive, Refuse, Refused, Finish

\* Every step of a task keeps the types.
LEMMA TypesKept ==
  ASSUME CapacityInv, NEW r \in Requests, Arrive(r) \/ TaskStep(r)
  PROVE  CapacityTypeOK'
<1> USE CapacityAssumption DEF CapacityInv, CapacityTypeOK
<1>1. CASE Arrive(r)
  BY <1>1 DEF Arrive, Waiting
<1>2. CASE Admit(r)
  BY <1>2 DEF Admit
<1>3. CASE Refuse(r)
  BY <1>3 DEF Refuse
<1>4. CASE Refused(r)
  BY <1>4 DEF Refused
<1>5. CASE Finish(r)
  BY <1>5 DEF Finish, Waiting
<1>6. CASE Leave(r)
  <2>1. r \in Inside
    BY <1>6, InsideAfter
  <2>2. Inside # {}
    BY <2>1
  <2>3. active # 0
    BY <2>2, InsideFinite, FS_EmptySet DEF CountsInside
  <2> QED BY <1>6, <2>3 DEF Leave, Left
<1> QED BY <1>1, <1>2, <1>3, <1>4, <1>5, <1>6 DEF TaskStep, LockStep

\* The counter follows the set of requests inside.
LEMMA CountKept ==
  ASSUME CapacityInv, NEW r \in Requests, Arrive(r) \/ TaskStep(r)
  PROVE  CountsInside' /\ active' <= MaxInFlight
<1> USE CapacityAssumption, InsideFinite DEF CapacityInv, CapacityTypeOK, CountsInside
<1>1. CASE Admit(r)
  <2>1. Cardinality(Inside') = Cardinality(Inside) + 1
    BY <1>1, InsideAfter, FS_AddElement
  <2> QED BY <1>1, <2>1 DEF Admit, HasRoom
<1>2. CASE Leave(r)
  <2>1. Cardinality(Inside') = Cardinality(Inside) - 1
    BY <1>2, InsideAfter, FS_RemoveElement
  <2> QED BY <1>2, <2>1 DEF Leave, Left
<1>3. CASE Arrive(r) \/ Refuse(r) \/ Refused(r) \/ Finish(r)
  <2>1. Inside' = Inside
    BY <1>3, InsideAfter
  <2>2. active' = active
    BY <1>3 DEF Arrive, Refuse, Refused, Finish
  <2> QED BY <2>1, <2>2
<1> QED BY <1>1, <1>2, <1>3 DEF TaskStep, LockStep

\* The lock is held while a refusal is sent, so nobody leaves meanwhile.
LEMMA RefusalKept ==
  ASSUME CapacityInv, NEW r \in Requests, Arrive(r) \/ TaskStep(r), NEW s \in Requests,
         at'[s] = "refusing"
  PROVE  holder' = s /\ active' = MaxInFlight
<1> USE CapacityAssumption DEF CapacityInv, CapacityTypeOK
<1>1. CASE Refuse(r)
  BY <1>1 DEF Refuse, HasRoom
<1>2. CASE Admit(r) \/ Leave(r)
  BY <1>2 DEF Admit, Leave
<1>3. CASE Refused(r)
  BY <1>3 DEF Refused
<1>4. CASE Arrive(r) \/ Finish(r)
  BY <1>4 DEF Arrive, Finish
<1> QED BY <1>1, <1>2, <1>3, <1>4 DEF TaskStep, LockStep

\* A task that comes to the end of the queue is in it, and nobody else's place changes.
LEMMA QueueGrows ==
  ASSUME CapacityTypeOK, LockOrderly, NEW r \in Requests, ~Queued(r), queue' = Append(queue, r)
  PROVE  /\ \A s \in Requests : Queued(s)' <=> Queued(s) \/ s = r
         /\ \A i, j \in 1..Len(queue') : queue'[i] = queue'[j] => i = j
<1>1. queue \in Seq(Requests)
  BY DEF CapacityTypeOK
<1>2. /\ Len(queue') = Len(queue) + 1 /\ Len(queue) \in Nat
      /\ \A i \in 1..Len(queue) : queue'[i] = queue[i]
      /\ queue'[Len(queue) + 1] = r
  BY <1>1
<1>3. \A i \in 1..Len(queue') : i \in 1..Len(queue) \/ i = Len(queue) + 1
  BY <1>2
<1>4. \A i \in 1..Len(queue) : i \in 1..Len(queue')
  BY <1>2
<1>5. Len(queue) + 1 \in 1..Len(queue')
  BY <1>2
<1> QED BY <1>2, <1>3, <1>4, <1>5 DEF Queued, LockOrderly, Waits

\* The task that gets the lock leaves the queue, and nobody else does.
LEMMA QueueShrinks ==
  ASSUME CapacityTypeOK, LockOrderly, NEW r \in Requests, Locks(r)
  PROVE  /\ \A s \in Requests : Queued(s)' <=> Queued(s) /\ s # r
         /\ \A i, j \in 1..Len(queue') : queue'[i] = queue'[j] => i = j
<1>1. queue \in Seq(Requests) /\ queue # <<>> /\ queue' = Tail(queue)
  BY DEF CapacityTypeOK
<1>2. /\ Len(queue) \in Nat \ {0} /\ Len(queue') = Len(queue) - 1
      /\ \A i \in 1..Len(queue') : queue'[i] = queue[i + 1]
      /\ r = queue[1]
  BY <1>1
<1>3. \A i \in 1..Len(queue') : i + 1 \in 1..Len(queue) /\ i + 1 # 1
  BY <1>2
<1>4. \A i \in 1..Len(queue) : i = 1 \/ (i - 1 \in 1..Len(queue') /\ (i - 1) + 1 = i)
  BY <1>2
<1>5. \A i, j \in 1..Len(queue) : queue[i] = queue[j] => i = j
  BY DEF LockOrderly, Waits
<1>6. 1 \in 1..Len(queue)
  BY <1>2
<1>7. ASSUME NEW s \in Requests, Queued(s)' PROVE Queued(s) /\ s # r
  <2>1. PICK i \in 1..Len(queue') : queue'[i] = s
    BY <1>7 DEF Queued
  <2>2. queue[i + 1] = s /\ i + 1 \in 1..Len(queue) /\ i + 1 # 1
    BY <1>2, <1>3, <2>1
  <2> QED BY <1>2, <1>5, <1>6, <2>2 DEF Queued
<1>8. ASSUME NEW s \in Requests, Queued(s), s # r PROVE Queued(s)'
  <2>1. PICK i \in 1..Len(queue) : queue[i] = s
    BY <1>8 DEF Queued
  <2>2. i - 1 \in 1..Len(queue') /\ queue'[i - 1] = s
    BY <1>2, <1>4, <1>8, <2>1
  <2> QED BY <2>2 DEF Queued
<1>9. \A i, j \in 1..Len(queue') : queue'[i] = queue'[j] => i = j
  BY <1>2, <1>3, <1>5
<1> QED BY <1>7, <1>8, <1>9

\* Every step keeps the queue and the lock in order.
LEMMA OrderKept ==
  ASSUME CapacityInv, NEW r \in Requests, Arrive(r) \/ TaskStep(r)
  PROVE  LockOrderly'
<1> USE CapacityAssumption DEF CapacityInv, CapacityTypeOK
<1>1. CASE Arrive(r) \/ Finish(r)
  <2>1. ~Queued(r) /\ queue' = Append(queue, r)
    BY <1>1 DEF Arrive, Finish, Waiting, LockOrderly, Waits
  <2>2. holder' = holder /\ (holder # None => at[holder] = "refusing")
        /\ at[r] # "refusing"
    BY <1>1 DEF Arrive, Finish, LockOrderly, Waits
  <2>3. \A s \in Requests : at'[s] \in {"arriving", "leaving"}
                              <=> at[s] \in {"arriving", "leaving"} \/ s = r
    BY <1>1 DEF Arrive, Finish
  <2>4. holder' # None => at'[holder'] = "refusing"
    BY <1>1, <2>2 DEF Arrive, Finish
  <2> QED BY <2>1, <2>3, <2>4, QueueGrows DEF LockOrderly, Waits
<1>2. CASE Admit(r) \/ Refuse(r) \/ Leave(r)
  <2>1. Locks(r) /\ holder = None
    BY <1>2 DEF Admit, Refuse, Leave
  <2>2. \A s \in Requests : at'[s] \in {"arriving", "leaving"}
                              <=> at[s] \in {"arriving", "leaving"} /\ s # r
    BY <1>2 DEF Admit, Refuse, Leave
  <2>3. holder' # None => at'[holder'] = "refusing"
    BY <1>2, <2>1 DEF Admit, Refuse, Leave
  <2> HIDE DEF Locks
  <2> QED BY <2>1, <2>2, <2>3, QueueShrinks DEF LockOrderly, Waits
<1>3. CASE Refused(r)
  <2>1. queue' = queue /\ holder' = None
        /\ \A s \in Requests : at'[s] \in {"arriving", "leaving"} <=> at[s] \in {"arriving", "leaving"}
    BY <1>3 DEF Refused
  <2> QED BY <2>1 DEF LockOrderly, Waits, Queued
<1> QED BY <1>1, <1>2, <1>3 DEF TaskStep, LockStep

\* CapacityInv is inductive, so it holds in every reachable state.
THEOREM CapacityInvariance == CapacitySpec => []CapacityInv
<1>1. CapacityInit => CapacityInv
  BY CapacityInitial
<1>2. CapacityInv /\ [CapacityNext]_capacityVars => CapacityInv'
  <2> SUFFICES ASSUME CapacityInv, [CapacityNext]_capacityVars PROVE CapacityInv'
    OBVIOUS
  <2>1. CASE CapacityNext
    <3> PICK r \in Requests : Arrive(r) \/ TaskStep(r)
      BY <2>1 DEF CapacityNext
    <3> QED BY TypesKept, CountKept, RefusalKept, OrderKept DEF CapacityInv
  <2>2. CASE UNCHANGED capacityVars
    BY <2>2 DEF capacityVars, CapacityInv, CapacityTypeOK, CountsInside, Inside,
                LockOrderly, Waits, Queued
  <2> QED BY <2>1, <2>2
<1> QED BY <1>1, <1>2, PTL DEF CapacitySpec

\* No more than MaxInFlight requests run at a time (lines 39-63 of the middleware).
THEOREM CapacityIsRespected == CapacitySpec => []CapacityRespected
<1>1. CapacityInv => CapacityRespected
  BY DEF CapacityInv, CountsInside, CapacityRespected
<1> QED BY <1>1, CapacityInvariance, PTL

\* A 429 answer is sent only while every place is taken.
THEOREM RefusalsAreTrue == CapacitySpec => []RefusedOnlyWhenFull
<1>1. CapacityInv => RefusedOnlyWhenFull
  BY DEF CapacityInv, CountsInside, RefusedOnlyWhenFull
<1> QED BY <1>1, CapacityInvariance, PTL

\* The task whose turn it is can take the lock at once.
Served(r) == holder = None /\ queue # <<>> /\ r = Head(queue) /\ Waits(r)

\* The tasks never wait for each other: while somebody waits for the lock, the first in
\* line can take it, unless the lock is kept by a refusal that its client has not taken
\* yet.  No request that runs is in the way (the safety behind LockServed).
OnlyRefusalsBlock ==
  (\E r \in Requests : Waits(r)) =>
    (\E r \in Requests : Served(r)) \/ (holder \in Requests /\ at[holder] = "refusing")

THEOREM NoDeadlock == CapacitySpec => []OnlyRefusalsBlock
<1>1. CapacityInv => OnlyRefusalsBlock
  <2> SUFFICES ASSUME CapacityInv, NEW r \in Requests, Waits(r), holder = None
               PROVE  \E s \in Requests : Served(s)
    BY DEF OnlyRefusalsBlock, CapacityInv, CapacityTypeOK, LockOrderly
  <2> USE DEF CapacityInv, CapacityTypeOK
  <2>1. Queued(r)
    BY DEF LockOrderly
  <2>2. queue # <<>> /\ queue \in Seq(Requests)
    BY <2>1 DEF Queued
  <2>3. Head(queue) \in Requests /\ 1 \in 1..Len(queue) /\ queue[1] = Head(queue)
    BY <2>2
  <2>4. Queued(Head(queue))
    BY <2>3 DEF Queued
  <2>5. Waits(Head(queue))
    BY <2>3, <2>4 DEF LockOrderly
  <2> QED BY <2>2, <2>3, <2>5 DEF Served
<1> QED BY <1>1, CapacityInvariance, PTL

\* Nobody overtakes: with every step a task keeps its place in the line, moves one place
\* up, or was the first and no longer waits (asyncio.Lock, lines 39 and 62).
InOrder ==
  \A i \in 1..Len(queue) :
    \/ i \in 1..Len(queue') /\ queue'[i] = queue[i]
    \/ i - 1 \in 1..Len(queue') /\ queue'[i - 1] = queue[i]
    \/ i = 1 /\ at'[queue[1]] \notin {"arriving", "leaving"}

THEOREM NobodyOvertakes == CapacitySpec => [][InOrder]_capacityVars
<1>1. CapacityInv /\ [CapacityNext]_capacityVars => [InOrder]_capacityVars
  <2> SUFFICES ASSUME CapacityInv, NEW r \in Requests, Arrive(r) \/ TaskStep(r),
                      NEW i \in 1..Len(queue)
               PROVE  \/ i \in 1..Len(queue') /\ queue'[i] = queue[i]
                      \/ i - 1 \in 1..Len(queue') /\ queue'[i - 1] = queue[i]
                      \/ i = 1 /\ at'[queue[1]] \notin {"arriving", "leaving"}
    BY DEF CapacityNext, InOrder
  <2>0. queue \in Seq(Requests) /\ at \in [Requests -> Places]
    BY DEF CapacityInv, CapacityTypeOK
  <2>1. CASE Arrive(r) \/ Finish(r)
    <3>1. queue' = Append(queue, r)
      BY <2>1 DEF Arrive, Finish, Waiting
    <3> QED BY <2>0, <3>1
  <2>2. CASE LockStep(r)
    <3>1. queue # <<>> /\ queue' = Tail(queue) /\ r = Head(queue)
      BY <2>2 DEF LockStep, Admit, Refuse, Leave, Locks
    <3>2. Len(queue') = Len(queue) - 1 /\ \A j \in 1..Len(queue') : queue'[j] = queue[j + 1]
      BY <2>0, <3>1
    <3>3. CASE i = 1
      <4>1. queue[1] = r /\ r \in Requests
        BY <2>0, <3>1
      <4>2. at'[r] \in {"running", "refusing", "outside"}
        BY <2>0, <2>2 DEF LockStep, Admit, Refuse, Leave, Move
      <4> QED BY <3>3, <4>1, <4>2
    <3>4. CASE i # 1
      <4>1. i - 1 \in 1..Len(queue') /\ (i - 1) + 1 = i
        BY <2>0, <3>2, <3>4
      <4> QED BY <3>2, <4>1
    <3> QED BY <3>3, <3>4
  <2>3. CASE Refused(r)
    BY <2>0, <2>3 DEF Refused
  <2> QED BY <2>1, <2>2, <2>3 DEF TaskStep
<1> QED BY <1>1, CapacityInvariance, PTL DEF CapacitySpec
===============================================================================
