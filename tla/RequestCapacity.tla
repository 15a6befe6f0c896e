--------------------------- MODULE RequestCapacity ----------------------------
(***************************************************************************)
(* RequestCapacityMiddleware: a counter of the router-facing requests in   *)
(* flight, behind an asyncio lock that is also held while a refusal is     *)
(* sent.  The tasks run on one event loop: what is between two awaits is   *)
(* one step.  Requests to other paths pass by and are not modelled, nor is *)
(* the cancellation of a task, which happens only when the process ends.   *)
(***************************************************************************)
EXTENDS Naturals, FiniteSets, Sequences

CONSTANTS
  Requests,      \* requests under the protected prefixes
  MaxInFlight,   \* max_in_flight
  None

ASSUME CapacityAssumption ==
  /\ IsFiniteSet(Requests)
  /\ MaxInFlight \in Nat \ {0}
  /\ None \notin Requests

VARIABLES
  active,   \* _active
  holder,   \* the task that keeps _lock across an await, or None
  queue,    \* the tasks that wait for _lock, first come first served
  at        \* where the task of each request is

capacityVars == <<active, holder, queue, at>>

Places == {"outside", "arriving", "refusing", "running", "leaving"}

Inside == {r \in Requests : at[r] \in {"running", "leaving"}}

Move(r, place) == at' = [at EXCEPT ![r] = place]

-------------------------------------------------------------------------------
CapacityInit ==
  /\ active = 0
  /\ holder = None
  /\ queue  = <<>>
  /\ at     = [r \in Requests |-> "outside"]

\* ...Fault is a slip in the definition that follows it: no action uses it.

WaitingFault(r) == <<r>> \o queue

\* The lock wakes its waiters in the order in which they came.
Waiting(r) == Append(queue, r)

Arrive(r) ==
  /\ at[r] = "outside"
  /\ Move(r, "arriving")
  /\ queue' = Waiting(r)
  /\ UNCHANGED <<active, holder>>

\* The task at the head of the queue gets the lock.
Locks(r) ==
  /\ holder = None
  /\ queue # <<>>
  /\ r = Head(queue)
  /\ queue' = Tail(queue)

HasRoomFault == active <= MaxInFlight

HasRoom == active < MaxInFlight

Admit(r) ==
  /\ Locks(r)
  /\ at[r] = "arriving"
  /\ HasRoom
  /\ active' = active + 1
  /\ Move(r, "running")
  /\ UNCHANGED holder

\* The 429 answer is sent with the lock held.
Refuse(r) ==
  /\ Locks(r)
  /\ at[r] = "arriving"
  /\ ~HasRoom
  /\ holder' = r
  /\ Move(r, "refusing")
  /\ UNCHANGED active

\* Leaving the block gives the lock back.
Refused(r) ==
  /\ at[r] = "refusing"
  /\ holder' = None
  /\ Move(r, "outside")
  /\ UNCHANGED <<active, queue>>

\* The application returns or raises: the finally block waits for the lock.
Finish(r) ==
  /\ at[r] = "running"
  /\ Move(r, "leaving")
  /\ queue' = Waiting(r)
  /\ UNCHANGED <<active, holder>>

LeftFault == active

Left == active - 1

Leave(r) ==
  /\ Locks(r)
  /\ at[r] = "leaving"
  /\ active' = Left
  /\ Move(r, "outside")
  /\ UNCHANGED holder

\* What a task does when the lock is given to it: it asks nobody else.
LockStep(r) == Admit(r) \/ Refuse(r) \/ Leave(r)

TaskStep(r) == LockStep(r) \/ Refused(r) \/ Finish(r)

CapacityNext == \E r \in Requests : Arrive(r) \/ TaskStep(r)

CapacitySpec == CapacityInit /\ [][CapacityNext]_capacityVars

\* The event loop wakes the task whose turn it is.  Nothing makes the application return
\* (an MCP stream is open until its client leaves), nor the client take its refusal.
CapacityFairSpec == CapacitySpec /\ \A r \in Requests : WF_capacityVars(LockStep(r))

-------------------------------------------------------------------------------
CapacityTypeOK ==
  /\ active \in Nat
  /\ holder \in Requests \cup {None}
  /\ queue  \in Seq(Requests)
  /\ at     \in [Requests -> Places]

\* The counter is the number of requests that were admitted and have not left yet.
CountsInside == active = Cardinality(Inside)

\* No more than MaxInFlight requests run, however arrivals, failures and departures
\* interleave.
CapacityRespected == Cardinality(Inside) <= MaxInFlight

\* A refusal stays true until it is out: no place becomes free while it is sent.
RefusedOnlyWhenFull ==
  \A r \in Requests : at[r] = "refusing" => Cardinality(Inside) = MaxInFlight

Waits(r) == at[r] \in {"arriving", "leaving"}

\* While every client takes the refusals it is sent, nobody waits for the lock forever:
\* arrivals are admitted or refused and places are given back, even if requests stay in
\* the application without end.  A client that does not take its refusal stops them all.
LockServed ==
  (\A r \in Requests : []<>(at[r] # "refusing")) => \A r \in Requests : Waits(r) ~> ~Waits(r)

Queued(r) == \E i \in 1..Len(queue) : queue[i] = r

\* Whoever needs the lock waits for it in one place of the queue and nobody else does,
\* and it is kept only by a task that sends a refusal.
LockOrderly ==
  /\ \A r \in Requests : Queued(r) <=> Waits(r)
  /\ \A i, j \in 1..Len(queue) : queue[i] = queue[j] => i = j
  /\ holder # None => at[holder] = "refusing"

\* The inductive part.
CapacityInv ==
  /\ CapacityTypeOK
  /\ CountsInside
  /\ active <= MaxInFlight
  /\ \A r \in Requests : at[r] = "refusing" => holder = r /\ active = MaxInFlight
  /\ LockOrderly
===============================================================================
