----------------------------- MODULE OneShotPlans -----------------------------
(***************************************************************************)
(* What the service promises of a semantic mutation plan, without router,  *)
(* threads or clock: an id is issued once, is then pending until it is     *)
(* dropped or claimed, is claimed at most once, and while it runs it sends *)
(* at most MaxWrites writes: the current value, and that value again to    *)
(* roll back.                                                              *)
(***************************************************************************)
EXTENDS Naturals

CONSTANTS PlanIds, MaxWrites

VARIABLES
  issued,    \* the ids that have ever been handed out
  pending,   \* those that may still be executed
  running,   \* those whose one execution is under way
  writes     \* how many writes each of them has sent

planVars == <<issued, pending, running, writes>>

Init ==
  /\ issued  = {}
  /\ pending = {}
  /\ running = {}
  /\ writes  = [p \in PlanIds |-> 0]

Issue(p) ==
  /\ p \notin issued
  /\ issued'  = issued \cup {p}
  /\ pending' = pending \cup {p}
  /\ UNCHANGED <<running, writes>>

Drop(S) ==
  /\ pending' = pending \ S
  /\ UNCHANGED <<issued, running, writes>>

Claim(p) ==
  /\ p \in pending
  /\ pending' = pending \ {p}
  /\ running' = running \cup {p}
  /\ UNCHANGED <<issued, writes>>

Write(p) ==
  /\ p \in running
  /\ writes[p] < MaxWrites
  /\ writes' = [writes EXCEPT ![p] = @ + 1]
  /\ UNCHANGED <<issued, pending, running>>

Settle(p) ==
  /\ p \in running
  /\ running' = running \ {p}
  /\ UNCHANGED <<issued, pending, writes>>

\* The process ends: nothing of it is persisted.
Crash ==
  /\ pending' = {}
  /\ running' = {}
  /\ UNCHANGED <<issued, writes>>

Next ==
  \/ \E p \in PlanIds : Issue(p) \/ Claim(p) \/ Write(p) \/ Settle(p)
  \/ \E S \in SUBSET pending : Drop(S)
  \/ Crash

Spec == Init /\ [][Next]_planVars
================================================================================
