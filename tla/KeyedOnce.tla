------------------------------- MODULE KeyedOnce -------------------------------
(***************************************************************************)
(* What the idempotency store promises, without clock, capacity or         *)
(* threads: each key goes from free to busy to done, a busy key belongs to *)
(* one request until that request finishes or aborts, a done key keeps its *)
(* result until it is forgotten, and keys do not disturb each other.       *)
(***************************************************************************)
CONSTANTS Keys, Fingerprints, Results, None

VARIABLE entry   \* [state, fingerprint, result] of each key

Free       == [state |-> "absent", fingerprint |-> None, result |-> None]
Busy(f)    == [state |-> "inProgress", fingerprint |-> f, result |-> None]
Done(f, r) == [state |-> "completed", fingerprint |-> f, result |-> r]

DoneKeys == {k \in Keys : entry[k].state = "completed"}

\* The table after the keys of K are forgotten.
Without(K) == [k \in Keys |-> IF k \in K THEN Free ELSE entry[k]]

Init == entry = [k \in Keys |-> Free]

Forget(K) == entry' = Without(K)

Begin(k, f, K) ==
  /\ Without(K)[k] = Free
  /\ entry' = [Without(K) EXCEPT ![k] = Busy(f)]

Finish(k, r) ==
  /\ entry[k].state = "inProgress"
  /\ entry' = [entry EXCEPT ![k] = Done(entry[k].fingerprint, r)]

Abort(k) ==
  /\ entry[k].state = "inProgress"
  /\ entry' = [entry EXCEPT ![k] = Free]

End(k) == Abort(k) \/ \E r \in Results : Finish(k, r)

Next ==
  \/ \E K \in SUBSET DoneKeys :
       \/ Forget(K)
       \/ \E k \in Keys, f \in Fingerprints : Begin(k, f, K)
  \/ \E k \in Keys : End(k)

Spec == Init /\ [][Next]_entry
================================================================================
