-------------------------- MODULE IdempotencyStoreMC --------------------------
(* Small instances of IdempotencyStore for TLC. *)
EXTENDS IdempotencyStore, TLC

\* Callers are interchangeable, keys and fingerprints are too.
StoreSymmetry ==
  Permutations(Callers) \cup Permutations(Keys) \cup Permutations(Fingerprints)
===============================================================================
