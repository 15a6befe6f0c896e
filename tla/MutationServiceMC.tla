-------------------------- MODULE MutationServiceMC ---------------------------
(* Small instances of MutationService for TLC. *)
EXTENDS MutationService, TLC

\* Threads and plan ids are interchangeable; controllers are told apart by their profile.
MutationSymmetry == Permutations(Threads) \cup Permutations(PlanIds) \cup Permutations(Values)
===============================================================================
