--------------------------- MODULE RestMutationsMC ----------------------------
(* Small instances of RestMutations for TLC. *)
EXTENDS RestMutations, TLC

\* Keys, callers and plan ids are interchangeable.
RestSymmetry == Permutations(Keys) \cup Permutations(Callers) \cup Permutations(PlanIds)
===============================================================================
