\* Two values and no plans: what lost, late and misapplied writes leave behind.
CONSTANTS
  Threads = {t1, t2}
  PlanIds = {}
  Controllers = {c1, c2}
  ExactP9 = {c1, c2}
  TmpTrusted = {c1}
  Values = {v1, v2}
  PlanTtl = 1
  MaxTime = 0
  OnlyRequestErrors = TRUE
  OwnerConcurrent = FALSE
  None = None
SPECIFICATION MutationSpec
SYMMETRY MutationSymmetry
INVARIANTS DriftIsLatched
