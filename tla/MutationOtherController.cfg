\* Two controllers that are both an exact P9.
CONSTANTS
  Threads = {t1, t2}
  PlanIds = {p1}
  Controllers = {c1, c2}
  ExactP9 = {c1, c2}
  TmpTrusted = {c1}
  Values = {v1}
  PlanTtl = 1
  MaxTime = 1
  OnlyRequestErrors = FALSE
  OwnerConcurrent = FALSE
  None = None
SPECIFICATION MutationSpec
INVARIANT PlanStaysOnController
