\* As MutationDrift, but a request may also fail with an error nobody handles.
CONSTANTS
  Threads = {t1, t2}
  PlanIds = {}
  Controllers = {c1, c2}
  ExactP9 = {c1, c2}
  TmpTrusted = {c1}
  Values = {v1, v2}
  PlanTtl = 1
  MaxTime = 0
  OnlyRequestErrors = FALSE
  OwnerConcurrent = FALSE
  None = None
SPECIFICATION MutationSpec
INVARIANT DriftIsLatched
