\* Two threads on one plan and two controllers, the second of which is no exact P9.
CONSTANTS
  Threads = {t1, t2}
  PlanIds = {p1}
  Controllers = {c1, c2}
  ExactP9 = {c1}
  TmpTrusted = {c1}
  Values = {v1}
  PlanTtl = 1
  MaxTime = 1
  OnlyRequestErrors = FALSE
  OwnerConcurrent = TRUE
  None = None
SPECIFICATION MutationFairSpec
INVARIANTS MutationInv AtMostTwoWrites NothingOnceLatched WritesStayOnTarget
PROPERTIES LockReleased ImplementsOneShot
