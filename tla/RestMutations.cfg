\* Two clients, each of which may execute either plan under either key.
CONSTANTS
  Keys = {k1, k2}
  Callers = {a1, a2}
  PlanIds = {p1, p2}
  MaxRecords = 2
  Ttl = 1
  MaxTime = 2
  None = None
SPECIFICATION RestSpec
SYMMETRY RestSymmetry
INVARIANTS RestInv AnswersOwnPlan OneKeyPerRun
