\* Four requests for two places: refusals, departures and arrivals overlap.
CONSTANTS
  Requests = {r1, r2, r3, r4}
  MaxInFlight = 2
  None = None
SPECIFICATION CapacityFairSpec
INVARIANTS CapacityInv CapacityRespected RefusedOnlyWhenFull
PROPERTY LockServed
