\* Capacity 2 for 3 keys and 3 callers: eviction, and a store full of reservations, happen.
CONSTANTS
  Keys = {k1, k2, k3}
  Fingerprints = {f1, f2}
  Results = {r1}
  Callers = {c1, c2, c3}
  MaxRecords = 2
  Ttl = 2
  MaxTime = 3
  None = None
SPECIFICATION StoreSpec
SYMMETRY StoreSymmetry
INVARIANTS StoreInv StoreBounded ReplayFaithful NoKeyStuck
PROPERTIES ForgetsOnlyWhenAllowed KeepsPromise
