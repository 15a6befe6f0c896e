\* Two devices: the authorized one, and one that takes its address.
CONSTANTS
  Devices = {target, other}
  Target = target
  Pinned = {target}
  Values = {on, off}
  None = None
SPECIFICATION NoopFairSpec
INVARIANTS NoopInv WritesReachLabTarget WritesNotRepeated ResultIsTrue
PROPERTY RunEnds
