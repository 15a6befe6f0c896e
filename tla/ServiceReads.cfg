SPECIFICATION Spec
CONSTANTS
  asker = asker
  other = other
  None = None
  Threads <- MCThreads
  Program <- RequestProgram
  Secret <- MCSecret
  TmpPrimary <- MCTmpPrimary
  Gates <- MCGates
  Requests <- MCRequests
INVARIANTS
  ReadsInv
  OneSource
  StatusFresh
  TmpNeedsEvidence
  RetryHeals
