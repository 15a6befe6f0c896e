\* The catalogue of endpoints is the real one, entry for entry, and so are the opcodes the
\* source lists; of the others of the registry file there are samples, and evidence that has
\* more of them answered than the P9 does.  Two hardware addresses with two
\* spellings, three IP addresses and limits of 0 to 3 give tables that are empty, partly
\* filled, full and without a limit, and conflicts on either address.
SPECIFICATION Spec
CONSTANTS
  None = None
  Macs <- MCMacs
  Ips <- MCIps
  Values <- MCValues
  MaxTable = 3
  OtherOpcodes <- MCOther
  OtherAnswered <- MCAnswered
  m1 = m1 m2 = m2 i1 = i1 i2 = i2 i3 = i3 v1 = v1 v2 = v2
INVARIANTS
  RoutesTellTheTruth
  GatesCoverReads
  UndoReadsSame
  CandidatesCanBeUndone
  PlansAgreeWithExecutor
  PassedIsReversible
  EachOneDoor
