---------------------------- MODULE TmpNoopProofs -----------------------------
(***************************************************************************)
(* The invariant of a lab run, for any devices: what follows from the      *)
(* pinned host key and the single attempt of each write.                   *)
(***************************************************************************)
EXTENDS TmpNoop, TLAPS

USE DEF Reads, Writes, Ended, Results, Goto, Connected

\* No run has begun: nothing is sent and every setting is as its owner left it.
LEMMA NoopInitial == NoopInit => NoopInv
<1> SUFFICES ASSUME NoopInit PROVE NoopInv
  OBVIOUS
<1>1. NoopTypeOK
  BY DEF NoopInit, NoopTypeOK
<1>2. ValueKept
  BY DEF NoopInit, ValueKept
<1>3. StepsCounted /\ ResultIsTrue
  BY NoopAssumption DEF NoopInit, StepsCounted, ResultIsTrue
<1> QED BY <1>1, <1>2, <1>3 DEF NoopInv

\* Every tunnel that opens leads to the authorized device.
LEMMA OpensToTarget == ASSUME OpenSucceeds PROVE conn' = Target
  BY NoopAssumption DEF OpenSucceeds, HostKeyMatches

\* The steps of the client keep the invariant: they send nothing.
LEMMA ClientKeeps ==
  ASSUME NoopInv, Open \/ NotConnected \/ ReadRejected \/ ConnectionFails \/ Reopen
  PROVE  NoopInv'
<1> USE DEF NoopInv, NoopTypeOK, ValueKept, StepsCounted, ResultIsTrue, ReadReturns,
            environment, client
<1>1. CASE Open
  <2>1. CASE OpenSucceeds
    BY <1>1, <2>1, OpensToTarget, NoopAssumption DEF Open, OpenFails
  <2>2. CASE OpenFails
    BY <1>1, <2>2, NoopAssumption DEF Open, OpenFails
  <2> QED BY <1>1, <2>1, <2>2 DEF Open
<1>2. CASE NotConnected
  BY <1>2, NoopAssumption DEF NotConnected
<1>3. CASE ReadRejected
  BY <1>3, NoopAssumption DEF ReadRejected, ReadRaises
<1>4. CASE ConnectionFails
  BY <1>4, NoopAssumption DEF ConnectionFails, ReadRaises, LastAttempt
<1>5. CASE Reopen
  <2>1. CASE OpenSucceeds /\ attempt' = "second" /\ UNCHANGED <<pc, status>>
    BY <1>5, <2>1, OpensToTarget, NoopAssumption DEF Reopen
  <2>2. CASE OpenFails /\ ReadRaises
    BY <1>5, <2>2, NoopAssumption DEF Reopen, OpenFails, ReadRaises
  <2> QED BY <1>5, <2>1, <2>2 DEF Reopen
<1> QED BY <1>1, <1>2, <1>3, <1>4, <1>5

\* A write goes to the authorized device only, and whatever it leaves behind is the
\* value that was read there.
LEMMA WriteKeeps == ASSUME NoopInv, Write PROVE NoopInv'
<1> USE DEF NoopInv, NoopTypeOK, ValueKept, StepsCounted, ResultIsTrue, client
<1>1. conn = Target /\ before = baseline[Target] /\ pc \in Writes /\ status = None
  BY NoopAssumption DEF Write
<1>2. sent' = sent + 1 /\ sent' \in {1, 2} /\ status' = None /\ before' = before
      /\ baseline' = baseline /\ conn' = conn
  BY <1>1 DEF Write
<1>3. Sent
  BY DEF Write
<1>6. accepted' \in BOOLEAN
  <2>1. accepted \in BOOLEAN
    OBVIOUS
  <2>2. accepted' \in BOOLEAN \/ accepted' = accepted
    BY <1>3 DEF Sent
  <2> QED
    BY <2>1, <2>2
<1>7. late' \subseteq {baseline[Target]} /\ late' \subseteq Values
  <2>1. late' = late \/ late' = late \cup {before}
    BY <1>3 DEF Sent
  <2>2. before = baseline[Target] /\ baseline[Target] \in Values
    BY <1>1, NoopAssumption
  <2>3. late \subseteq {baseline[Target]}
    OBVIOUS
  <2> HIDE DEF NoopInv, NoopTypeOK, ValueKept, StepsCounted, ResultIsTrue, client
  <2> QED
    BY <2>1, <2>2, <2>3
<1>4. /\ setting' \in [Devices -> Values]
      /\ \A d \in Devices \ {Target} : setting'[d] = baseline[d]
  <2>1. setting' = setting \/ \E v \in Values : setting' = [setting EXCEPT ![Target] = v]
    BY <1>1, <1>3 DEF Sent
  <2>2. setting \in [Devices -> Values] /\ \A d \in Devices \ {Target} : setting[d] = baseline[d]
    OBVIOUS
  <2> HIDE DEF NoopInv, NoopTypeOK, ValueKept, StepsCounted, ResultIsTrue, client
  <2> QED
    BY <2>1, <2>2
<1>5. \/ pc = "write" /\ pc' = "verify" /\ sent' = 1
      \/ pc = "rollback" /\ pc' = "rollbackVerify" /\ sent' = 2
  BY <1>1 DEF Write, AfterWrite
<1> QED BY <1>1, <1>2, <1>6, <1>7, <1>4, <1>5, NoopAssumption DEF Write

\* Answered reads: identity, current value, and the two comparisons.
LEMMA VerificationKeeps ==
  ASSUME NoopInv, VerifyTarget \/ Preflight \/ Verify \/ RollbackVerify
  PROVE  NoopInv'
<1> USE DEF NoopInv, NoopTypeOK, ValueKept, StepsCounted, ResultIsTrue, AnswersRead,
            ReadReturns, environment
<1>1. CASE VerifyTarget
  BY <1>1, NoopAssumption DEF VerifyTarget
<1>2. CASE Preflight
  BY <1>2, NoopAssumption DEF Preflight
<1>3. CASE Verify
  BY <1>3, NoopAssumption DEF Verify, Unchanged
<1>4. CASE RollbackVerify
  BY <1>4, NoopAssumption DEF RollbackVerify, Unchanged
<1> QED BY <1>1, <1>2, <1>3, <1>4

\* The tunnel, the address and a late write cannot disturb it.
LEMMA EnvironmentKeeps == ASSUME NoopInv, Drop \/ Swap \/ LateApply PROVE NoopInv'
<1> USE DEF NoopInv, NoopTypeOK, ValueKept, StepsCounted, ResultIsTrue, run, client,
            environment
<1>1. CASE Drop
  BY <1>1, NoopAssumption DEF Drop
<1>2. CASE Swap
  BY <1>2, NoopAssumption DEF Swap
<1>3. CASE LateApply
  BY <1>3, NoopAssumption DEF LateApply
<1> QED BY <1>1, <1>2, <1>3

\* The invariant holds throughout every run of the harness.
THEOREM NoopInvariance == NoopSpec => []NoopInv
<1>1. NoopInv /\ [NoopNext]_noopVars => NoopInv'
  <2> SUFFICES ASSUME NoopInv, [NoopNext]_noopVars PROVE NoopInv'
    OBVIOUS
  <2>1. CASE Open \/ NotConnected \/ ReadRejected \/ ConnectionFails \/ Reopen
    BY <2>1, ClientKeeps
  <2>2. CASE Write
    BY <2>2, WriteKeeps
  <2>3. CASE VerifyTarget \/ Preflight \/ Verify \/ RollbackVerify
    BY <2>3, VerificationKeeps
  <2>4. CASE Drop \/ Swap \/ LateApply
    BY <2>4, EnvironmentKeeps
  <2>5. CASE UNCHANGED noopVars
    BY <2>5 DEF noopVars, client, run, environment, NoopInv, NoopTypeOK, ValueKept,
                StepsCounted, ResultIsTrue
  <2> QED BY <2>1, <2>2, <2>3, <2>4, <2>5 DEF NoopNext, Step
<1> QED BY <1>1, NoopInitial, PTL DEF NoopSpec

\* Every write goes to the authorized device, whoever answers at its address.
THEOREM LabTargetOnly == NoopSpec => []WritesReachLabTarget
<1>1. NoopInv => WritesReachLabTarget
  BY DEF NoopInv, StepsCounted, WritesReachLabTarget
<1> QED BY <1>1, NoopInvariance, PTL

\* A result other than "rollback unconfirmed" is true of the device.
THEOREM TrueResults == NoopSpec => []ResultIsTrue
<1>1. NoopInv => ResultIsTrue
  BY DEF NoopInv
<1> QED BY <1>1, NoopInvariance, PTL

\* At most two writes are sent, the second only to roll back.
THEOREM NoRepeatedWrite == NoopSpec => []WritesNotRepeated
<1>1. NoopInv => WritesNotRepeated
  BY DEF NoopInv, NoopTypeOK, StepsCounted, WritesNotRepeated
<1> QED BY <1>1, NoopInvariance, PTL

\* The steps a run has still to take, at most: three for a read, one for each of the
\* others, counted as three.
StepsLeft ==
  LET rank == [start |-> 7, target |-> 6, preflight |-> 5, write |-> 4, verify |-> 3,
               rollback |-> 2, rollbackVerify |-> 1, done |-> 0, raised |-> 0]
      tried == [first |-> 0, reopen |-> 1, second |-> 2]
  IN  3 * rank[pc] - tried[attempt]

\* No step of the harness is taken for nothing, and its surroundings give it no new
\* ones to take.
RunShortens ==
  /\ StepsLeft \in Nat /\ StepsLeft <= 21
  /\ StepsLeft' <= StepsLeft
  /\ Step => StepsLeft' < StepsLeft

LEMMA StepsLeftNatural == NoopInv => StepsLeft \in Nat /\ StepsLeft <= 21
<1> SUFFICES ASSUME NoopTypeOK, StepsCounted PROVE StepsLeft \in Nat /\ StepsLeft <= 21
  BY DEF NoopInv
<1>1. CASE attempt = "first"
  BY <1>1 DEF StepsLeft, NoopTypeOK
<1>2. CASE attempt # "first"
  BY <1>2 DEF StepsLeft, NoopTypeOK, StepsCounted
<1> QED BY <1>1, <1>2

LEMMA StepShortens == ASSUME NoopInv, Step PROVE StepsLeft' < StepsLeft
<1> USE DEF StepsLeft, NoopInv, NoopTypeOK, StepsCounted, ReadReturns, client
<1>1. CASE Open
  BY <1>1 DEF Open
<1>2. CASE NotConnected
  BY <1>2 DEF NotConnected
<1>3. CASE ReadRejected
  BY <1>3 DEF ReadRejected, ReadRaises
<1>4. CASE ConnectionFails
  BY <1>4 DEF ConnectionFails, ReadRaises, LastAttempt
<1>5. CASE Reopen
  BY <1>5 DEF Reopen, ReadRaises
<1>6. CASE VerifyTarget \/ Preflight \/ Verify \/ RollbackVerify
  BY <1>6 DEF VerifyTarget, Preflight, Verify, RollbackVerify, AnswersRead
<1>7. CASE Write
  BY <1>7 DEF Write, AfterWrite
<1> QED BY <1>1, <1>2, <1>3, <1>4, <1>5, <1>6, <1>7 DEF Step

\* A run takes at most 21 steps, however often the tunnel breaks and whatever answers
\* at the address: every step of the client or the verification brings it nearer to its
\* end, and no step of its surroundings takes it further away (the measure behind
\* RunEnds).
THEOREM RunsAreShort == NoopSpec => [][RunShortens]_noopVars
<1>1. NoopInv /\ [NoopNext]_noopVars => [RunShortens]_noopVars
  <2> SUFFICES ASSUME NoopInv, NoopNext PROVE RunShortens
    OBVIOUS
  <2>1. StepsLeft \in Nat /\ StepsLeft <= 21
    BY StepsLeftNatural
  <2>2. CASE Step
    <3>1. StepsLeft' < StepsLeft
      BY <2>2, StepShortens
    <3>2. StepsLeft' <= StepsLeft
      <4>1. NoopInv'
        <5>1. CASE Open \/ NotConnected \/ ReadRejected \/ ConnectionFails \/ Reopen
          BY <5>1, ClientKeeps
        <5>2. CASE Write
          BY <5>2, WriteKeeps
        <5>3. CASE VerifyTarget \/ Preflight \/ Verify \/ RollbackVerify
          BY <5>3, VerificationKeeps
        <5> QED BY <2>2, <5>1, <5>2, <5>3 DEF Step
      <4>2. (StepsLeft \in Nat /\ StepsLeft <= 21)'
        BY <4>1, StepsLeftNatural, PTL
      <4> QED BY <2>1, <3>1, <4>2
    <3> QED BY <2>1, <3>1, <3>2 DEF RunShortens
  <2>3. CASE Drop \/ Swap \/ LateApply
    <3>1. UNCHANGED <<pc, attempt>>
      BY <2>3 DEF Drop, Swap, LateApply, client, run
    <3>2. StepsLeft' = StepsLeft
      BY <3>1 DEF StepsLeft
    <3>3. ~Step
      <4>1. ASSUME Step PROVE FALSE
        <5>1. StepsLeft' < StepsLeft
          BY <4>1, StepShortens
        <5> QED BY <2>1, <3>2, <5>1
      <4> QED BY <4>1
    <3> QED BY <2>1, <3>2, <3>3 DEF RunShortens
  <2> QED BY <2>2, <2>3 DEF NoopNext
<1> QED BY <1>1, NoopInvariance, PTL DEF NoopSpec
===============================================================================
