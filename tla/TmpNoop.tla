------------------------------- MODULE TmpNoop --------------------------------
(***************************************************************************)
(* One run of a lab harness: DecoTmpClient, with its pinned SSH tunnel and *)
(* the one reconnection of its reads, under the current-value no-op        *)
(* verification of a boolean setting (_verify_tmp_boolean_noop).           *)
(*                                                                         *)
(* A step is one exchange over the tunnel, or one attempt to open it.  The *)
(* tunnel may break at any time, another device may take the address, an   *)
(* exchange may fail in any way, and an unanswered write may be applied    *)
(* late.  The owner leaves the setting alone while the harness runs.       *)
(***************************************************************************)
EXTENDS Naturals

CONSTANTS
  Devices,   \* routers that may answer at the configured address
  Target,    \* the one with the expected model, firmware and MAC (TmpLabTarget)
  Pinned,    \* those whose SSH host key has the configured fingerprint
  Values,    \* values of the setting (TRUE and FALSE)
  None

Results == {"verified_noop", "state_unchanged", "rollback_confirmed", "rollback_unconfirmed"}

ASSUME NoopAssumption ==
  /\ Target \in Devices
  /\ Pinned \subseteq {Target}
  /\ None \notin Devices \cup Values \cup Results

VARIABLES
  conn,       \* the device behind a connected client, or None
  pc,         \* the verification's next step
  attempt,    \* of the read under way: first, second, or reopen in between
  before,     \* the value that the preflight read returned
  accepted,   \* was the first write answered with error code 0?
  status,     \* the status of the result
  address,    \* external: the device that answers at the configured address
  setting,    \* external: the setting of each device
  late,       \* external: values of unanswered writes that Target may still apply
  sent,       \* history: the writes sent
  baseline    \* history: the setting of each device before the run

client      == <<conn, attempt>>
run         == <<pc, before, accepted, status>>
environment == <<address, setting, late, baseline>>
noopVars    == <<client, run, environment, sent>>

Reads    == {"target", "preflight", "verify", "rollbackVerify"}
Writes   == {"write", "rollback"}
Ended    == {"done", "raised"}

Goto(step) == pc' = step

-------------------------------------------------------------------------------
(* DecoTmpClient.  ...Fault is a slip in the definition that follows it: no *)
(* action uses it.                                                          *)

Connected == conn # None

HostKeyMatchesFault == TRUE

\* The host key is compared before the password is sent.
HostKeyMatches == address \in Pinned

\* open(): tunnel, association and negotiation succeed, or any of them fails.
OpenSucceeds == HostKeyMatches /\ conn' = address
OpenFails    == conn' = None

LastAttemptFault == FALSE

\* A read whose connection fails is tried once more.
LastAttempt == attempt = "second"

ReadReturns == attempt' = "first"

\* The errors of a read: before the first write they end the run, and later they
\* are part of what the verification reports.
ReadRaises ==
  /\ ReadReturns
  /\ \/ pc \in {"target", "preflight"} /\ Goto("raised") /\ UNCHANGED status
     \/ pc = "verify" /\ Goto("rollback") /\ UNCHANGED status
     \/ pc = "rollbackVerify" /\ Goto("done") /\ status' = "rollback_unconfirmed"

\* _require_session raises RuntimeError, which the verification does not handle.
NotConnected ==
  /\ pc \in Reads \cup Writes
  /\ attempt # "reopen"
  /\ ~Connected
  /\ ReadReturns
  /\ Goto("raised")
  /\ UNCHANGED <<conn, before, accepted, status, environment, sent>>

\* An AppV2 error, a timeout of the exchange, a malformed or negative answer.
ReadRejected ==
  /\ pc \in Reads
  /\ attempt # "reopen"
  /\ Connected
  /\ ReadRaises
  /\ UNCHANGED <<conn, before, accepted, environment, sent>>

\* TransportError or unexpected EOF: the client is closed, and opened again once.
ConnectionFails ==
  /\ pc \in Reads
  /\ attempt # "reopen"
  /\ Connected
  /\ conn' = None
  /\ \/ LastAttempt /\ ReadRaises
     \/ ~LastAttempt /\ attempt' = "reopen" /\ UNCHANGED <<pc, status>>
  /\ UNCHANGED <<before, accepted, environment, sent>>

Reopen ==
  /\ attempt = "reopen"
  /\ \/ /\ OpenSucceeds
        /\ attempt' = "second"
        /\ UNCHANGED <<pc, status>>
     \/ OpenFails /\ ReadRaises
  /\ UNCHANGED <<before, accepted, environment, sent>>

-------------------------------------------------------------------------------
NoopInit ==
  /\ conn      = None
  /\ pc        = "start"
  /\ attempt   = "first"
  /\ before    = None
  /\ accepted  = FALSE
  /\ status    = None
  /\ address   \in Devices
  /\ setting   \in [Devices -> Values]
  /\ late      = {}
  /\ sent      = 0
  /\ baseline  = setting

\* "with DecoTmpClient(config) as client"
Open ==
  /\ pc = "start"
  /\ \/ OpenSucceeds /\ Goto("target")
     \/ OpenFails /\ Goto("raised")
  /\ UNCHANGED <<attempt, before, accepted, status, environment, sent>>

AnswersRead(step) == pc = step /\ attempt # "reopen" /\ Connected /\ ReadReturns

\* verify_tmp_lab_target: the live identity must be the expected one.
VerifyTarget ==
  /\ AnswersRead("target")
  /\ Goto(IF conn = Target THEN "preflight" ELSE "raised")
  /\ UNCHANGED <<conn, before, accepted, status, environment, sent>>

Preflight ==
  /\ AnswersRead("preflight")
  /\ before' = setting[conn]
  /\ Goto("write")
  /\ UNCHANGED <<conn, accepted, status, environment, sent>>

AfterWriteFault ==
  IF ~accepted' THEN pc ELSE IF pc = "write" THEN "verify" ELSE "rollbackVerify"

\* A write is not sent again, whatever becomes of it.
AfterWrite == IF pc = "write" THEN "verify" ELSE "rollbackVerify"

\* What becomes of a write: applied, correctly or not, and perhaps answered; not
\* applied and perhaps answered; or neither yet.
Sent ==
  \/ /\ \E v \in Values : setting' = [setting EXCEPT ![conn] = v]
     /\ UNCHANGED late
     /\ accepted' \in IF pc = "write" THEN BOOLEAN ELSE {accepted}
  \/ /\ UNCHANGED setting
     /\ late' = late \cup {before}
     /\ accepted' = IF pc = "write" THEN FALSE ELSE accepted

Write ==
  /\ pc \in Writes
  /\ Connected
  /\ Sent
  /\ sent' = sent + 1
  /\ Goto(AfterWrite)
  /\ UNCHANGED <<client, before, status, address, baseline>>

UnchangedFault == TRUE

Unchanged == setting[conn] = before

Verify ==
  /\ AnswersRead("verify")
  /\ \/ /\ Unchanged
        /\ Goto("done")
        /\ status' = IF accepted THEN "verified_noop" ELSE "state_unchanged"
     \/ ~Unchanged /\ Goto("rollback") /\ UNCHANGED status
  /\ UNCHANGED <<conn, before, accepted, environment, sent>>

RollbackVerify ==
  /\ AnswersRead("rollbackVerify")
  /\ Goto("done")
  /\ status' = IF Unchanged THEN "rollback_confirmed" ELSE "rollback_unconfirmed"
  /\ UNCHANGED <<conn, before, accepted, environment, sent>>

\* External: the SSH channel closes.
Drop ==
  /\ Connected
  /\ conn' = None
  /\ UNCHANGED <<attempt, run, environment, sent>>

\* External: another device takes the address; open tunnels stay where they are.
Swap ==
  /\ \E d \in Devices \ {address} : address' = d
  /\ UNCHANGED <<client, run, setting, late, baseline, sent>>

\* External: the router applies a write that was given up.
LateApply ==
  /\ \E v \in late :
       /\ late' = late \ {v}
       /\ setting' = [setting EXCEPT ![Target] = v]
  /\ UNCHANGED <<client, run, address, baseline, sent>>

Step ==
  \/ Open
  \/ NotConnected
  \/ ReadRejected
  \/ ConnectionFails
  \/ Reopen
  \/ VerifyTarget
  \/ Preflight
  \/ Write
  \/ Verify
  \/ RollbackVerify

NoopNext == Step \/ Drop \/ Swap \/ LateApply

NoopSpec == NoopInit /\ [][NoopNext]_noopVars

\* Every exchange and every attempt to connect runs under a timeout.
NoopFairSpec == NoopSpec /\ WF_noopVars(Step)

-------------------------------------------------------------------------------
NoopTypeOK ==
  /\ conn      \in Devices \cup {None}
  /\ pc        \in {"start"} \cup Reads \cup Writes \cup Ended
  /\ attempt   \in {"first", "reopen", "second"}
  /\ before    \in Values \cup {None}
  /\ accepted  \in BOOLEAN
  /\ status    \in Results \cup {None}
  /\ address   \in Devices
  /\ setting   \in [Devices -> Values]
  /\ late      \subseteq Values
  /\ sent      \in Nat
  /\ baseline  \in [Devices -> Values]

\* No write reaches another device than the authorized one, although its identity is
\* read only once and any later read may have opened a new tunnel.
WritesReachLabTarget == pc \in Writes /\ Connected => conn = Target

\* A mutation is not repeated by the reconnection that repeats reads.
WritesNotRepeated ==
  /\ sent <= 2
  /\ pc \in {"start", "target", "preflight", "write"} => sent = 0
  /\ status \in {"verified_noop", "state_unchanged"} => sent = 1

\* A result other than "rollback unconfirmed" is true: the setting has its old value,
\* and no write that is still in doubt can take it away again.
ResultIsTrue ==
  pc = "done" /\ status # "rollback_unconfirmed" =>
    setting[Target] = baseline[Target] /\ late \subseteq {baseline[Target]}

\* The run ends, with a result or an exception, however often the tunnel breaks.
RunEnds == <>(pc \in Ended)

-------------------------------------------------------------------------------
\* The value to restore is the one the setting had before the run, and until the
\* first write every setting has its old value.
ValueKept ==
  /\ pc \in Writes \cup {"verify", "rollbackVerify"} => before = baseline[Target]
  /\ late \subseteq {baseline[Target]}
  /\ sent = 0 => setting = baseline
  /\ \A d \in Devices \ {Target} : setting[d] = baseline[d]

\* The writes sent before each step, and the device behind the client.
StepsCounted ==
  /\ conn \in {None, Target}
  /\ pc \in {"start", "target", "preflight", "write"} => sent = 0
  /\ pc \in {"verify", "rollback"} => sent = 1
  /\ pc = "rollbackVerify" => sent = 2
  /\ (pc = "done") <=> (status # None)
  /\ sent <= 2
  /\ status \in {"verified_noop", "state_unchanged"} => sent = 1
  /\ attempt # "first" => pc \in Reads

NoopInv ==
  /\ NoopTypeOK
  /\ ValueKept
  /\ StepsCounted
  /\ ResultIsTrue

-------------------------------------------------------------------------------
\* tmp_noop_verification.py, of which the caller has to repeat every word: "with
\* immediate post-read verification and rollback on mismatch".
RollbackOnMismatch == pc = "raised" /\ sent = 1 => setting[Target] = before
===============================================================================
