----------------------------- MODULE Decisions -----------------------------
(***************************************************************************)
(* The decisions the service takes from its tables before it sends         *)
(* anything.  A caller asks a question, the service answers it, and no     *)
(* answer depends on the one before: the state is the question being       *)
(* answered.  The properties quantify over what the question leaves open.  *)
(***************************************************************************)
EXTENDS MutationPlanner

CONSTANTS Macs,      \* hardware addresses
          Ips,       \* addresses that can be reserved
          Values,    \* values of a setting
          MaxTable   \* the largest limit of a reservation table

\* An address has 48 bits.
ASSUME TableAssumption == IsFiniteSet(Macs) /\ MaxTable \in Nat

VARIABLE question

Spelled == Macs \X {"colons", "dashes"}

Unique(rows) == \A r, s \in rows : r = s \/ (r.mac # s.mac /\ r.ip # s.ip)

\* The router keeps its limit; a limit of 0 is one it does not report.
Tables ==
  { table \in [rows : {rows \in SUBSET [mac : Macs, ip : Ips] : Unique(rows)}, max : 0..MaxTable] :
      table.max = 0 \/ Cardinality(table.rows) =< table.max }

ReservationParams == [mac : Spelled, ip : Ips, old_mac : Spelled \cup {None}]

\* What an answer tells of a table: a list that is missing or is none, or whose items
\* are no objects, counts as empty or shorter; a row may lack one of its addresses,
\* and the limit may be missing.
TableAnswers(table) ==
  LET Without(r) == {[r EXCEPT !.mac = None], [r EXCEPT !.ip = None]}
  IN  [rows : { shown \in SUBSET (table.rows \cup UNION {Without(r) : r \in table.rows}) :
                  \A r \in table.rows : Cardinality(shown \cap ({r} \cup Without(r))) =< 1 },
       max : {0, table.max}]

Blacklists ==
  { entries \in SUBSET [mac : Spelled, name : Values \cup {None}] :
      \A d, e \in entries : d = e \/ normalize_mac(d.mac) # normalize_mac(e.mac) }

\* Likewise of a blacklist, whose entries may lack their names.
BlacklistAnswers(entries) ==
  { shown \in SUBSET (entries \cup {[e EXCEPT !.name = None] : e \in entries}) :
      \A d, e \in shown : d = e \/ d.mac # e.mac }

-----------------------------------------------------------------------------
Init == question = None

AskCapability ==
  /\ question = None
  /\ \E cap \in Capabilities \cup ProfileReads, gates \in Gates :
       question' = <<"capability", cap, gates>>

AskOpcode ==
  /\ question = None
  /\ \E op \in TmpWrites, e \in TmpEvidence : question' = <<"opcode", op, e>>

AskBulkRead ==
  /\ question = None
  /\ \E code \in TMP_CODES : question' = <<"bulk", code>>

AskOperation ==
  /\ question = None
  /\ \E n \in EndpointNames : question' = <<"operation", n>>

AskPlan ==
  /\ question = None
  /\ \E endpoint \in MUTATION_ENDPOINTS, scope \in Scopes, gates \in WriteGates :
       question' = <<"plan", endpoint.name, scope, gates>>

AskReservation ==
  /\ question = None
  /\ \E op \in {"add", "modify", "remove"}, table \in Tables :
       \E params \in ReservationParams, answer \in TableAnswers(table) :
         question' = <<"reservation", op, params, table, answer>>

AskBlacklist ==
  /\ question = None
  /\ \E op \in {"add", "remove"}, entries \in Blacklists,
        params \in [mac : Spelled, name : Values \cup {None}] :
       \E answer \in BlacklistAnswers(entries) :
         question' = <<"blacklist", op, params, entries, answer>>

AskSetting ==
  /\ question = None
  /\ \E n \in SettingWrites :
       \E params \in [SettingKeys(n) -> Values], state \in [SettingKeys(n) -> Values \cup {None}] :
         question' = <<"setting", n, params, state>>

AskCandidate ==
  /\ question = None
  /\ \E endpoint \in P9_MUTATION_CANDIDATES, scope \in Scopes, unread \in {{}} \cup {{r} : r \in FormReads} :
       question' = <<"candidate", endpoint.name, scope, FormReads \ unread>>

Answer == question # None /\ question' = None

Next ==
  \/ AskCapability \/ AskOpcode \/ AskBulkRead \/ AskOperation \/ AskPlan
  \/ AskReservation \/ AskBlacklist \/ AskSetting \/ AskCandidate
  \/ Answer

Spec == Init /\ [][Next]_question

-----------------------------------------------------------------------------
About(kind) == question # None /\ question[1] = kind

\* The routing table names the operation and the opcode that are really sent.
RoutesTellTheTruth ==
  About("capability") /\ question[2] \in Capabilities => RouteTellsTheTruth(question[2])

\* A read whose gates are open is not refused further in, nor does a bulk read
\* leave out or mis-send a parameterized one.
GatesCoverReads ==
  /\ About("capability") => GatesCover(question[3], question[2])
  /\ About("bulk") => BulkReadComplete(question[2])

\* The planned rollback of a TMP write works on the state its preflight reads.
UndoReadsSame == About("opcode") => UndoReadsSameState(question[2])

\* What is offered for verification can be undone, over either interface.
CandidatesCanBeUndone ==
  /\ About("opcode") =>
       \A flags \in [sensitive : BOOLEAN, deferred : BOOLEAN, destructive : BOOLEAN] :
         CandidateCanBeUndone(question[2], question[3], flags)
  /\ About("candidate") => HttpCandidateCanBeUndone(question[2], question[3], question[4])
  /\ About("candidate") => FixedNoOpsAgree

\* A plan, the inventory and the executor decide alike.
PlansAgreeWithExecutor ==
  About("plan") => PlanAgreesWithExecutor(question[2], question[3], question[4])

\* A write whose preflight passed, having seen what it takes to judge, succeeds and can
\* be undone with what was kept.
PassedIsReversible ==
  /\ About("reservation") =>
       ReservationReversible(question[2], question[3], question[4], question[5])
  /\ About("blacklist") => BlacklistReversible(question[2], question[3], question[4], question[5])
  /\ About("setting") => SettingReversible(question[2], question[3], question[4])

\* No operation is reachable through two doors, or through one that cannot carry it.
EachOneDoor ==
  About("operation") =>
    \A reads \in ReadGates, writes \in WriteGates : OneDoor(question[2], reads, writes)
=============================================================================
