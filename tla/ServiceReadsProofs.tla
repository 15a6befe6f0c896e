------------------------- MODULE ServiceReadsProofs ------------------------
(***************************************************************************)
(* ReadsInv holds for any threads, any programs of the operations, any     *)
(* routing of the capabilities and any configuration of the gates; and the *)
(* reads that log in again never blame the session they found.             *)
(*                                                                         *)
(* Then what the read operations answer: one source per answer, TMP on     *)
(* evidence alone, a status no older than its request, and no error left   *)
(* over from an expired session.  The four properties speak of one request *)
(* at a time; each follows from what a step may do to a request (Stepped)  *)
(* and from the shape of the operations (the assumptions on Program).      *)
(***************************************************************************)
EXTENDS ServiceReads, TLAPS

-----------------------------------------------------------------------------
(* The HTTP client.                                                        *)

Results == [out : HttpErrors \cup {"ok"}, session : Sessions]

LoginResults == [out : HttpErrors \cup {"ok"}, session : Sessions, login : BOOLEAN]

\* A call ends in a known way and never loses or finds a token.
GoodCalls(call) ==
  \A s \in Sessions :
    \A r \in call[s] : r \in Results /\ (r.session = "none" <=> s = "none")

LEMMA CallGood == GoodCalls(Call)
  BY DEF GoodCalls, Call, Results, Sessions, HttpErrors

LEMMA BinaryGood == GoodCalls(BinaryCall)
  <1>1. SUFFICES ASSUME NEW s \in Sessions, NEW r \in BinaryCall[s]
                 PROVE  r \in Results /\ (r.session = "none" <=> s = "none")
    BY DEF GoodCalls
  <1>2. PICK q \in Call[s] :
          r = [q EXCEPT !.out = IF q.out \in {"api", "undecoded", "value"} THEN "ok" ELSE q.out]
    BY DEF BinaryCall
  <1>3. q \in Results /\ (q.session = "none" <=> s = "none")
    BY CallGood DEF GoodCalls
  <1> QED BY <1>2, <1>3 DEF Results, HttpErrors

LEMMA ProbeGood == GoodCalls(Probe)
  <1>1. SUFFICES ASSUME NEW s \in Sessions, NEW r \in Probe[s]
                 PROVE  r \in Results /\ (r.session = "none" <=> s = "none")
    BY DEF GoodCalls
  <1>2. PICK q \in Call[s] : r = [q EXCEPT !.out = IF q.out = "broken" THEN "broken" ELSE "ok"]
    BY DEF Probe
  <1>3. q \in Results /\ (q.session = "none" <=> s = "none")
    BY CallGood DEF GoodCalls
  <1> QED BY <1>2, <1>3 DEF Results, HttpErrors

LEMMA NodesGood == GoodCalls(NodeCalls)
  <1>1. SUFFICES ASSUME NEW s \in Sessions, NEW r \in NodeCalls[s]
                 PROVE  r \in Results /\ (r.session = "none" <=> s = "none")
    BY DEF GoodCalls
  <1>2. CASE r \in Call[s]
    BY <1>2, CallGood DEF GoodCalls
  <1>3. CASE r \notin Call[s]
    <2>1. PICK q \in Call[s] : r \in Call[q.session]
      BY <1>3 DEF NodeCalls
    <2>2. q.session \in Sessions /\ (q.session = "none" <=> s = "none")
      BY CallGood DEF GoodCalls, Results
    <2> QED BY <2>1, <2>2, CallGood DEF GoodCalls
  <1> QED BY <1>2, <1>3

LEMMA ObtainGood ==
  ASSUME NEW s \in Sessions, NEW o \in Obtain[s]
  PROVE  /\ o \in LoginResults
         /\ o.session = "none" => o.login /\ o.out # "ok"
         /\ s = "none" => o.login
  <1>1. CASE s = "none"
    <2>1. PICK r \in Login : o = [out |-> r.out, session |-> r.session, login |-> TRUE]
      BY <1>1 DEF Obtain
    <2>2. r \in Results /\ (r.session = "none" => r.out # "ok")
      BY DEF Login, Results, Sessions, HttpErrors
    <2> QED BY <1>1, <2>1, <2>2 DEF Results, LoginResults
  <1>2. CASE s # "none"
    <2>1. o = [out |-> "ok", session |-> s, login |-> FALSE]
      BY <1>2 DEF Obtain
    <2> QED BY <1>2, <2>1 DEF LoginResults
  <1> QED BY <1>1, <1>2

\* Obtaining the client and calling: no token at the end, or no token at the
\* start, means that the router was asked for a session.
LEMMA AfterGood ==
  ASSUME NEW s \in Sessions, NEW call, GoodCalls(call), NEW r \in After(Obtain[s], call)
  PROVE  /\ r \in LoginResults
         /\ r.session = "none" => r.login
         /\ s = "none" => r.login
  <1>1. CASE r \in Obtain[s]
    BY <1>1, ObtainGood
  <1>2. CASE r \notin Obtain[s]
    <2>1. PICK o \in { q \in Obtain[s] : q.out = "ok" } :
            r \in { [out |-> c.out, session |-> c.session, login |-> o.login] : c \in call[o.session] }
      BY <1>2 DEF After
    <2>2. PICK c \in call[o.session] : r = [out |-> c.out, session |-> c.session, login |-> o.login]
      BY <2>1
    <2>3. /\ o \in LoginResults
          /\ o.session # "none"
          /\ s = "none" => o.login
      BY <2>1, ObtainGood
    <2>4. c \in Results /\ c.session # "none"
      BY <2>2, <2>3 DEF GoodCalls, LoginResults
    <2> QED BY <2>2, <2>3, <2>4 DEF Results, LoginResults
  <1> QED BY <1>1, <1>2

LEMMA ReloggedGood ==
  ASSUME NEW s \in Sessions, NEW call, GoodCalls(call), NEW r \in Relogged(Obtain[s], call)
  PROVE  r \in LoginResults /\ (r.out \in SessionErrors => r.login)
  <1> DEFINE first == After(Obtain[s], call)
             expired == { q \in first : q.out \in SessionErrors /\ q.session # "none" }
  <1>1. CASE r \in first \ expired
    BY <1>1, AfterGood
  <1>2. CASE r \notin first \ expired
    <2>1. r \in UNION { After(Obtain[Invalidated(q.session)], call) : q \in expired }
      BY <1>2 DEF Relogged
    <2>2. r \in After(Obtain["none"], call)
      BY <2>1 DEF Invalidated
    <2> QED BY <2>2, AfterGood DEF Sessions
  <1> QED BY <1>1, <1>2

\* A read that logs in again ends with an error that means an expired session
\* only after it asked the router for a session: read_endpoint,
\* read_binary_endpoint and get_clients_by_node.
THEOREM RetriesLogIn ==
  \A s \in Sessions : \A r \in ReadAgain[s] \cup ReadBinary[s] \cup ReadNodes[s] :
    r.out \in SessionErrors => r.login
  <1>1. SUFFICES ASSUME NEW s \in Sessions,
                        NEW r \in ReadAgain[s] \cup ReadBinary[s] \cup ReadNodes[s]
                 PROVE  r.out \in SessionErrors => r.login
    OBVIOUS
  <1>2. CASE r \in Relogged(Obtain[s], Call)
    BY <1>2, CallGood, ReloggedGood
  <1>3. CASE r \in Relogged(Obtain[s], BinaryCall)
    BY <1>3, BinaryGood, ReloggedGood
  <1>4. CASE r \in Relogged(Obtain[s], NodeCalls)
    BY <1>4, NodesGood, ReloggedGood
  <1> QED BY <1>1, <1>2, <1>3, <1>4 DEF ReadAgain, ReadBinary, ReadNodes

-----------------------------------------------------------------------------
(* One request.                                                            *)

\* What the steps keep true of a request in progress.
Good(j) ==
  /\ j \in Jobs
  /\ j.at \in DOMAIN Program[j.op]
  /\ j.phase = "tmp" => gates.tmp /\ (Step(j).arg \in Secret => gates.sensitive)

LEMMA ProgramDomain ==
  ASSUME NEW op \in DOMAIN Program
  PROVE  DOMAIN Program[op] = 1..Len(Program[op]) /\ Len(Program[op]) \in Nat \ {0}
  BY ProgramAssumption

LEMMA BegunGood == ASSUME NEW op \in DOMAIN Program PROVE Good(Begun(op))
  BY ProgramDomain DEF Good, Begun, Jobs, Phases, Outs, Interfaces

LEMMA AdvancedGood == ASSUME NEW j, Good(j) PROVE Good(Advanced(j))
  <1>1. DOMAIN Program[j.op] = 1..Len(Program[j.op]) /\ Len(Program[j.op]) \in Nat \ {0}
    BY ProgramDomain DEF Good, Jobs
  <1>2. j \in Jobs /\ j.at \in DOMAIN Program[j.op]
    BY DEF Good
  <1>3. "ok" \in Outs /\ "start" \in Phases /\ "done" \in Phases
    BY DEF Outs, Phases
  <1>4. CASE j.at = Len(Program[j.op])
    <2> DEFINE k == [j EXCEPT !.phase = "done", !.out = "ok", !.login = FALSE,
                              !.checked = FALSE, !.seen = FALSE]
    <2>1. k \in Jobs
      BY <1>2, <1>3 DEF Jobs
    <2>2. k.at = j.at /\ k.op = j.op /\ k.phase = "done"
      BY <1>2 DEF Jobs
    <2>3. Advanced(j) = k
      BY <1>4 DEF Advanced
    <2> HIDE DEF k
    <2> QED BY <1>2, <2>1, <2>2, <2>3 DEF Good
  <1>5. CASE j.at # Len(Program[j.op])
    <2> DEFINE k == [j EXCEPT !.at = j.at + 1, !.phase = "start", !.out = "ok", !.login = FALSE]
    <2>1. j.at + 1 \in 1..Len(Program[j.op])
      BY <1>1, <1>2, <1>5
    <2>2. k \in Jobs
      <3>1. j.at + 1 \in Nat
        BY <1>1, <2>1
      <3> QED BY <1>2, <1>3, <3>1 DEF Jobs
    <2>3. k.at = j.at + 1 /\ k.op = j.op /\ k.phase = "start"
      BY <1>2 DEF Jobs
    <2>4. Advanced(j) = k
      BY <1>5 DEF Advanced
    <2> HIDE DEF k
    <2> QED BY <1>1, <2>1, <2>2, <2>3, <2>4 DEF Good
  <1> QED BY <1>4, <1>5

LEMMA FailedGood == ASSUME NEW j, Good(j), NEW out \in Outs PROVE Good(Failed(j, out))
  <1>1. Good(Raised(j, out))
    <2>1. j.op \in DOMAIN Program /\ j.login \in BOOLEAN
      BY DEF Good, Jobs
    <2> DEFINE b == Begun(j.op)
    <2>2. Good(b)
      BY <2>1, BegunGood
    <2> HIDE DEF b
    <2>3. Good([b EXCEPT !.phase = "done", !.login = j.login, !.out = out])
      BY <2>1, <2>2 DEF Good, Jobs, Phases
    <2> QED BY <2>3 DEF Raised, b
  <1> QED BY <1>1, AdvancedGood DEF Failed

LEMMA EndedGood == ASSUME NEW j, Good(j), NEW out \in Outs PROVE Good(Ended(j, out))
  BY AdvancedGood, FailedGood DEF Ended

LEMMA FromGood == ASSUME NEW j, Good(j), NEW i \in Interfaces PROVE Good(From(i, j))
  <1>1. j.used \cup {i} \in SUBSET Interfaces
    BY DEF Good, Jobs
  <1>2. Step(From(i, j)) = Step(j)
    BY DEF Good, Jobs, From, Step
  <1>3. From(i, j) \in Jobs
    BY <1>1 DEF Good, Jobs, From
  <1>4. From(i, j).at = j.at /\ From(i, j).op = j.op /\ From(i, j).phase = j.phase
    BY DEF Good, Jobs, From
  <1> QED BY <1>2, <1>3, <1>4 DEF Good

LEMMA ShowingGood ==
  ASSUME NEW j, Good(j), NEW inventory \in Inventories
  PROVE  LET i == Showing(inventory, j)
         IN  /\ Good(i)
             /\ Step(i) = Step(j) /\ i.op = j.op /\ i.at = j.at /\ i.ctx = j.ctx /\ i.used = j.used
             /\ i.checked = j.checked /\ i.shown = j.shown \cup {inventory.from}
  <1> DEFINE i == [j EXCEPT !.shown = j.shown \cup {inventory.from}]
  <1>1. j.shown \cup {inventory.from} \in SUBSET Interfaces
    BY DEF Good, Jobs, Inventories
  <1>2. i \in Jobs
    BY <1>1 DEF Good, Jobs
  <1>3. /\ i.op = j.op /\ i.at = j.at /\ i.ctx = j.ctx /\ i.used = j.used /\ i.phase = j.phase
        /\ i.checked = j.checked /\ i.shown = j.shown \cup {inventory.from}
    BY DEF Good, Jobs
  <1>4. Showing(inventory, j) = i
    BY DEF Showing
  <1> HIDE DEF i
  <1> QED BY <1>2, <1>3, <1>4 DEF Good, Step

\* The read context a request takes.
LEMMA ContextGood ==
  ASSUME NEW j, Good(j), NEW ctx \in Interfaces
  PROVE  LET i == [j EXCEPT !.ctx = ctx]
         IN  /\ Good(i)
             /\ Step(i) = Step(j) /\ i.op = j.op /\ i.at = j.at /\ i.ctx = ctx /\ i.used = j.used
             /\ i.checked = j.checked /\ i.shown = j.shown
  BY DEF Good, Jobs, Step

LEMMA AnsweredGood == ASSUME NEW j, Good(j), NEW i \in Interfaces PROVE Good(Answered(j, i))
  <1>1. Good([j EXCEPT !.ctx = i])
    BY DEF Good, Jobs, Step
  <1> QED BY <1>1, FromGood, AdvancedGood DEF Answered

LEMMA OverTmpGood ==
  ASSUME NEW j, Good(j), NEW found, gates.tmp, Step(j).arg \in Secret => gates.sensitive
  PROVE  Good(OverTmpNext(j, found))
  <1>1. (found = "exact") \in BOOLEAN
    OBVIOUS
  <1> QED BY <1>1 DEF Good, OverTmpNext, Jobs, Phases, Step

LEMMA PhaseGood ==
  ASSUME NEW j, Good(j), NEW phase \in Phases \ {"tmp"} PROVE Good([j EXCEPT !.phase = phase])
  BY DEF Good, Jobs

\* The job that carries on when the inventory is there.
LEMMA OnwardGood ==
  ASSUME NEW j, Good(j), NEW inventory \in Inventories, NEW via \in Interfaces,
         Step(j).do = "capability" => Passes(Step(j).arg)
  PROVE  Good(Onward(j, inventory, via))
  <1>1. CASE Step(j).do = "capability"
    <2>1. CASE Step(j).arg = "mesh_nodes"
      <3> DEFINE i == [j EXCEPT !.ctx = via]
      <3>1. Good(i)
        BY ContextGood
      <3>2. Onward(j, inventory, via) = Advanced(Showing(inventory, i))
        BY <1>1, <2>1 DEF Onward, AfterInventory
      <3> HIDE DEF i
      <3> QED BY <3>1, <3>2, ShowingGood, AdvancedGood
    <2>2. CASE Step(j).arg \in TmpPrimary /\ inventory.says = "exact" /\ Step(j).arg # "mesh_nodes"
      BY <1>1, <2>2, OverTmpGood DEF Onward, AfterInventory, Passes
    <2>3. CASE /\ ~(Step(j).arg \in TmpPrimary /\ inventory.says = "exact")
               /\ Step(j).arg # "mesh_nodes"
      <3>1. "permission" \in Outs /\ {"route", "http"} \subseteq Phases \ {"tmp"}
        BY DEF Outs, Errors, Phases
      <3> QED BY <1>1, <2>3, <3>1, FailedGood, PhaseGood DEF Onward, AfterInventory
    <2> QED BY <2>1, <2>2, <2>3
  <1>2. CASE Step(j).do # "capability"
    <2>1. "permission" \in Outs
      BY DEF Outs, Errors
    <2>2. Good([j EXCEPT !.checked = TRUE])
      BY DEF Good, Jobs, Step
    <2>3. CASE Step(j).arg = "exact"
      BY <1>2, <2>1, <2>2, <2>3, AdvancedGood, FailedGood DEF Onward, AfterIdentity
    <2>4. CASE Step(j).arg # "exact"
      <3> DEFINE i == [j EXCEPT !.ctx = IF j.ctx = None THEN via ELSE j.ctx]
      <3>1. Good(i)
        BY ContextGood DEF Good, Jobs
      <3>2. \/ Onward(j, inventory, via) = Advanced(i)
            \/ Onward(j, inventory, via) = Advanced(Showing(inventory, i))
        BY <1>2, <2>4 DEF Onward, AfterIdentity
      <3> HIDE DEF i
      <3> QED BY <3>1, <3>2, ShowingGood, AdvancedGood
    <2> QED BY <2>3, <2>4
  <1> QED BY <1>1, <1>2

-----------------------------------------------------------------------------
(* One step.                                                               *)

Typed ==
  /\ cache \in Inventories \cup {None}
  /\ resolution \in Interfaces \cup {None}
  /\ session \in Sessions
  /\ InventoryNamed

ThreadsGood == \A t \in Threads : job[t] # None => Good(job[t])

Parts ==
  /\ gates \in [GateNames -> BOOLEAN]
  /\ lock \in Threads \cup {None}
  /\ Typed
  /\ job \in [Threads -> Jobs \cup {None}]
  /\ LockInv
  /\ ThreadsGood

LEMMA IsParts == ReadsInv <=> Parts
  <1>1. ASSUME job \in [Threads -> Jobs \cup {None}]
        PROVE  StepInv /\ TmpGated <=> ThreadsGood
    BY <1>1 DEF StepInv, TmpGated, ThreadsGood, Good, Cap
  <1> QED BY <1>1 DEF ReadsInv, ReadsTypeOK, Typed, Parts

LEMMA InvParts == ReadsInv => Parts
  BY IsParts

LEMMA PartsNext == Parts' => ReadsInv'
  BY IsParts, PTL

LEMMA JobGood ==
  ASSUME ReadsInv, NEW t \in Threads, job[t] # None
  PROVE  Good(job[t])
  BY InvParts DEF Parts, ThreadsGood

LEMMA GoodIsJob == ASSUME NEW j, Good(j) PROVE j \in Jobs /\ j # None
  BY NoneAssumption DEF Good

\* A step of t that changes nobody's request but its own.
LEMMA StepKeeps ==
  ASSUME ReadsInv, Typed', gates' = gates,
         NEW t \in Threads, NEW j, j = None \/ Good(j),
         job' = [job EXCEPT ![t] = j],
         lock' \in {lock, None, t},
         lock' = t => j # None /\ j.phase # "done"
  PROVE  ReadsInv'
  <1>1. job' \in [Threads -> Jobs \cup {None}]
    BY InvParts, GoodIsJob DEF Parts
  <1>2. gates' \in [GateNames -> BOOLEAN] /\ lock' \in Threads \cup {None}
    BY InvParts DEF Parts
  <1>3. \A u \in Threads : job'[u] = IF u = t THEN j ELSE job[u]
    BY InvParts DEF Parts
  <1>4. LockInv'
    <2>1. SUFFICES ASSUME lock' # None, lock' # t
                   PROVE  job'[lock'] # None /\ job'[lock'].phase # "done"
      BY <1>3 DEF LockInv
    <2>2. lock' = lock /\ lock \in Threads
      BY <1>2, <2>1
    <2> QED BY <1>3, <2>1, <2>2, InvParts DEF Parts, LockInv
  <1>5. ThreadsGood'
    <2>1. SUFFICES ASSUME NEW u \in Threads, job'[u] # None
                   PROVE  Good(job[u])'
      BY DEF ThreadsGood
    <2>2. Good(job'[u])
      BY <1>3, <2>1, JobGood
    <2> QED BY <2>2 DEF Good, Step
  <1> QED BY <1>1, <1>2, <1>4, <1>5, PartsNext DEF Parts

LEMMA SeenGood ==
  ASSUME NEW j, j = None \/ Good(j)
  PROVE  /\ Seen(j) = None \/ Good(Seen(j))
         /\ Seen(j) = None <=> j = None
         /\ j # None => Seen(j).phase = j.phase
  <1>1. CASE Seen(j) = j
    BY <1>1
  <1>2. CASE Seen(j) # j
    <2>1. j # None /\ Seen(j) = [j EXCEPT !.seen = TRUE]
      BY <1>2 DEF Seen
    <2>2. Good([j EXCEPT !.seen = TRUE])
      BY <2>1 DEF Good, Jobs, Step
    <2>3. [j EXCEPT !.seen = TRUE].phase = j.phase
      BY <2>1 DEF Good, Jobs
    <2> QED BY <2>1, <2>2, <2>3, GoodIsJob
  <1> QED BY <1>1, <1>2

LEMMA ToKeeps ==
  ASSUME ReadsInv, Typed', gates' = gates, NEW t \in Threads, NEW j, Good(j), To(t, j)
  PROVE  ReadsInv'
  <1>1. /\ job' = [job EXCEPT ![t] = j]
        /\ lock' \in {lock, None}
        /\ lock' = t => j.phase # "done"
    BY NoneAssumption DEF To, Freed
  <1> QED BY <1>1, GoodIsJob, StepKeeps

\* The same when the inventory was read from the router.
LEMMA ToSeenKeeps ==
  ASSUME ReadsInv, Typed', gates' = gates, NEW t \in Threads, NEW j, Good(j), ToSeen(t, j)
  PROVE  ReadsInv'
  <1> DEFINE old(u) == IF u = t THEN j ELSE job[u]
  <1>1. \A u \in Threads : old(u) = None \/ Good(old(u))
    BY JobGood
  <1>2. /\ job' = [u \in Threads |-> Seen(old(u))]
        /\ lock' = Freed(t, j)
    BY DEF ToSeen
  <1>3. \A u \in Threads :
          /\ job'[u] = None \/ Good(job'[u])
          /\ job'[u] = None <=> old(u) = None
          /\ old(u) # None => job'[u].phase = old(u).phase
    BY <1>1, <1>2, SeenGood
  <1>4. job' \in [Threads -> Jobs \cup {None}]
    BY <1>2, <1>3, GoodIsJob
  <1>5. gates' \in [GateNames -> BOOLEAN] /\ lock' \in Threads \cup {None}
    BY <1>2, InvParts DEF Parts, Freed
  <1>6. LockInv'
    <2>1. SUFFICES ASSUME lock' # None
                   PROVE  job'[lock'] # None /\ job'[lock'].phase # "done"
      BY DEF LockInv
    <2>2. lock' = lock /\ lock \in Threads /\ (lock = t => j.phase # "done")
      BY <1>2, <1>5, <2>1 DEF Freed
    <2>3. old(lock) # None /\ old(lock).phase # "done"
      BY <2>1, <2>2, InvParts, GoodIsJob DEF Parts, LockInv
    <2> HIDE DEF old
    <2> QED BY <1>3, <2>2, <2>3
  <1>7. ThreadsGood'
    <2>1. SUFFICES ASSUME NEW u \in Threads, job'[u] # None
                   PROVE  Good(job[u])'
      BY DEF ThreadsGood
    <2>2. Good(job'[u])
      BY <1>3, <2>1
    <2> QED BY <2>2 DEF Good, Step
  <1> QED BY <1>4, <1>5, <1>6, <1>7, PartsNext DEF Parts

\* What the steps read has its type.
LEMMA OutsHold == HttpErrors \cup TmpErrors \cup {"ok", "permission"} \subseteq Outs
  BY DEF Outs, Errors

LEMMA ReadGood ==
  ASSUME ReadsInv, NEW r \in Read[session]
  PROVE  r.out \in Outs /\ r.session \in Sessions
  <1>1. session \in Sessions
    BY InvParts DEF Parts, Typed
  <1>2. r \in LoginResults
    BY <1>1, CallGood, AfterGood DEF Read
  <1> QED BY <1>2, OutsHold DEF LoginResults

LEMMA RetryGood ==
  ASSUME ReadsInv, NEW kind, NEW r \in RetryResults(kind)
  PROVE  r.out \in Outs /\ r.session \in Sessions /\ r.login \in BOOLEAN
  <1>1. session \in Sessions
    BY InvParts DEF Parts, Typed
  <1>2. \/ r \in Relogged(Obtain[session], Call)
        \/ r \in Relogged(Obtain[session], BinaryCall)
        \/ r \in Relogged(Obtain[session], NodeCalls)
    BY <1>1 DEF RetryResults, ReadAgain, ReadBinary, ReadNodes
  <1>3. r \in LoginResults
    BY <1>1, <1>2, CallGood, BinaryGood, NodesGood, ReloggedGood
  <1> QED BY <1>3, OutsHold DEF LoginResults

LEMMA CallsGood ==
  ASSUME ReadsInv, NEW kind, NEW r \in CallResults(kind)
  PROVE  r.out \in Outs /\ r.session \in Sessions
  <1>1. session \in Sessions
    BY InvParts DEF Parts, Typed
  <1>2. r \in Call[session] \/ r \in Probe[session] \/ r \in NodeCalls[session]
    BY DEF CallResults
  <1>3. r \in Results
    BY <1>1, <1>2, CallGood, ProbeGood, NodesGood DEF GoodCalls
  <1> QED BY <1>3, OutsHold DEF Results

LEMMA LogoutGood ==
  ASSUME ReadsInv, NEW r \in Logout[session]
  PROVE  r.out \in Outs /\ r.session \in Sessions
  <1>1. session \in Sessions
    BY InvParts DEF Parts, Typed
  <1>2. r.out \in HttpErrors \cup {"ok"} /\ r.session \in Sessions
    BY <1>1 DEF Logout, Invalidated, Sessions
  <1> QED BY <1>2, OutsHold

LEMMA ResolveGood ==
  ASSUME ReadsInv, NEW r \in ResolveResults
  PROVE  r.out \in Outs /\ r.session \in Sessions /\ r.via \in Interfaces
  <1> DEFINE http == Read[session]
             lost == { q \in http : q.out \in BootstrapErrors /\ gates.tmp }
             Result(out, via, q) == [out |-> out, via |-> via, session |-> q.session]
  <1>1. CASE r \in { Result(q.out, "http", q) : q \in http \ lost }
    <2>1. PICK q \in Read[session] : r = Result(q.out, "http", q)
      BY <1>1
    <2> QED BY <2>1, ReadGood DEF Interfaces
  <1>2. CASE r \in { Result(out, "tmp", q) : q \in lost, out \in {"ok"} \cup TmpErrors }
    <2>1. PICK q \in Read[session], out \in {"ok"} \cup TmpErrors : r = Result(out, "tmp", q)
      BY <1>2
    <2> QED BY <2>1, ReadGood, OutsHold DEF Interfaces
  <1> QED BY <1>1, <1>2 DEF ResolveResults

\* device_inventory inside a step.
LEMMA IdentifiedKeeps ==
  ASSUME ReadsInv, NEW t \in Threads, job[t] # None, NEW fresh \in BOOLEAN,
         Step(job[t]).do = "capability" => Passes(Step(job[t]).arg), Identified(t, fresh)
  PROVE  ReadsInv'
  <1>1. gates' = gates /\ Good(job[t]) /\ Typed
    BY JobGood, InvParts DEF Parts, Identified
  <1>2. CASE cache # None /\ ~fresh
    <2>1. UNCHANGED <<cache, resolution, session>>
      BY <1>2 DEF Identified
    <2>2. Typed'
      BY <1>1, <2>1 DEF Typed, InventoryNamed
    <2>3. CASE InventoryResult = "ok"
      <3>1. To(t, Onward(job[t], cache, IdentityInterface))
        BY <1>2, <2>3 DEF Identified
      <3>2. IdentityInterface \in Interfaces /\ cache \in Inventories
        BY <1>1, <1>2 DEF Typed, IdentityInterface, Interfaces
      <3> QED BY <1>1, <2>2, <3>1, <3>2, OnwardGood, ToKeeps
    <2>4. CASE InventoryResult # "ok"
      <3>1. To(t, Failed(job[t], InventoryResult)) /\ InventoryResult \in Outs
        BY <1>2, <2>4, OutsHold DEF Identified, InventoryResult, TmpErrors
      <3> QED BY <1>1, <2>2, <3>1, FailedGood, ToKeeps
    <2> QED BY <2>3, <2>4
  <1>3. CASE ~(cache # None /\ ~fresh)
    <2>1. PICK r \in ResolveResults :
            /\ session' = r.session
            /\ IF r.out = "ok"
               THEN \E found \in Profiles :
                      /\ cache' = [says |-> found, from |-> r.via]
                      /\ resolution' = r.via
                      /\ ToSeen(t, Onward(job[t], cache', r.via))
               ELSE To(t, Failed(job[t], r.out)) /\ UNCHANGED <<cache, resolution>>
      BY <1>3 DEF Identified
    <2>2. r.out \in Outs /\ r.session \in Sessions /\ r.via \in Interfaces
      BY ResolveGood
    <2>3. CASE r.out = "ok"
      <3>1. PICK found \in Profiles :
              /\ cache' = [says |-> found, from |-> r.via]
              /\ resolution' = r.via
              /\ ToSeen(t, Onward(job[t], cache', r.via))
        BY <2>1, <2>3
      <3>2. cache' \in Inventories /\ cache'.from = r.via
        BY <2>2, <3>1 DEF Inventories
      <3>3. InventoryNamed'
        BY <2>2, <3>1, <3>2 DEF InventoryNamed, Interfaces
      <3>4. Typed'
        BY <2>1, <2>2, <3>1, <3>2, <3>3 DEF Typed
      <3> QED BY <1>1, <2>2, <3>1, <3>2, <3>4, OnwardGood, ToSeenKeeps
    <2>4. CASE r.out # "ok"
      <3>1. To(t, Failed(job[t], r.out)) /\ UNCHANGED <<cache, resolution>> /\ session' = r.session
        BY <2>1, <2>4
      <3>2. Typed'
        BY <1>1, <2>2, <3>1 DEF Typed, InventoryNamed
      <3> QED BY <1>1, <2>2, <3>1, <3>2, FailedGood, ToKeeps
    <2> QED BY <2>3, <2>4
  <1> QED BY <1>2, <1>3

\* The variables a step that stays inside the service leaves alone.
LEMMA QuietTyped ==
  ASSUME ReadsInv, UNCHANGED <<cache, resolution, session>>
  PROVE  Typed'
  BY InvParts DEF Parts, Typed, InventoryNamed

LEMMA SessionTyped ==
  ASSUME ReadsInv, UNCHANGED <<cache, resolution>>, session' \in Sessions
  PROVE  Typed'
  BY InvParts DEF Parts, Typed, InventoryNamed

\* The devices of the snapshot are of the inventory as it is.
LEMMA SnapshotForms ==
  ASSUME ReadsInv, NEW t \in Threads, Snapshot(t)
  PROVE  \/ To(t, Failed(job[t], "value"))
         \/ cache \in Inventories /\ To(t, Advanced(Showing(cache, job[t])))
  BY InvParts DEF Snapshot, Parts, Typed

LEMMA PlainSteps ==
  ASSUME ReadsInv, NEW t \in Threads, Pass(t) \/ Gate(t) \/ Snapshot(t) \/ Compare(t)
  PROVE  ReadsInv'
  <1> DEFINE j == job[t]
  <1>1. /\ Good(j)
        /\ Typed'
        /\ gates' = gates
    BY JobGood, QuietTyped DEF Pass, Gate, Snapshot, Compare, At
  <1>2. {"permission", "value", "ok"} \subseteq Outs
    BY OutsHold DEF TmpErrors
  <1>3. \/ To(t, Advanced(j))
        \/ \E out \in Outs : To(t, Failed(j, out)) \/ To(t, Ended(j, out))
        \/ cache \in Inventories /\ To(t, Advanced(Showing(cache, j)))
    BY <1>2, SnapshotForms DEF Pass, Gate, Compare
  <1> QED BY <1>1, <1>3, ShowingGood, AdvancedGood, FailedGood, EndedGood, ToKeeps

LEMMA IdentitySteps ==
  ASSUME ReadsInv, NEW t \in Threads, Identity(t) \/ Capability(t)
  PROVE  ReadsInv'
  <1>1. CASE Identity(t)
    <2>1. /\ job[t] # None
          /\ Step(job[t]).do # "capability"
          /\ Identified(t, Step(job[t]).arg = "fresh")
      BY <1>1 DEF Identity, At
    <2>2. (Step(job[t]).arg = "fresh") \in BOOLEAN
      OBVIOUS
    <2> QED BY <2>1, <2>2, IdentifiedKeeps
  <1>2. CASE Capability(t)
    <2>1. job[t] # None
      BY <1>2 DEF Capability, At
    <2>2. CASE Passes(Cap(t))
      <3>1. Identified(t, FALSE) /\ Passes(Step(job[t]).arg)
        BY <1>2, <2>2 DEF Capability, Cap
      <3> QED BY <2>1, <3>1, IdentifiedKeeps
    <2>3. CASE ~Passes(Cap(t))
      <3>1. To(t, Failed(job[t], "permission")) /\ UNCHANGED <<gates, cache, resolution, session>>
        BY <1>2, <2>3 DEF Capability
      <3> QED BY <2>1, <3>1, JobGood, OutsHold, FailedGood, QuietTyped, ToKeeps
    <2> QED BY <2>2, <2>3
  <1> QED BY <1>1, <1>2

\* The steps that choose the interface: each way out leaves the request good.
LEMMA ChoiceSteps ==
  ASSUME ReadsInv, NEW t \in Threads, Route(t) \/ Section(t) \/ Direct(t) \/ Fallback(t)
  PROVE  ReadsInv'
  <1> DEFINE j == job[t]
  <1>1. /\ Good(j)
        /\ Typed'
        /\ gates' = gates
    BY JobGood, QuietTyped DEF Route, Section, Direct, Fallback, At
  <1>2. {"permission", "value"} \cup {j.out} \subseteq Outs
    BY <1>1, OutsHold DEF TmpErrors, Good, Jobs
  <1>3. ASSUME gates.tmp, Cap(t) \in Secret => gates.sensitive
        PROVE  Good([j EXCEPT !.phase = "tmp"]) /\ Good(OverTmpNext(j, cache.says))
    <2>1. Step(j).arg \in Secret => gates.sensitive
      BY <1>3 DEF Cap
    <2>2. Good([j EXCEPT !.phase = "tmp"])
      BY <1>1, <1>3, <2>1 DEF Good, Jobs, Phases, Step
    <2> QED BY <1>1, <1>3, <2>1, <2>2, OverTmpGood
  <1>4. Good([j EXCEPT !.phase = "http"])
    BY <1>1, PhaseGood DEF Phases
  <1>5. Eligible(Cap(t)) => gates.tmp /\ (Cap(t) \in Secret => gates.sensitive)
    BY DEF Eligible
  <1>6. \A out \in {"permission", "value"} \cup {j.out} : Good(Failed(j, out))
    BY <1>1, <1>2, FailedGood
  <1>7. CASE Route(t)
    <2>1. \/ To(t, Failed(j, "value"))
          \/ Eligible(Cap(t)) /\ To(t, OverTmpNext(j, cache.says))
          \/ To(t, [j EXCEPT !.phase = "http"])
      BY <1>7 DEF Route
    <2> QED BY <1>1, <1>3, <1>4, <1>5, <1>6, <2>1, ToKeeps
  <1>8. CASE Section(t)
    <2>1. \/ To(t, Failed(j, "permission"))
          \/ To(t, Failed(j, "value"))
          \/ Eligible(Cap(t)) /\ To(t, OverTmpNext(j, cache.says))
          \/ To(t, [j EXCEPT !.phase = "http"])
      BY <1>8 DEF Section
    <2> QED BY <1>1, <1>3, <1>4, <1>5, <1>6, <2>1, ToKeeps
  <1>9. CASE Direct(t)
    <2>1. \/ To(t, Failed(j, "permission"))
          \/ /\ gates.tmp /\ (Cap(t) \in Secret => gates.sensitive)
             /\ To(t, [j EXCEPT !.phase = "tmp"])
      BY <1>9 DEF Direct
    <2> QED BY <1>1, <1>3, <1>6, <2>1, ToKeeps
  <1>10. CASE Fallback(t)
    <2>1. \/ To(t, Failed(j, "value"))
          \/ Eligible(Cap(t)) /\ To(t, OverTmpNext(j, cache.says))
          \/ To(t, Failed(j, j.out))
      BY <1>10 DEF Fallback
    <2> QED BY <1>1, <1>3, <1>5, <1>6, <2>1, ToKeeps
  <1> QED BY <1>7, <1>8, <1>9, <1>10

LEMMA HttpEndedGood ==
  ASSUME ReadsInv, NEW t \in Threads, job[t] # None, NEW r, r.out \in Outs
  PROVE  Good(HttpEnded(t, r))
  <1>1. Good(job[t]) /\ "http" \in Interfaces
    BY JobGood DEF Interfaces
  <1> QED BY <1>1, FromGood, AdvancedGood, FailedGood DEF HttpEnded

LEMMA HttpReadKeeps ==
  ASSUME ReadsInv, NEW t \in Threads, HttpRead(t)
  PROVE  ReadsInv'
  <1> DEFINE j == job[t]
  <1>1. PICK r \in Read[session] :
          /\ session' = r.session
          /\ To(t, IF r.out = "ok" THEN Answered(j, "http")
                   ELSE IF Step(j).do = "capability" /\ r.out \in FallbackErrors
                   THEN [j EXCEPT !.phase = "eligible", !.out = r.out]
                   ELSE Failed(j, r.out))
    BY DEF HttpRead
  <1>2. Good(j) /\ UNCHANGED <<gates, cache, resolution>>
    BY JobGood DEF HttpRead, At
  <1>3. r.out \in Outs /\ Typed'
    BY <1>1, <1>2, ReadGood, SessionTyped
  <1>4. Good([j EXCEPT !.phase = "eligible", !.out = r.out])
    <2>1. "eligible" \in Phases
      BY DEF Phases
    <2> QED BY <1>2, <1>3, <2>1 DEF Good, Jobs
  <1>5. Good(Answered(j, "http")) /\ Good(Failed(j, r.out))
    BY <1>2, <1>3, AnsweredGood, FailedGood DEF Interfaces
  <1>6. \/ To(t, Answered(j, "http"))
        \/ To(t, [j EXCEPT !.phase = "eligible", !.out = r.out])
        \/ To(t, Failed(j, r.out))
    BY <1>1
  <1> QED BY <1>2, <1>3, <1>4, <1>5, <1>6, ToKeeps

LEMMA TmpReadKeeps ==
  ASSUME ReadsInv, NEW t \in Threads, TmpRead(t) \/ Raw(t) \/ Bootstrap(t)
  PROVE  ReadsInv'
  <1> DEFINE j == job[t]
  <1>1. Good(j) /\ Typed' /\ gates' = gates
    BY JobGood, QuietTyped DEF TmpRead, Raw, Bootstrap, At
  <1>2. PICK out \in {"ok"} \cup HttpErrors \cup TmpErrors :
          To(t, Answered(j, "tmp")) \/ To(t, Failed(j, out)) \/ To(t, Ended(j, out))
    BY DEF TmpRead, Raw, Bootstrap
  <1>3. out \in Outs
    BY OutsHold
  <1> QED BY <1>1, <1>2, <1>3, AnsweredGood, FailedGood, EndedGood, ToKeeps DEF Interfaces

LEMMA ReadOnceKeeps ==
  ASSUME ReadsInv, NEW t \in Threads, ReadOnce(t)
  PROVE  ReadsInv'
  <1>1. PICK r \in Read[session] : session' = r.session /\ To(t, HttpEnded(t, r))
    BY DEF ReadOnce
  <1>2. job[t] # None /\ UNCHANGED <<gates, cache, resolution>>
    BY DEF ReadOnce, At
  <1>3. r.out \in Outs /\ Typed'
    BY <1>1, <1>2, ReadGood, SessionTyped
  <1> QED BY <1>1, <1>2, <1>3, HttpEndedGood, ToKeeps

LEMMA RetryKeeps ==
  ASSUME ReadsInv, NEW t \in Threads, Retry(t)
  PROVE  ReadsInv'
  <1> DEFINE j == job[t]
  <1>1. PICK r \in RetryResults(Step(j).arg) :
          /\ session' = r.session
          /\ To(t, IF r.out = "ok" THEN Advanced(From("http", j))
                   ELSE Failed([j EXCEPT !.login = r.login], r.out))
    BY DEF Retry
  <1>2. Good(j) /\ UNCHANGED <<gates, cache, resolution>>
    BY JobGood DEF Retry, At
  <1>3. r.out \in Outs /\ r.login \in BOOLEAN /\ Typed'
    BY <1>1, <1>2, RetryGood, SessionTyped
  <1>4. Good([j EXCEPT !.login = r.login])
    BY <1>2, <1>3 DEF Good, Jobs, Step
  <1>5. Good(Advanced(From("http", j))) /\ Good(Failed([j EXCEPT !.login = r.login], r.out))
    BY <1>2, <1>3, <1>4, FromGood, AdvancedGood, FailedGood DEF Interfaces
  <1> QED BY <1>1, <1>2, <1>3, <1>5, ToKeeps

LEMMA CallOnceKeeps ==
  ASSUME ReadsInv, NEW t \in Threads, CallOnce(t)
  PROVE  ReadsInv'
  <1>1. PICK r \in CallResults(Step(job[t]).arg) : session' = r.session /\ To(t, HttpEnded(t, r))
    BY DEF CallOnce
  <1>2. job[t] # None /\ UNCHANGED <<gates, cache, resolution>>
    BY DEF CallOnce, At
  <1>3. r.out \in Outs /\ Typed'
    BY <1>1, <1>2, CallsGood, SessionTyped
  <1> QED BY <1>1, <1>2, <1>3, HttpEndedGood, ToKeeps

LEMMA NodesKeeps ==
  ASSUME ReadsInv, NEW t \in Threads, Nodes(t)
  PROVE  ReadsInv'
  <1>1. PICK r \in Call[session] :
          /\ session' = r.session
          /\ IF r.out = "ok"
             THEN /\ \E found \in Profiles \cup {"empty"} : cache' = [says |-> found, from |-> "http"]
                  /\ ToSeen(t, HttpEnded(t, r))
             ELSE To(t, HttpEnded(t, r)) /\ UNCHANGED cache
    BY DEF Nodes
  <1>2. /\ job[t] # None
        /\ UNCHANGED <<gates, resolution>>
        /\ Typed
    BY InvParts DEF Nodes, At, Parts
  <1>3. r \in Results
    BY <1>2, CallGood DEF GoodCalls, Typed
  <1>4. r.out \in Outs /\ session' \in Sessions
    BY <1>1, <1>3, OutsHold DEF Results
  <1>5. Typed'
    <2>1. CASE UNCHANGED cache
      BY <1>2, <1>4, <2>1 DEF Typed, InventoryNamed
    <2>2. CASE ~UNCHANGED cache
      <3>1. PICK found \in Profiles \cup {"empty"} : cache' = [says |-> found, from |-> "http"]
        BY <1>1, <2>2
      <3>2. cache' \in Inventories /\ cache'.from = "http"
        BY <3>1 DEF Inventories, Interfaces
      <3> QED BY <1>2, <1>4, <3>2 DEF Typed, InventoryNamed
    <2> QED BY <2>1, <2>2
  <1>6. To(t, HttpEnded(t, r)) \/ ToSeen(t, HttpEnded(t, r))
    BY <1>1
  <1> QED BY <1>2, <1>4, <1>5, <1>6, HttpEndedGood, ToKeeps, ToSeenKeeps

LEMMA CloseKeeps ==
  ASSUME ReadsInv, NEW t \in Threads, Close(t)
  PROVE  ReadsInv'
  <1>1. PICK r \in Logout[session] : session' = r.session /\ To(t, Ended(job[t], r.out))
    BY DEF Close
  <1>2. Good(job[t]) /\ gates' = gates /\ cache' = None /\ resolution' = None
    BY JobGood DEF Close, At
  <1>3. r.out \in Outs /\ Typed'
    BY <1>1, <1>2, LogoutGood DEF Typed, InventoryNamed
  <1> QED BY <1>1, <1>2, <1>3, EndedGood, ToKeeps

\* The steps that open and leave a block under the lock.
LEMMA BlockSteps ==
  ASSUME ReadsInv, NEW t \in Threads, Open(t) \/ Hold(t) \/ Unlock(t)
  PROVE  ReadsInv'
  <1>1. job[t] # None /\ gates' = gates /\ UNCHANGED <<cache, resolution>> /\ Good(job[t])
    BY JobGood DEF Open, Hold, Unlock, At
  <1>2. ASSUME NEW out \in Outs, session' \in Sessions,
               job' = [job EXCEPT ![t] = Ended(job[t], out)],
               lock' = IF Ended(job[t], out).phase = "done" THEN None ELSE t
        PROVE  ReadsInv'
    <2>1. Typed' /\ Good(Ended(job[t], out)) /\ Ended(job[t], out) # None
      BY <1>1, <1>2, SessionTyped, EndedGood, GoodIsJob
    <2>2. lock' \in {lock, None, t} /\ (lock' = t => Ended(job[t], out).phase # "done")
      BY <1>2, NoneAssumption
    <2> QED BY <1>1, <1>2, <2>1, <2>2, StepKeeps
  <1>3. CASE Open(t)
    <2>1. PICK r \in Obtain[session] :
            /\ session' = r.session
            /\ job' = [job EXCEPT ![t] = Ended(job[t], r.out)]
            /\ lock' = IF Ended(job[t], r.out).phase = "done" THEN None ELSE t
      BY <1>3 DEF Open
    <2>2. r \in LoginResults
      BY InvParts, ObtainGood DEF Parts, Typed
    <2>3. r.out \in Outs /\ session' \in Sessions
      BY <2>1, <2>2, OutsHold DEF LoginResults
    <2> QED BY <1>2, <2>1, <2>3
  <1>4. CASE Hold(t)
    <2>1. PICK out \in {"ok"} \cup TmpErrors :
            /\ job' = [job EXCEPT ![t] = Ended(job[t], out)]
            /\ lock' = IF Ended(job[t], out).phase = "done" THEN None ELSE t
      BY <1>4 DEF Hold
    <2>2. out \in Outs /\ session' \in Sessions
      BY <1>4, InvParts, OutsHold DEF Hold, Parts, Typed
    <2> QED BY <1>2, <2>1, <2>2
  <1>5. CASE Unlock(t)
    <2>1. job' = [job EXCEPT ![t] = Advanced(job[t])] /\ lock' = None
      BY <1>5 DEF Unlock
    <2>2. Typed' /\ Good(Advanced(job[t]))
      BY <1>1, <1>5, QuietTyped, AdvancedGood DEF Unlock
    <2> QED BY <1>1, <2>1, <2>2, StepKeeps, NoneAssumption
  <1> QED BY <1>3, <1>4, <1>5

\* A thread that asks or that hands an answer over holds no lock.
LEMMA EdgeSteps ==
  ASSUME ReadsInv, NEW t \in Threads, Request(t) \/ Deliver(t)
  PROVE  ReadsInv'
  <1>1. Typed' /\ gates' = gates /\ lock' = lock
    BY QuietTyped DEF Request, Deliver
  <1>2. lock # t
    BY InvParts, NoneAssumption DEF Parts, LockInv, Request, Deliver
  <1>3. CASE Request(t)
    <2>1. PICK op \in Requests[t] : job' = [job EXCEPT ![t] = Begun(op)]
      BY <1>3 DEF Request
    <2>2. Good(Begun(op))
      BY BegunGood, RequestsAssumption
    <2> QED BY <1>1, <1>2, <2>1, <2>2, StepKeeps
  <1>4. CASE Deliver(t)
    <2>1. job' = [job EXCEPT ![t] = None]
      BY <1>4 DEF Deliver
    <2> QED BY <1>1, <1>2, <2>1, StepKeeps
  <1> QED BY <1>3, <1>4

LEMMA ExpireKeeps ==
  ASSUME ReadsInv, Expire
  PROVE  ReadsInv'
  <1>1. /\ session' \in Sessions
        /\ UNCHANGED <<gates, lock, cache, resolution, job>>
    BY DEF Expire, Sessions
  <1>2. Typed' /\ LockInv'
    BY <1>1, InvParts DEF Parts, Typed, InventoryNamed, LockInv
  <1>3. ThreadsGood'
    <2>1. SUFFICES ASSUME NEW u \in Threads, job'[u] # None
                   PROVE  Good(job[u])'
      BY DEF ThreadsGood
    <2>2. Good(job'[u])
      BY <1>1, <2>1, JobGood
    <2> QED BY <1>1, <2>2 DEF Good, Step
  <1> QED BY <1>1, <1>2, <1>3, InvParts, PartsNext DEF Parts

LEMMA StutterKeeps ==
  ASSUME ReadsInv, UNCHANGED vars
  PROVE  ReadsInv'
  <1>1. UNCHANGED <<gates, lock, cache, resolution, session, job>>
    BY DEF vars
  <1>2. Typed' /\ LockInv'
    BY <1>1, InvParts DEF Parts, Typed, InventoryNamed, LockInv
  <1>3. ThreadsGood'
    <2>1. SUFFICES ASSUME NEW u \in Threads, job'[u] # None
                   PROVE  Good(job[u])'
      BY DEF ThreadsGood
    <2>2. Good(job'[u])
      BY <1>1, <2>1, JobGood
    <2> QED BY <1>1, <2>2 DEF Good, Step
  <1> QED BY <1>1, <1>2, <1>3, InvParts, PartsNext DEF Parts

LEMMA NextKeeps ==
  ASSUME ReadsInv, [Next]_vars
  PROVE  ReadsInv'
  <1>1. CASE Expire
    BY <1>1, ExpireKeeps
  <1>2. CASE UNCHANGED vars
    BY <1>2, StutterKeeps
  <1>3. ASSUME NEW t \in Threads,
               Request(t) \/ Deliver(t) \/ Pass(t) \/ Gate(t) \/ Identity(t) \/ Snapshot(t) \/ Compare(t)
        PROVE  ReadsInv'
    BY <1>3, EdgeSteps, PlainSteps, IdentitySteps
  <1>4. ASSUME NEW t \in Threads, Routed(t)
        PROVE  ReadsInv'
    BY <1>4, IdentitySteps, ChoiceSteps, HttpReadKeeps, TmpReadKeeps DEF Routed
  <1>5. ASSUME NEW t \in Threads, OverClient(t)
        PROVE  ReadsInv'
    BY <1>5, ReadOnceKeeps, RetryKeeps, TmpReadKeeps, CallOnceKeeps, NodesKeeps, CloseKeeps, BlockSteps DEF OverClient
  <1>6. ASSUME NEW t \in Threads, TmpAlone(t)
        PROVE  ReadsInv'
    BY <1>6, BlockSteps, TmpReadKeeps DEF TmpAlone
  <1> QED BY <1>1, <1>2, <1>3, <1>4, <1>5, <1>6 DEF Next

\* Whatever the threads ask, however the calls end and whenever the router
\* forgets the session: the lock is held only by a request still in progress, a
\* request stays inside its steps, TMP is used only behind its gates, and no
\* inventory of the TMP interface is passed for one of HTTP.
THEOREM ReadsCorrect == Spec => []ReadsInv
  <1>1. Init => ReadsInv
    <2>1. SUFFICES ASSUME Init
                   PROVE  Parts
      BY IsParts
    <2> QED BY <2>1, GatesAssumption
            DEF Init, Parts, Typed, InventoryNamed, Sessions, LockInv, ThreadsGood
  <1>2. ReadsInv /\ [Next]_vars => ReadsInv'
    BY NextKeeps
  <1> QED BY <1>1, <1>2, PTL DEF Spec

-----------------------------------------------------------------------------
(* What a step does to its request.                                        *)

Advances(j, k) ==
  /\ k.out = "ok"
  /\ k.phase = "done" \/ (k.phase = "start" /\ k.at = j.at + 1)

\* The request ends with an error.
Quits(j, k) ==
  /\ k.phase = "done"
  /\ k.ctx = None
  /\ k.out \in SessionErrors /\ Step(j).do = "retry" => k.login
  /\ k.out \in SessionErrors => Step(j).do # "gate"

\* The step is left without a result that is kept.
Skips(j, k) ==
  /\ Advances(j, k)
  /\ k.ctx = j.ctx /\ k.used = j.used
  /\ Step(j).do # "snapshot" => k.shown = j.shown
  /\ k.phase = "start" => k.checked = j.checked
  /\ Sure(Step(j)) => Step(j).do \notin {"identity", "capability"}

\* The interface a step reads from.
ReadBy(j, via) ==
  \/ Step(j).do \in {"capability", "section"} /\ j.phase = via
  \/ Step(j).do \in HttpKinds /\ via = "http" /\ Applies(Step(j), j)
  \/ Step(j).do = "tmp" /\ j.phase = "tmp" /\ via = "tmp" /\ Applies(Step(j), j)

Answers(j, k) ==
  /\ Advances(j, k)
  /\ k.shown = j.shown
  /\ k.phase = "start" => k.checked = j.checked
  /\ \E via \in Interfaces :
       /\ ReadBy(j, via)
       /\ k.used = j.used \cup {via}
       /\ k.ctx = IF Step(j).do = "capability" THEN via ELSE j.ctx

\* The inventory answers the step, or is found to be the exact profile's: the
\* interface it is said to come from is the context when there was none.
ByInventory(s) == s.do = "identity" \/ (s.do = "capability" /\ s.arg = "mesh_nodes")

Identifies(j, k) ==
  /\ Advances(j, k)
  /\ k.used = j.used
  /\ IF Step(j).do = "identity" /\ Step(j).arg = "exact"
     THEN k.ctx = j.ctx /\ k.shown = j.shown /\ (k.phase = "start" => k.checked)
     ELSE /\ ByInventory(Step(j))
          /\ k.phase = "start" => k.checked = j.checked
          /\ \E via, from \in Interfaces :
               /\ via = "http" => from = "http"
               /\ k.ctx = IF Step(j).do = "capability" \/ j.ctx = None THEN via ELSE j.ctx
               /\ k.shown \in {j.shown, j.shown \cup {from}}

\* The step goes on over TMP, or over HTTP.
TurnsToTmp(j, k) ==
  /\ k.phase = "tmp"
  /\ \/ /\ Step(j).do \in {"capability", "section"}
        /\ k.checked
        /\ Step(j).do = "section" => j.ctx # "http"
     \/ Step(j).do = "tmp" /\ k.checked = j.checked /\ Applies(Step(j), j)

TurnsToHttp(j, k) ==
  /\ k.phase \in {"route", "http", "eligible"}
  /\ k.checked = j.checked
  /\ \/ Step(j).do = "capability" /\ (TmpOnly(Step(j)) => j.phase \in {"route", "http"})
     \/ Step(j).do = "section" /\ k.phase = "http" /\ j.ctx = "http"

Stays(j, k) ==
  /\ k.at = j.at /\ k.ctx = j.ctx /\ k.used = j.used /\ k.shown = j.shown
  /\ TurnsToTmp(j, k) \/ TurnsToHttp(j, k)

Stepped(j, k) ==
  /\ k.op = j.op
  /\ \/ Quits(j, k)
     \/ Skips(j, k)
     \/ Answers(j, k)
     \/ Identifies(j, k)
     \/ Stays(j, k)

LEMMA AdvancedFields ==
  ASSUME NEW j, Good(j)
  PROVE  /\ Advances(j, Advanced(j))
         /\ Advanced(j).op = j.op
         /\ Advanced(j).ctx = j.ctx
         /\ Advanced(j).used = j.used /\ Advanced(j).shown = j.shown
         /\ Advanced(j).phase = "start" => Advanced(j).checked = j.checked
  <1>1. j \in Jobs
    BY DEF Good
  <1>2. CASE j.at = Len(Program[j.op])
    <2> DEFINE k == [j EXCEPT !.phase = "done", !.out = "ok", !.login = FALSE,
                              !.checked = FALSE, !.seen = FALSE]
    <2>1. /\ k.phase = "done" /\ k.out = "ok" /\ k.op = j.op /\ k.ctx = j.ctx
          /\ k.used = j.used /\ k.shown = j.shown
      BY <1>1 DEF Jobs
    <2>2. Advanced(j) = k
      BY <1>2 DEF Advanced
    <2> HIDE DEF k
    <2> QED BY <2>1, <2>2 DEF Advances
  <1>3. CASE j.at # Len(Program[j.op])
    <2> DEFINE k == [j EXCEPT !.at = j.at + 1, !.phase = "start", !.out = "ok", !.login = FALSE]
    <2>1. /\ k.phase = "start" /\ k.at = j.at + 1 /\ k.out = "ok" /\ k.checked = j.checked
          /\ k.op = j.op /\ k.ctx = j.ctx /\ k.used = j.used /\ k.shown = j.shown
      BY <1>1 DEF Jobs
    <2>2. Advanced(j) = k
      BY <1>3 DEF Advanced
    <2> HIDE DEF k
    <2> QED BY <2>1, <2>2 DEF Advances
  <1> QED BY <1>2, <1>3

LEMMA RaisedFields ==
  ASSUME NEW j, Good(j), NEW out
  PROVE  LET k == Raised(j, out)
         IN  /\ k.op = j.op /\ k.phase = "done" /\ k.ctx = None
             /\ k.login = j.login /\ k.out = out
  BY DEF Raised, Begun

\* A step that cannot be passed by is left only with its result.
LEMMA SkipStepped ==
  ASSUME NEW j, Good(j), Sure(Step(j)) => Step(j).do \notin {"identity", "capability"}
  PROVE  Stepped(j, Advanced(j))
  BY AdvancedFields DEF Stepped, Skips

LEMMA LoginGood ==
  ASSUME NEW j, Good(j), NEW b \in BOOLEAN
  PROVE  LET i == [j EXCEPT !.login = b]
         IN  /\ Good(i)
             /\ Step(i) = Step(j) /\ i.op = j.op /\ i.at = j.at /\ i.ctx = j.ctx
             /\ i.used = j.used /\ i.shown = j.shown /\ i.checked = j.checked /\ i.login = b
  BY DEF Good, Jobs, Step

LEMMA LoginFailedStepped ==
  ASSUME NEW j, Good(j), NEW out, NEW b \in BOOLEAN,
         out \in SessionErrors /\ Step(j).do = "retry" => b,
         out \in SessionErrors => Step(j).do # "gate"
  PROVE  Stepped(j, Failed([j EXCEPT !.login = b], out))
  <1> DEFINE i == [j EXCEPT !.login = b]
  <1>1. /\ Good(i)
        /\ Step(i) = Step(j) /\ i.op = j.op /\ i.at = j.at /\ i.ctx = j.ctx
        /\ i.used = j.used /\ i.shown = j.shown /\ i.checked = j.checked /\ i.login = b
    BY LoginGood
  <1> HIDE DEF i
  <1>2. CASE Step(i).soft /\ out # "broken"
    <2>1. Failed(i, out) = Advanced(i)
      BY <1>2 DEF Failed
    <2>2. Skips(j, Advanced(i)) /\ Advanced(i).op = j.op
      BY <1>1, <1>2, AdvancedFields DEF Skips, Advances, Sure
    <2> QED BY <2>1, <2>2 DEF Stepped, i
  <1>3. CASE ~(Step(i).soft /\ out # "broken")
    <2>1. Failed(i, out) = Raised(i, out)
      BY <1>3 DEF Failed
    <2>2. Quits(j, Raised(i, out)) /\ Raised(i, out).op = j.op
      BY <1>1, RaisedFields DEF Quits
    <2> QED BY <2>1, <2>2 DEF Stepped, i
  <1> QED BY <1>2, <1>3 DEF i

LEMMA FailedStepped ==
  ASSUME NEW j, Good(j), NEW out, Step(j).do # "retry",
         out \in SessionErrors => Step(j).do # "gate"
  PROVE  Stepped(j, Failed(j, out))
  <1>1. j.login \in BOOLEAN /\ j = [j EXCEPT !.login = j.login]
    BY DEF Good, Jobs
  <1> QED BY <1>1, LoginFailedStepped

LEMMA EndedStepped ==
  ASSUME NEW j, Good(j), NEW out,
         Step(j).do \notin {"retry", "gate", "identity", "capability"}
  PROVE  Stepped(j, Ended(j, out))
  BY SkipStepped, FailedStepped DEF Ended

\* The result of a read is kept, with the interface it came from.
LEMMA FromStepped ==
  ASSUME NEW j, Good(j), NEW via \in Interfaces, ReadBy(j, via)
  PROVE  /\ Stepped(j, Answered(j, via))
         /\ Step(j).do # "capability" => Stepped(j, Advanced(From(via, j)))
  <1>1. ASSUME NEW i, Good(i), i.op = j.op, i.at = j.at, i.used = j.used, i.checked = j.checked,
               i.shown = j.shown,
               i.ctx = IF Step(j).do = "capability" THEN via ELSE j.ctx
        PROVE  Stepped(j, Advanced(From(via, i)))
    <2> DEFINE f == From(via, i)
    <2>1. Good(f)
      BY <1>1, FromGood
    <2>2. /\ f.op = i.op /\ f.at = i.at /\ f.used = i.used \cup {via}
          /\ f.checked = i.checked /\ f.ctx = i.ctx /\ f.shown = i.shown
      BY <1>1 DEF From, Good, Jobs
    <2> HIDE DEF f
    <2>3. Answers(j, Advanced(f)) /\ Advanced(f).op = j.op
      BY <1>1, <2>1, <2>2, AdvancedFields DEF Answers, Advances
    <2> QED BY <2>3 DEF Stepped, f
  <1>2. CASE Step(j).do = "capability"
    <2> DEFINE i == [j EXCEPT !.ctx = via]
    <2>1. /\ Good(i)
          /\ i.op = j.op /\ i.at = j.at /\ i.used = j.used /\ i.checked = j.checked /\ i.ctx = via
          /\ i.shown = j.shown
      BY ContextGood
    <2> HIDE DEF i
    <2>2. Stepped(j, Advanced(From(via, i)))
      BY <1>1, <1>2, <2>1
    <2> QED BY <1>2, <2>2 DEF Answered, i
  <1>3. CASE Step(j).do # "capability"
    BY <1>1, <1>3 DEF Answered
  <1> QED BY <1>2, <1>3

LEMMA OverTmpStepped ==
  ASSUME NEW j, Good(j), NEW found, found = "exact",
         Step(j).do \in {"capability", "section"}, Step(j).do = "section" => j.ctx # "http"
  PROVE  Stepped(j, OverTmpNext(j, found))
  <1> DEFINE k == [j EXCEPT !.phase = "tmp", !.checked = found = "exact"]
  <1>1. /\ k.op = j.op /\ k.at = j.at /\ k.ctx = j.ctx /\ k.used = j.used /\ k.shown = j.shown
        /\ k.phase = "tmp" /\ k.checked = (found = "exact")
    BY DEF Good, Jobs
  <1>2. OverTmpNext(j, found) = k
    BY DEF OverTmpNext
  <1> HIDE DEF k
  <1> QED BY <1>1, <1>2 DEF Stepped, Stays, TurnsToTmp

LEMMA PhaseStepped ==
  ASSUME NEW j, Good(j), NEW phase \in {"route", "http"},
         \/ Step(j).do = "capability" /\ (TmpOnly(Step(j)) => j.phase \in {"route", "http"})
         \/ Step(j).do = "section" /\ phase = "http" /\ j.ctx = "http"
  PROVE  Stepped(j, [j EXCEPT !.phase = phase])
  <1> DEFINE k == [j EXCEPT !.phase = phase]
  <1>1. /\ k.op = j.op /\ k.at = j.at /\ k.ctx = j.ctx /\ k.used = j.used /\ k.shown = j.shown
        /\ k.phase = phase /\ k.checked = j.checked
    BY DEF Good, Jobs
  <1> HIDE DEF k
  <1>2. Stepped(j, k)
    BY <1>1 DEF Stepped, Stays, TurnsToHttp
  <1> QED BY <1>2 DEF k

\* The interface an inventory is said to come from, and the one it came from.
Named(inventory, via) == inventory \in Inventories /\ (via = "http" => inventory.from = "http")

\* The inventory is the answer of mesh_nodes, and part of that of network_status
\* and configuration.
LEMMA ShownStepped ==
  ASSUME NEW j, Good(j), NEW inventory, NEW via \in Interfaces, Named(inventory, via),
         ByInventory(Step(j)), Step(j).do = "identity" => Step(j).arg # "exact"
  PROVE  LET i == [j EXCEPT !.ctx = IF Step(j).do = "capability" \/ j.ctx = None THEN via ELSE j.ctx]
         IN  Stepped(j, Advanced(i)) /\ Stepped(j, Advanced(Showing(inventory, i)))
  <1> DEFINE ctx == IF Step(j).do = "capability" \/ j.ctx = None THEN via ELSE j.ctx
             i == [j EXCEPT !.ctx = ctx]
             f == Showing(inventory, i)
  <1>1. inventory \in Inventories /\ inventory.from \in Interfaces /\ (via = "http" => inventory.from = "http")
    BY DEF Named, Inventories
  <1>2. ctx \in Interfaces
    BY DEF Good, Jobs
  <1>3. /\ Good(i)
        /\ i.op = j.op /\ i.at = j.at /\ i.ctx = ctx /\ i.used = j.used
        /\ i.checked = j.checked /\ i.shown = j.shown
    BY <1>2, ContextGood
  <1> HIDE DEF i
  <1>4. /\ Good(f)
        /\ f.op = j.op /\ f.at = j.at /\ f.ctx = ctx /\ f.used = j.used
        /\ f.checked = j.checked /\ f.shown = j.shown \cup {inventory.from}
    BY <1>1, <1>3, ShowingGood
  <1> HIDE DEF f
  <1>5. ASSUME NEW g, Good(g), g.op = j.op, g.at = j.at, g.ctx = ctx, g.used = j.used,
               g.checked = j.checked, g.shown \in {j.shown, j.shown \cup {inventory.from}}
        PROVE  Stepped(j, Advanced(g))
    <2>1. /\ Advances(j, Advanced(g)) /\ Advanced(g).op = j.op
          /\ Advanced(g).ctx = ctx /\ Advanced(g).used = j.used /\ Advanced(g).shown = g.shown
          /\ Advanced(g).phase = "start" => Advanced(g).checked = j.checked
      BY <1>5, AdvancedFields DEF Advances
    <2>2. Identifies(j, Advanced(g))
      BY <1>1, <1>5, <2>1 DEF Identifies
    <2> QED BY <2>1, <2>2 DEF Stepped
  <1> QED BY <1>3, <1>4, <1>5 DEF i, f

LEMMA OnwardStepped ==
  ASSUME NEW j, Good(j), NEW inventory, NEW via \in Interfaces, Named(inventory, via),
         Step(j).do \in {"capability", "identity"}
  PROVE  Stepped(j, Onward(j, inventory, via))
  <1>0. "permission" \notin SessionErrors
    BY DEF SessionErrors
  <1>1. CASE Step(j).do = "capability"
    <2>1. CASE Step(j).arg = "mesh_nodes"
      <3>1. Onward(j, inventory, via) = Advanced(Showing(inventory, [j EXCEPT !.ctx = via]))
        BY <1>1, <2>1 DEF Onward, AfterInventory
      <3>2. ByInventory(Step(j))
        BY <1>1, <2>1 DEF ByInventory
      <3> QED BY <1>1, <3>1, <3>2, ShownStepped
    <2>2. CASE Step(j).arg # "mesh_nodes" /\ Step(j).arg \in TmpPrimary /\ inventory.says = "exact"
      BY <1>1, <2>2, OverTmpStepped DEF Onward, AfterInventory
    <2>3. CASE Step(j).arg # "mesh_nodes" /\ Step(j).arg \in TmpPrimary /\ inventory.says # "exact"
      BY <1>0, <1>1, <2>3, FailedStepped DEF Onward, AfterInventory
    <2>4. CASE Step(j).arg # "mesh_nodes" /\ Step(j).arg \notin TmpPrimary
      <3>1. ~TmpOnly(Step(j))
        BY <2>4 DEF TmpOnly
      <3>2. Onward(j, inventory, via) = [j EXCEPT !.phase = IF via = "tmp" THEN "route" ELSE "http"]
        BY <1>1, <2>4 DEF Onward, AfterInventory
      <3> QED BY <1>1, <3>1, <3>2, PhaseStepped
    <2> QED BY <1>1, <2>1, <2>2, <2>3, <2>4
  <1>2. CASE Step(j).do = "identity"
    <2>1. CASE Step(j).arg = "exact" /\ inventory.says # "exact"
      BY <1>0, <1>2, <2>1, FailedStepped DEF Onward, AfterIdentity
    <2>2. CASE Step(j).arg = "exact" /\ inventory.says = "exact"
      <3> DEFINE i == [j EXCEPT !.checked = TRUE]
      <3>1. /\ Good(i)
            /\ i.op = j.op /\ i.at = j.at /\ i.used = j.used /\ i.ctx = j.ctx /\ i.checked = TRUE
            /\ i.shown = j.shown
        BY DEF Good, Jobs, Step
      <3>2. Onward(j, inventory, via) = Advanced(i)
        BY <1>2, <2>2 DEF Onward, AfterIdentity
      <3> HIDE DEF i
      <3>3. Identifies(j, Advanced(i)) /\ Advanced(i).op = j.op
        BY <1>2, <2>2, <3>1, AdvancedFields DEF Identifies, Advances
      <3> QED BY <3>2, <3>3 DEF Stepped
    <2>3. CASE Step(j).arg # "exact"
      <3> DEFINE i == [j EXCEPT !.ctx = IF j.ctx = None THEN via ELSE j.ctx]
      <3>1. \/ Onward(j, inventory, via) = Advanced(i)
            \/ Onward(j, inventory, via) = Advanced(Showing(inventory, i))
        BY <1>2, <2>3 DEF Onward, AfterIdentity
      <3>2. ByInventory(Step(j))
        BY <1>2 DEF ByInventory
      <3> QED BY <1>2, <2>3, <3>1, <3>2, ShownStepped
    <2> QED BY <1>2, <2>1, <2>2, <2>3
  <1> QED BY <1>1, <1>2

-----------------------------------------------------------------------------
(* What a step does to all the requests.                                   *)

\* Nothing but that the inventory was read.
Same(j, k) ==
  /\ k.op = j.op /\ k.at = j.at /\ k.phase = j.phase /\ k.ctx = j.ctx /\ k.used = j.used
  /\ k.shown = j.shown /\ k.checked = j.checked /\ k.login = j.login /\ k.out = j.out

\* A request that has its snapshot to take knows of the inventory.
Shown(k) == Step(k).do = "snapshot" => k.seen

\* A step of t that leaves the inventory or clears it, and passes by no demand
\* for a new one.
OldStep(t) ==
  /\ cache' \in {cache, None}
  /\ \A u \in Threads \ {t} : job'[u] = job[u]
  /\ LET s == Step(job[t])
         k == job'[t]
     IN  Sure(s) /\ s.do = "identity" /\ s.arg = "fresh" => Quits(job[t], k)

\* A step that read the inventory.
NewStep(t) ==
  \A u \in Threads :
    job'[u] # None =>
      /\ Shown(job'[u])
      /\ u # t => Same(job[u], job'[u])

OwnStep(t) ==
  /\ job[t] # None /\ job'[t] # None
  /\ job[t].phase # "done"
  /\ Stepped(job[t], job'[t])
  /\ \A u \in Threads \ {t} : job'[u] = None <=> job[u] = None
  /\ OldStep(t) \/ NewStep(t)

\* A thread begins a request or has handed its answer over.
EdgeStep(t) ==
  /\ cache' = cache
  /\ \A u \in Threads \ {t} : job'[u] = job[u]
  /\ job'[t] = None \/ \E op \in DOMAIN Program : job'[t] = Begun(op)

LEMMA ToOwn ==
  ASSUME ReadsInv, NEW t \in Threads, job[t] # None, job[t].phase # "done",
         NEW k, Good(k), Stepped(job[t], k), job' = [job EXCEPT ![t] = k],
         cache' \in {cache, None},
         LET s == Step(job[t])
         IN  Sure(s) /\ s.do = "identity" /\ s.arg = "fresh" => Quits(job[t], k)
  PROVE  OwnStep(t)
  <1>1. job \in [Threads -> Jobs \cup {None}] /\ k # None
    BY InvParts, GoodIsJob DEF Parts
  <1>2. job'[t] = k /\ \A u \in Threads \ {t} : job'[u] = job[u]
    BY <1>1
  <1> QED BY <1>1, <1>2 DEF OwnStep, OldStep

LEMMA SeenFields ==
  ASSUME NEW j, Good(j)
  PROVE  /\ Seen(j) # None /\ Good(Seen(j))
         /\ Same(j, Seen(j))
         /\ Shown(Seen(j))
  <1>1. Seen(j) # None /\ Good(Seen(j)) /\ j # None
    BY SeenGood, GoodIsJob
  <1>2. CASE \E i \in DOMAIN Program[j.op] : i >= j.at /\ Program[j.op][i].do = "snapshot"
    <2> DEFINE k == [j EXCEPT !.seen = TRUE]
    <2>1. k.seen = TRUE /\ Same(j, k)
      BY DEF Good, Jobs, Same
    <2>2. Seen(j) = k
      BY <1>1, <1>2 DEF Seen
    <2> HIDE DEF k
    <2> QED BY <1>1, <2>1, <2>2 DEF Shown
  <1>3. CASE ~ \E i \in DOMAIN Program[j.op] : i >= j.at /\ Program[j.op][i].do = "snapshot"
    <2>1. Seen(j) = j
      BY <1>3 DEF Seen
    <2>2. j.at \in DOMAIN Program[j.op] /\ j.at >= j.at
      BY DEF Good, Jobs
    <2> QED BY <1>1, <1>3, <2>1, <2>2 DEF Same, Shown, Step
  <1> QED BY <1>2, <1>3

LEMMA SameStepped ==
  ASSUME NEW j, NEW k, NEW i, Stepped(j, k), Same(k, i)
  PROVE  Stepped(j, i)
  BY DEF Same, Stepped, Quits, Skips, Answers, Identifies, Stays, TurnsToTmp, TurnsToHttp, Advances

LEMMA ToSeenOwn ==
  ASSUME ReadsInv, NEW t \in Threads, job[t] # None, job[t].phase # "done",
         NEW k, Good(k), Stepped(job[t], k), ToSeen(t, k)
  PROVE  OwnStep(t)
  <1>1. \A u \in Threads : job'[u] = Seen(IF u = t THEN k ELSE job[u])
    BY DEF ToSeen
  <1>2. job'[t] = Seen(k) /\ job'[t] # None /\ Stepped(job[t], job'[t]) /\ Shown(job'[t])
    BY <1>1, SeenFields, SameStepped
  <1>3. ASSUME NEW u \in Threads \ {t}
        PROVE  /\ job'[u] = None <=> job[u] = None
               /\ job'[u] # None => Shown(job'[u]) /\ Same(job[u], job'[u])
    <2>1. job'[u] = Seen(job[u])
      BY <1>1, <1>3
    <2>2. CASE job[u] = None
      BY <2>1, <2>2 DEF Seen
    <2>3. CASE job[u] # None
      BY <2>1, <2>3, <1>3, JobGood, SeenFields
    <2> QED BY <2>2, <2>3
  <1>4. NewStep(t)
    BY <1>2, <1>3 DEF NewStep
  <1> QED BY <1>2, <1>3, <1>4 DEF OwnStep

\* A step of t under To, when it is no demand for a new inventory.
LEMMA ToStep ==
  ASSUME ReadsInv, NEW t \in Threads, job[t] # None, job[t].phase # "done",
         NEW k, Good(k), Stepped(job[t], k), To(t, k), cache' \in {cache, None},
         Step(job[t]).do # "identity" \/ ~Sure(Step(job[t]))
  PROVE  OwnStep(t)
  BY ToOwn DEF To

LEMMA PlainOwn ==
  ASSUME ReadsInv, NEW t \in Threads, Pass(t) \/ Gate(t) \/ Snapshot(t) \/ Compare(t)
  PROVE  OwnStep(t)
  <1> DEFINE j == job[t]
  <1>1. /\ j # None /\ j.phase = "start" /\ Good(j)
        /\ cache' = cache
    BY JobGood DEF Pass, Gate, Snapshot, Compare, At
  <1>2. /\ {"permission", "value"} \subseteq Outs
        /\ "permission" \notin SessionErrors /\ "value" \notin SessionErrors
    BY OutsHold DEF TmpErrors, SessionErrors
  <1>3. Good(Advanced(j)) /\ Good(Failed(j, "permission")) /\ Good(Failed(j, "value"))
    BY <1>1, <1>2, AdvancedGood, FailedGood
  <1>4. CASE Pass(t)
    <2>1. ~Sure(Step(j)) /\ To(t, Advanced(j))
      BY <1>4 DEF Pass, Applies, Sure
    <2> QED BY <1>1, <1>3, <2>1, SkipStepped, ToStep
  <1>5. CASE Gate(t) \/ Compare(t)
    <2>1. /\ Step(j).do \in {"gate", "compare"}
          /\ \/ To(t, Advanced(j))
             \/ To(t, Failed(j, "permission"))
             \/ To(t, Failed(j, "value"))
      BY <1>5 DEF Gate, Compare, At, Ended
    <2> QED BY <1>1, <1>2, <1>3, <2>1, SkipStepped, FailedStepped, ToStep
  <1>6. CASE Snapshot(t)
    <2> DEFINE i == Showing(cache, j)
    <2>1. /\ Step(j).do = "snapshot"
          /\ To(t, Failed(j, "value")) \/ (cache \in Inventories /\ To(t, Advanced(i)))
      BY <1>6, SnapshotForms DEF Snapshot, At
    <2>2. ASSUME cache \in Inventories
          PROVE  Good(Advanced(i)) /\ Stepped(j, Advanced(i))
      <3>1. /\ Good(i)
            /\ i.op = j.op /\ i.at = j.at /\ i.ctx = j.ctx /\ i.used = j.used /\ i.checked = j.checked
        BY <1>1, <2>2, ShowingGood
      <3> HIDE DEF i
      <3>2. Skips(j, Advanced(i)) /\ Advanced(i).op = j.op
        BY <2>1, <3>1, AdvancedFields DEF Skips, Advances
      <3> QED BY <3>1, <3>2, AdvancedGood DEF Stepped
    <2> QED BY <1>1, <1>2, <1>3, <2>1, <2>2, FailedStepped, ToStep
  <1> QED BY <1>4, <1>5, <1>6

\* device_inventory inside a step: a demand for a new inventory reads it or fails.
LEMMA IdentifiedOwn ==
  ASSUME ReadsInv, NEW t \in Threads, job[t] # None, job[t].phase = "start",
         Step(job[t]).do \in {"capability", "identity"},
         Step(job[t]).do = "capability" => Passes(Step(job[t]).arg),
         NEW fresh \in BOOLEAN, Identified(t, fresh),
         Step(job[t]).do = "identity" /\ Step(job[t]).arg = "fresh" => fresh
  PROVE  OwnStep(t)
  <1> DEFINE j == job[t]
  <1>1. Good(j) /\ Typed
    BY JobGood, InvParts DEF Parts
  <1>2. ASSUME NEW out \in Outs, To(t, Failed(j, out)), cache' = cache
        PROVE  OwnStep(t)
    <2>1. Good(Failed(j, out)) /\ Stepped(j, Failed(j, out))
      BY <1>1, <1>2, FailedGood, FailedStepped
    <2>2. ASSUME Sure(Step(j))
          PROVE  Quits(j, Failed(j, out))
      BY <1>1, <2>2, RaisedFields DEF Failed, Sure, Quits
    <2> QED BY <1>1, <1>2, <2>1, <2>2, ToOwn DEF To
  <1>3. CASE cache # None /\ ~fresh
    <2>1. CASE InventoryResult = "ok"
      <3>1. To(t, Onward(j, cache, IdentityInterface)) /\ cache' = cache
        BY <1>3, <2>1 DEF Identified
      <3>2. IdentityInterface \in Interfaces /\ cache \in Inventories /\ Named(cache, IdentityInterface)
        BY <1>1, <1>3, NoneAssumption DEF Typed, InventoryNamed, IdentityInterface, Interfaces, Named
      <3>3. Good(Onward(j, cache, IdentityInterface)) /\ Stepped(j, Onward(j, cache, IdentityInterface))
        BY <1>1, <3>2, OnwardGood, OnwardStepped
      <3>4. ~(Step(j).do = "identity" /\ Step(j).arg = "fresh")
        BY <1>3
      <3> QED BY <1>1, <3>1, <3>3, <3>4, ToOwn DEF To
    <2>2. CASE InventoryResult # "ok"
      <3>1. To(t, Failed(j, InventoryResult)) /\ InventoryResult \in Outs /\ cache' = cache
        BY <1>3, <2>2, OutsHold DEF Identified, InventoryResult, TmpErrors
      <3> QED BY <1>2, <3>1
    <2> QED BY <2>1, <2>2
  <1>4. CASE ~(cache # None /\ ~fresh)
    <2>1. PICK r \in ResolveResults :
            IF r.out = "ok"
            THEN \E found \in Profiles : ToSeen(t, Onward(j, [says |-> found, from |-> r.via], r.via))
            ELSE To(t, Failed(j, r.out)) /\ UNCHANGED cache
      BY <1>4 DEF Identified
    <2>2. r.out \in Outs /\ r.via \in Interfaces
      BY ResolveGood
    <2>3. CASE r.out = "ok"
      <3>1. PICK found \in Profiles : ToSeen(t, Onward(j, [says |-> found, from |-> r.via], r.via))
        BY <2>1, <2>3
      <3> DEFINE inventory == [says |-> found, from |-> r.via]
      <3>2. inventory \in Inventories /\ Named(inventory, r.via)
        BY <2>2 DEF Inventories, Named
      <3> HIDE DEF inventory
      <3>3. Good(Onward(j, inventory, r.via)) /\ Stepped(j, Onward(j, inventory, r.via))
        BY <1>1, <2>2, <3>2, OnwardGood, OnwardStepped
      <3> QED BY <3>1, <3>3, ToSeenOwn DEF inventory
    <2>4. CASE r.out # "ok"
      BY <1>2, <2>1, <2>2, <2>4
    <2> QED BY <2>3, <2>4
  <1> QED BY <1>3, <1>4

LEMMA IdentityOwn ==
  ASSUME ReadsInv, NEW t \in Threads, Identity(t) \/ Capability(t)
  PROVE  OwnStep(t)
  <1>1. CASE Identity(t)
    <2>1. /\ job[t] # None /\ job[t].phase = "start" /\ Step(job[t]).do = "identity"
          /\ Identified(t, Step(job[t]).arg = "fresh")
      BY <1>1 DEF Identity, At
    <2>2. (Step(job[t]).arg = "fresh") \in BOOLEAN
      OBVIOUS
    <2> QED BY <2>1, <2>2, IdentifiedOwn
  <1>2. CASE Capability(t)
    <2>1. job[t] # None /\ job[t].phase = "start" /\ Step(job[t]).do = "capability"
      BY <1>2 DEF Capability, At
    <2>2. CASE Passes(Cap(t))
      <3>1. Identified(t, FALSE) /\ Passes(Step(job[t]).arg)
        BY <1>2, <2>2 DEF Capability, Cap
      <3> QED BY <2>1, <3>1, IdentifiedOwn
    <2>3. CASE ~Passes(Cap(t))
      <3>1. To(t, Failed(job[t], "permission")) /\ cache' = cache
        BY <1>2, <2>3 DEF Capability
      <3>2. "permission" \in Outs /\ "permission" \notin SessionErrors
        BY OutsHold DEF SessionErrors
      <3> QED BY <2>1, <3>1, <3>2, JobGood, FailedGood, FailedStepped, ToStep
    <2> QED BY <2>2, <2>3
  <1> QED BY <1>1, <1>2

\* The choice of the interface.
LEMMA ChoiceOwn ==
  ASSUME ReadsInv, NEW t \in Threads, Route(t) \/ Section(t) \/ Direct(t) \/ Fallback(t)
  PROVE  OwnStep(t)
  <1> DEFINE j == job[t]
  <1>1. /\ j # None /\ j.phase # "done" /\ Good(j) /\ cache' = cache
        /\ Applies(Step(j), j)
    BY JobGood DEF Route, Section, Direct, Fallback, At
  <1>2. {"permission", "value"} \cup {j.out} \subseteq Outs
    BY <1>1, OutsHold DEF TmpErrors, Good, Jobs
  <1>3. ASSUME NEW out \in Outs, To(t, Failed(j, out)), Step(j).do \in {"capability", "section", "tmp"}
        PROVE  OwnStep(t)
    BY <1>1, <1>3, FailedGood, FailedStepped, ToStep
  <1>4. ASSUME NEW k, To(t, k), Stepped(j, k), Step(j).do \in {"capability", "section", "tmp"}, Good(k)
        PROVE  OwnStep(t)
    BY <1>1, <1>4, ToStep
  <1>5. ASSUME Eligible(Cap(t)), Step(j).do \in {"capability", "section"},
               Step(j).do = "section" => j.ctx # "http"
        PROVE  Good(OverTmpNext(j, cache.says)) /\ Stepped(j, OverTmpNext(j, cache.says))
    <2>1. cache.says = "exact" /\ gates.tmp /\ (Step(j).arg \in Secret => gates.sensitive)
      BY <1>5 DEF Eligible, Cap
    <2> QED BY <1>1, <1>5, <2>1, OverTmpGood, OverTmpStepped
  <1>6. Good([j EXCEPT !.phase = "http"])
    BY <1>1, PhaseGood DEF Phases
  <1>7. CASE Route(t)
    <2>1. /\ Step(j).do = "capability" /\ j.phase = "route"
          /\ \/ To(t, Failed(j, "value"))
             \/ Eligible(Cap(t)) /\ To(t, OverTmpNext(j, cache.says))
             \/ To(t, [j EXCEPT !.phase = "http"])
      BY <1>7 DEF Route, At
    <2>2. Stepped(j, [j EXCEPT !.phase = "http"])
      BY <1>1, <2>1, PhaseStepped
    <2> QED BY <1>2, <1>3, <1>4, <1>5, <1>6, <2>1, <2>2
  <1>8. CASE Section(t)
    <2>1. /\ Step(j).do = "section"
          /\ \/ To(t, Failed(j, "permission"))
             \/ To(t, Failed(j, "value"))
             \/ j.ctx # "http" /\ Eligible(Cap(t)) /\ To(t, OverTmpNext(j, cache.says))
             \/ j.ctx = "http" /\ To(t, [j EXCEPT !.phase = "http"])
      BY <1>8 DEF Section, At
    <2>2. j.ctx = "http" => Stepped(j, [j EXCEPT !.phase = "http"])
      BY <1>1, <2>1, PhaseStepped
    <2> QED BY <1>2, <1>3, <1>4, <1>5, <1>6, <2>1, <2>2
  <1>9. CASE Direct(t)
    <2> DEFINE k == [j EXCEPT !.phase = "tmp"]
    <2>1. /\ Step(j).do = "tmp"
          /\ \/ To(t, Failed(j, "permission"))
             \/ /\ gates.tmp /\ (Cap(t) \in Secret => gates.sensitive)
                /\ To(t, k)
      BY <1>9 DEF Direct, At
    <2>2. /\ k.op = j.op /\ k.at = j.at /\ k.ctx = j.ctx /\ k.used = j.used /\ k.shown = j.shown
          /\ k.phase = "tmp" /\ k.checked = j.checked
          /\ gates.tmp /\ (Cap(t) \in Secret => gates.sensitive) => Good(k)
      BY <1>1 DEF Good, Jobs, Phases, Step, Cap
    <2> HIDE DEF k
    <2>3. Stepped(j, k)
      BY <1>1, <2>1, <2>2 DEF Stepped, Stays, TurnsToTmp
    <2> QED BY <1>2, <1>3, <1>4, <2>1, <2>2, <2>3
  <1>10. CASE Fallback(t)
    <2>1. /\ Step(j).do = "capability"
          /\ \/ To(t, Failed(j, "value"))
             \/ Eligible(Cap(t)) /\ To(t, OverTmpNext(j, cache.says))
             \/ To(t, Failed(j, j.out))
      BY <1>10 DEF Fallback, At
    <2> QED BY <1>2, <1>3, <1>4, <1>5, <2>1
  <1> QED BY <1>7, <1>8, <1>9, <1>10

LEMMA HttpEndedStepped ==
  ASSUME NEW t, Good(job[t]), NEW r,
         Step(job[t]).do \in {"read", "call", "nodes"}, Applies(Step(job[t]), job[t])
  PROVE  Stepped(job[t], HttpEnded(t, r))
  <1>1. ReadBy(job[t], "http") /\ "http" \in Interfaces
    BY DEF ReadBy, HttpKinds, Interfaces
  <1> QED BY <1>1, FromStepped, FailedStepped DEF HttpEnded

LEMMA HttpReadOwn ==
  ASSUME ReadsInv, NEW t \in Threads, HttpRead(t)
  PROVE  OwnStep(t)
  <1> DEFINE j == job[t]
             k(r) == [j EXCEPT !.phase = "eligible", !.out = r.out]
  <1>1. PICK r \in Read[session] :
          \/ To(t, Answered(j, "http"))
          \/ Step(j).do = "capability" /\ To(t, k(r))
          \/ To(t, Failed(j, r.out))
    BY DEF HttpRead
  <1>2. /\ Good(j) /\ j # None /\ j.phase = "http" /\ cache' = cache
        /\ Step(j).do \in {"capability", "section"}
    BY JobGood DEF HttpRead, At
  <1>3. r.out \in Outs /\ "http" \in Interfaces
    BY ReadGood DEF Interfaces
  <1>4. Good(Answered(j, "http")) /\ Stepped(j, Answered(j, "http"))
    BY <1>2, <1>3, AnsweredGood, FromStepped DEF ReadBy
  <1>5. Good(Failed(j, r.out)) /\ Stepped(j, Failed(j, r.out))
    BY <1>2, <1>3, FailedGood, FailedStepped
  <1>6. /\ Good(k(r))
        /\ Step(j).do = "capability" => Stepped(j, k(r))
    <2>1. /\ k(r).op = j.op /\ k(r).at = j.at /\ k(r).ctx = j.ctx /\ k(r).used = j.used
          /\ k(r).shown = j.shown
          /\ k(r).phase = "eligible" /\ k(r).checked = j.checked
      BY <1>2 DEF Good, Jobs
    <2>2. "eligible" \in Phases
      BY DEF Phases
    <2>3. Good(k(r))
      BY <1>2, <1>3, <2>2 DEF Good, Jobs
    <2> HIDE DEF k
    <2> QED BY <1>2, <2>1, <2>3 DEF Stepped, Stays, TurnsToHttp
  <1> HIDE DEF k
  <1> QED BY <1>1, <1>2, <1>4, <1>5, <1>6, ToStep

LEMMA TmpReadOwn ==
  ASSUME ReadsInv, NEW t \in Threads, TmpRead(t) \/ Raw(t) \/ Bootstrap(t)
  PROVE  OwnStep(t)
  <1> DEFINE j == job[t]
  <1>1. Good(j) /\ j # None /\ j.phase # "done" /\ cache' = cache
    BY JobGood DEF TmpRead, Raw, Bootstrap, At
  <1>2. CASE TmpRead(t)
    <2>1. PICK out \in {"ok"} \cup TmpErrors : To(t, Answered(j, "tmp")) \/ To(t, Failed(j, out))
      BY <1>2 DEF TmpRead
    <2>2. /\ Step(j).do \in {"capability", "section", "tmp"} /\ j.phase = "tmp"
          /\ Applies(Step(j), j)
      BY <1>2 DEF TmpRead, At
    <2>3. ReadBy(j, "tmp") /\ "tmp" \in Interfaces /\ out \in Outs
      BY <2>2, OutsHold DEF ReadBy, Interfaces
    <2>4. Good(Answered(j, "tmp")) /\ Stepped(j, Answered(j, "tmp"))
      BY <1>1, <2>3, AnsweredGood, FromStepped
    <2>5. Good(Failed(j, out)) /\ Stepped(j, Failed(j, out))
      BY <1>1, <2>2, <2>3, FailedGood, FailedStepped
    <2> QED BY <1>1, <2>1, <2>2, <2>4, <2>5, ToStep
  <1>3. CASE Raw(t) \/ Bootstrap(t)
    <2>1. PICK out \in {"ok"} \cup TmpErrors \cup HttpErrors : To(t, Ended(j, out))
      BY <1>3 DEF Raw, Bootstrap
    <2>2. Step(j).do \in {"raw", "bootstrap"} /\ out \in Outs
      BY <1>3, OutsHold DEF Raw, Bootstrap, At
    <2> QED BY <1>1, <2>1, <2>2, EndedGood, EndedStepped, ToStep
  <1> QED BY <1>2, <1>3

LEMMA CallsOwn ==
  ASSUME ReadsInv, NEW t \in Threads, ReadOnce(t) \/ CallOnce(t)
  PROVE  OwnStep(t)
  <1> DEFINE j == job[t]
  <1>1. /\ Good(j) /\ j # None /\ j.phase # "done" /\ cache' = cache
        /\ Step(j).do \in {"read", "call"}
        /\ Applies(Step(j), j)
    BY JobGood DEF ReadOnce, CallOnce, At
  <1>2. PICK r : r.out \in Outs /\ To(t, HttpEnded(t, r))
    BY ReadGood, CallsGood DEF ReadOnce, CallOnce
  <1> QED BY <1>1, <1>2, HttpEndedGood, HttpEndedStepped, ToStep

\* A read that logs in again: what is left of an expired session is its own.
LEMMA RetryOwn ==
  ASSUME ReadsInv, NEW t \in Threads, Retry(t)
  PROVE  OwnStep(t)
  <1> DEFINE j == job[t]
  <1>1. PICK r \in RetryResults(Step(j).arg) :
          \/ To(t, Advanced(From("http", j)))
          \/ To(t, Failed([j EXCEPT !.login = r.login], r.out))
    BY DEF Retry
  <1>2. /\ Good(j) /\ j # None /\ j.phase # "done" /\ cache' = cache
        /\ Step(j).do = "retry" /\ Applies(Step(j), j)
    BY JobGood DEF Retry, At
  <1>3. /\ r.out \in Outs /\ r.login \in BOOLEAN
        /\ r.out \in SessionErrors => r.login
    <2>1. session \in Sessions
      BY InvParts DEF Parts, Typed
    <2>2. r \in ReadAgain[session] \cup ReadBinary[session] \cup ReadNodes[session]
      BY DEF RetryResults
    <2> QED BY <2>1, <2>2, RetryGood, RetriesLogIn
  <1>4. /\ Good(Failed([j EXCEPT !.login = r.login], r.out))
        /\ Stepped(j, Failed([j EXCEPT !.login = r.login], r.out))
    <2>1. Good([j EXCEPT !.login = r.login])
      BY <1>2, <1>3, LoginGood
    <2> QED BY <1>2, <1>3, <2>1, FailedGood, LoginFailedStepped
  <1>5. Good(Advanced(From("http", j))) /\ Stepped(j, Advanced(From("http", j)))
    <2>1. ReadBy(j, "http") /\ "http" \in Interfaces
      BY <1>2 DEF ReadBy, HttpKinds, Interfaces
    <2> QED BY <1>2, <2>1, FromGood, AdvancedGood, FromStepped
  <1> QED BY <1>1, <1>2, <1>4, <1>5, ToStep

LEMMA NodesOwn ==
  ASSUME ReadsInv, NEW t \in Threads, Nodes(t)
  PROVE  OwnStep(t)
  <1> DEFINE j == job[t]
  <1>1. PICK r \in Call[session] :
          \/ ToSeen(t, HttpEnded(t, r))
          \/ To(t, HttpEnded(t, r)) /\ UNCHANGED cache
    BY DEF Nodes
  <1>2. /\ Good(j) /\ j # None /\ j.phase # "done"
        /\ Step(j).do = "nodes" /\ Applies(Step(j), j)
        /\ session \in Sessions
    BY JobGood, InvParts DEF Nodes, At, Parts, Typed
  <1>3. r.out \in Outs
    BY <1>2, CallGood, OutsHold DEF GoodCalls, Results
  <1>4. Good(HttpEnded(t, r)) /\ Stepped(j, HttpEnded(t, r))
    BY <1>2, <1>3, HttpEndedGood, HttpEndedStepped
  <1> QED BY <1>1, <1>2, <1>4, ToStep, ToSeenOwn

LEMMA CloseOwn ==
  ASSUME ReadsInv, NEW t \in Threads, Close(t)
  PROVE  OwnStep(t)
  <1>1. PICK r \in Logout[session] : To(t, Ended(job[t], r.out))
    BY DEF Close
  <1>2. /\ Good(job[t]) /\ job[t] # None /\ job[t].phase # "done" /\ cache' = None
        /\ Step(job[t]).do = "close"
    BY JobGood DEF Close, At
  <1>3. r.out \in Outs
    BY LogoutGood
  <1> QED BY <1>1, <1>2, <1>3, EndedGood, EndedStepped, ToStep

LEMMA BlockOwn ==
  ASSUME ReadsInv, NEW t \in Threads, Open(t) \/ Hold(t) \/ Unlock(t)
  PROVE  OwnStep(t)
  <1> DEFINE j == job[t]
  <1>1. /\ Good(j) /\ j # None /\ j.phase # "done" /\ cache' = cache
        /\ Step(j).do \in {"open", "hold", "unlock"}
    BY JobGood DEF Open, Hold, Unlock, At
  <1>2. CASE Open(t)
    <2>1. PICK r \in Obtain[session] : job' = [job EXCEPT ![t] = Ended(j, r.out)]
      BY <1>2 DEF Open
    <2>2. r.out \in Outs
      BY InvParts, ObtainGood, OutsHold DEF Parts, Typed, LoginResults
    <2> QED BY <1>1, <2>1, <2>2, EndedGood, EndedStepped, ToOwn
  <1>3. CASE Hold(t)
    <2>1. PICK out \in {"ok"} \cup TmpErrors : job' = [job EXCEPT ![t] = Ended(j, out)]
      BY <1>3 DEF Hold
    <2>2. out \in Outs
      BY OutsHold
    <2> QED BY <1>1, <2>1, <2>2, EndedGood, EndedStepped, ToOwn
  <1>4. CASE Unlock(t)
    <2>1. job' = [job EXCEPT ![t] = Advanced(j)]
      BY <1>4 DEF Unlock
    <2> QED BY <1>1, <2>1, AdvancedGood, SkipStepped, ToOwn
  <1> QED BY <1>2, <1>3, <1>4

LEMMA EdgeOwn ==
  ASSUME ReadsInv, NEW t \in Threads, Request(t) \/ Deliver(t)
  PROVE  EdgeStep(t)
  <1>1. cache' = cache /\ job \in [Threads -> Jobs \cup {None}]
    BY InvParts DEF Request, Deliver, Parts
  <1>2. PICK k : job' = [job EXCEPT ![t] = k] /\ (k = None \/ \E op \in DOMAIN Program : k = Begun(op))
    BY RequestsAssumption DEF Request, Deliver
  <1> QED BY <1>1, <1>2 DEF EdgeStep

\* Whatever happens happens to one request, or to none.
LEMMA NextForms ==
  ASSUME ReadsInv, [Next]_vars
  PROVE  \/ UNCHANGED <<job, cache>>
         \/ \E t \in Threads : OwnStep(t) \/ EdgeStep(t)
  <1>1. CASE Expire \/ UNCHANGED vars
    BY <1>1 DEF Expire, vars
  <1>2. ASSUME NEW t \in Threads,
               Request(t) \/ Deliver(t) \/ Pass(t) \/ Gate(t) \/ Identity(t) \/ Snapshot(t) \/ Compare(t)
        PROVE  OwnStep(t) \/ EdgeStep(t)
    BY <1>2, EdgeOwn, PlainOwn, IdentityOwn
  <1>3. ASSUME NEW t \in Threads, Routed(t)
        PROVE  OwnStep(t)
    BY <1>3, IdentityOwn, ChoiceOwn, HttpReadOwn, TmpReadOwn DEF Routed
  <1>4. ASSUME NEW t \in Threads, OverClient(t)
        PROVE  OwnStep(t)
    BY <1>4, CallsOwn, RetryOwn, TmpReadOwn, BlockOwn, NodesOwn, CloseOwn DEF OverClient
  <1>5. ASSUME NEW t \in Threads, TmpAlone(t)
        PROVE  OwnStep(t)
    BY <1>5, BlockOwn, TmpReadOwn DEF TmpAlone
  <1> QED BY <1>1, <1>2, <1>3, <1>4, <1>5 DEF Next

-----------------------------------------------------------------------------
(* What the steps keep true of one request.                                *)

Earlier(j) == Before(j.op, j.at)

\* An operation without a read context.
Free(op) == \A i \in DOMAIN Program[op] : ~Sets(Program[op][i])

\* The exact profile was found: by the step that required it, by the step that
\* uses TMP, or by the capability whose interface the context names.
Backed(j) ==
  j.phase # "done" =>
    /\ j.phase = "tmp" => j.checked
    /\ (\E b \in Earlier(j) : Exact(b)) => j.checked
    /\ /\ j.ctx = "tmp"
       /\ \A b \in Earlier(j) : b.do # "identity" /\ b.arg # "mesh_nodes"
       => j.checked

Healed(j) ==
  j.phase = "done" /\ j.out \in SessionErrors /\ Retries(j.op) => j.login

\* The context names the interface of the sections; it is chosen before the
\* first of them, or by capabilities that are all read over TMP.
Sourced(j) ==
  /\ j.ctx # None => j.used \subseteq {j.ctx}
  /\ Alone(j.op) /\ j.ctx = "http" => j.shown \subseteq {"http"}
  /\ j.phase # "done" =>
       /\ j.at = 1 => j.ctx = None /\ j.shown = {}
       /\ j.ctx # None => ~Free(j.op)
       /\ j.ctx = None /\ j.used # {} => Free(j.op)
       /\ j.used # {} => \E b \in Earlier(j) : Reads(b)
       /\ (\A b \in Earlier(j) : Reads(b) => TmpOnly(b)) => j.used \subseteq {"tmp"}
       /\ (\E b \in Earlier(j) : Sure(b) /\ Sets(b)) => j.ctx # None
       /\ Step(j).do = "capability" /\ j.phase \in {"route", "http", "eligible"} => ~TmpOnly(Step(j))
       /\ Step(j).do = "section" /\ j.phase = "http" => j.ctx = "http"
       /\ Step(j).do = "section" /\ j.phase = "tmp" => j.ctx # "http"

\* The snapshot is taken of an inventory read since the request began.
Fresh(j) ==
  j.phase = "start" /\ Step(j).do = "snapshot" /\ cache # None => j.seen

LEMMA EarlierNext ==
  ASSUME NEW j, Good(j)
  PROVE  Before(j.op, j.at + 1) = Earlier(j) \cup {Step(j)}
  <1>1. j.at \in Nat \ {0}
    BY ProgramDomain DEF Good, Jobs
  <1>2. 1..(j.at + 1 - 1) = 1..(j.at - 1) \cup {j.at}
    BY <1>1
  <1> QED BY <1>2 DEF Before, Earlier, Step

LEMMA EarlierFirst == ASSUME NEW op PROVE Before(op, 1) = {}
  BY DEF Before

\* Where a step left the request.
LEMMA SteppedAt ==
  ASSUME NEW j, Good(j), NEW k, Stepped(j, k), k.phase # "done"
  PROVE  \/ k.at = j.at /\ Earlier(k) = Earlier(j) /\ Step(k) = Step(j) /\ Stays(j, k)
         \/ /\ k.at = j.at + 1 /\ Earlier(k) = Earlier(j) \cup {Step(j)} /\ k.phase = "start"
            /\ Skips(j, k) \/ Answers(j, k) \/ Identifies(j, k)
  <1>1. k.op = j.op
    BY DEF Stepped
  <1>2. CASE Stays(j, k)
    BY <1>1, <1>2 DEF Stays, Earlier, Step
  <1>3. CASE Skips(j, k) \/ Answers(j, k) \/ Identifies(j, k)
    BY <1>1, <1>3, EarlierNext DEF Skips, Answers, Identifies, Advances, Earlier
  <1> QED BY <1>2, <1>3 DEF Stepped, Quits

LEMMA BackedStep ==
  ASSUME NEW j, Good(j), j.phase # "done", NEW k, Stepped(j, k), Backed(j)
  PROVE  Backed(k)
  <1>0. SUFFICES ASSUME k.phase # "done"
                 PROVE  /\ k.phase = "tmp" => k.checked
                        /\ (\E b \in Earlier(k) : Exact(b)) => k.checked
                        /\ /\ k.ctx = "tmp"
                           /\ \A b \in Earlier(k) : b.do # "identity" /\ b.arg # "mesh_nodes"
                           => k.checked
    BY DEF Backed
  <1>1. CASE Stays(j, k) /\ Earlier(k) = Earlier(j)
    <2>1. k.ctx = j.ctx /\ (k.checked \/ k.checked = j.checked)
      BY <1>1 DEF Stays, TurnsToTmp, TurnsToHttp
    <2>2. k.phase = "tmp" => k.checked
      <3>1. SUFFICES ASSUME Step(j).do = "tmp", k.checked = j.checked, Applies(Step(j), j)
                     PROVE  j.checked
        BY <1>1, <3>1 DEF Stays, TurnsToTmp, TurnsToHttp
      <3>2. \/ \E b \in Earlier(j) : Exact(b)
            \/ /\ Step(j).on = "tmp"
               /\ \A b \in Earlier(j) : b.do # "identity" /\ b.arg # "mesh_nodes"
        BY <3>1, EvidenceAssumption DEF Good, Jobs, Step, Earlier
      <3>3. Step(j).on = "tmp" => j.ctx = "tmp"
        BY <3>1 DEF Applies
      <3> QED BY <3>2, <3>3, <1>0 DEF Backed
    <2> QED BY <1>1, <2>1, <2>2 DEF Backed
  <1>2. CASE /\ Earlier(k) = Earlier(j) \cup {Step(j)} /\ k.phase = "start"
             /\ Skips(j, k)
    <2>1. k.ctx = j.ctx /\ k.checked = j.checked /\ ~Exact(Step(j))
      BY <1>2 DEF Skips, Exact
    <2> QED BY <1>2, <2>1 DEF Backed
  <1>3. CASE /\ Earlier(k) = Earlier(j) \cup {Step(j)} /\ k.phase = "start"
             /\ Answers(j, k)
    <2>1. PICK via \in Interfaces :
            /\ ReadBy(j, via)
            /\ k.ctx = IF Step(j).do = "capability" THEN via ELSE j.ctx
      BY <1>3 DEF Answers
    <2>2. k.checked = j.checked /\ ~Exact(Step(j))
      BY <1>3, <2>1 DEF Answers, ReadBy, HttpKinds, Exact
    <2>3. ASSUME Step(j).do = "capability", via = "tmp"
          PROVE  j.checked
      BY <2>1, <2>3 DEF ReadBy, HttpKinds, Backed
    <2> QED BY <1>3, <2>1, <2>2, <2>3 DEF Backed
  <1>4. CASE /\ Earlier(k) = Earlier(j) \cup {Step(j)} /\ k.phase = "start"
             /\ Identifies(j, k)
    <2>1. /\ Step(j).do = "identity" \/ Step(j).arg = "mesh_nodes"
          /\ k.checked \/ (k.checked = j.checked /\ ~Exact(Step(j)))
      BY <1>4 DEF Identifies, ByInventory, Exact
    <2> QED BY <1>4, <2>1 DEF Backed, Exact
  <1> QED BY <1>0, <1>1, <1>2, <1>3, <1>4, SteppedAt

LEMMA HealedStep ==
  ASSUME NEW j, Good(j), j.phase # "done", NEW k, Stepped(j, k)
  PROVE  Healed(k)
  <1>1. SUFFICES ASSUME k.phase = "done", k.out \in SessionErrors, Retries(j.op)
                 PROVE  k.login
    BY DEF Healed, Stepped
  <1>2. Quits(j, k)
    BY <1>1 DEF Stepped, Skips, Answers, Identifies, Advances, Stays, TurnsToTmp, TurnsToHttp,
                SessionErrors
  <1>3. Step(j).do = "retry" \/ Step(j).do = "gate"
    <2>1. /\ j.op \in DOMAIN Program /\ j.at \in 1..Len(Program[j.op])
          /\ Len(Program[j.op]) \in Nat \ {0}
      BY ProgramDomain DEF Good, Jobs
    <2>2. CASE j.at = Len(Program[j.op])
      BY <1>1, <2>2 DEF Retries, Step
    <2>3. CASE j.at # Len(Program[j.op])
      <3>1. j.at \in 1..(Len(Program[j.op]) - 1)
        BY <2>1, <2>3
      <3>2. Step(j) \in Before(j.op, Len(Program[j.op]))
        BY <3>1 DEF Before, Step
      <3> QED BY <1>1, <2>1, <3>2, RetryAssumption
    <2> QED BY <2>2, <2>3
  <1> QED BY <1>1, <1>2, <1>3 DEF Quits

\* A step that reads uses the interface of the context, unless it sets it.
LEMMA ReadSource ==
  ASSUME NEW j, Good(j), j.phase # "done", Sourced(j), NEW via \in Interfaces, ReadBy(j, via)
  PROVE  /\ Reads(Step(j))
         /\ TmpOnly(Step(j)) => via = "tmp"
         /\ Step(j).do = "capability" => j.used \subseteq {via}
         /\ Step(j).do # "capability" => via = j.ctx \/ (j.ctx = None /\ Free(j.op))
  <1>1. /\ j.op \in DOMAIN Program /\ j.at \in DOMAIN Program[j.op] /\ via \in {"http", "tmp"}
        /\ j.ctx \in {"http", "tmp", None}
    BY DEF Good, Jobs, Interfaces
  <1>2. Reads(Step(j))
    BY DEF ReadBy, Reads, HttpKinds
  <1>3. TmpOnly(Step(j)) => via = "tmp"
    BY <1>1 DEF ReadBy, TmpOnly, HttpKinds, Sourced
  <1>4. ASSUME Step(j).do = "capability"
        PROVE  j.used \subseteq {via}
    <2>1. \/ \A b \in Earlier(j) : ~Reads(b)
          \/ TmpOnly(Step(j)) /\ \A b \in Earlier(j) : Reads(b) => TmpOnly(b)
      BY <1>1, <1>4, SourceAssumption DEF Step, Earlier
    <2> QED BY <1>3, <2>1 DEF Sourced
  <1>5. ASSUME Step(j).do # "capability"
        PROVE  via = j.ctx \/ (j.ctx = None /\ Free(j.op))
    <2>1. CASE Step(j).do = "section"
      <3>1. \E b \in Earlier(j) : Sure(b) /\ Sets(b)
        BY <1>1, <2>1, SourceAssumption DEF Step, Earlier
      <3>2. j.ctx # None /\ j.phase = via
        BY <2>1, <3>1 DEF Sourced, ReadBy, HttpKinds
      <3> QED BY <1>1, <2>1, <3>2 DEF Sourced
    <2>2. CASE Step(j).do # "section"
      <3>1. /\ Applies(Step(j), j)
            /\ \/ Step(j).do \in HttpKinds /\ via = "http"
               \/ Step(j).do = "tmp" /\ via = "tmp"
        BY <1>5, <2>2 DEF ReadBy
      <3>2. Step(j).on = via \/ Free(j.op)
        BY <1>1, <3>1, SourceAssumption DEF Step, Free
      <3>3. Step(j).on = via => via = j.ctx
        BY <1>1, <3>1 DEF Applies
      <3>4. Free(j.op) => j.ctx = None
        BY DEF Sourced
      <3> QED BY <3>2, <3>3, <3>4
    <2> QED BY <2>1, <2>2
  <1> QED BY <1>2, <1>3, <1>4, <1>5

\* An answer that is the inventory shows it with the interface it came from.
LEMMA AloneStep ==
  ASSUME NEW j, Good(j), j.phase # "done", NEW k, Stepped(j, k), Sourced(j)
  PROVE  /\ Alone(k.op) /\ k.ctx = "http" => k.shown \subseteq {"http"}
         /\ k.phase # "done" /\ k.at = 1 => k.ctx = None /\ k.shown = {}
  <1>0. /\ k.op = j.op /\ j.op \in DOMAIN Program /\ j.at \in 1..Len(Program[j.op])
        /\ None \notin Interfaces /\ "http" \in Interfaces
    BY ProgramDomain, NoneAssumption DEF Stepped, Good, Jobs, Interfaces
  <1>1. ASSUME k.phase # "done", k.at = 1
        PROVE  k.ctx = None /\ k.shown = {}
    <2>1. Stays(j, k) /\ j.at = 1
      BY <1>0, <1>1, SteppedAt DEF Stays
    <2> QED BY <2>1 DEF Stays, Sourced
  <1>2. ASSUME Alone(j.op), k.ctx = "http"
        PROVE  k.shown \subseteq {"http"}
    <2>1. /\ j.at = 1 /\ j.ctx = None /\ j.shown = {}
          /\ Step(j).do = "identity" \/ Step(j).do = "capability"
      BY <1>0, <1>2 DEF Alone, Shows, Step, Sourced
    <2>2. CASE Identifies(j, k)
      BY <1>0, <1>2, <2>1, <2>2 DEF Identifies
    <2>3. CASE ~Identifies(j, k)
      BY <1>0, <1>2, <2>1, <2>3 DEF Stepped, Quits, Skips, Answers, Stays
    <2> QED BY <2>2, <2>3
  <1> QED BY <1>0, <1>1, <1>2

\* mesh_nodes is the first read of its operation.
LEMMA NodesFirst ==
  ASSUME NEW j, Good(j), j.phase # "done", Sourced(j),
         Step(j).do = "capability", Step(j).arg = "mesh_nodes"
  PROVE  j.used = {}
  <1>1. j.op \in DOMAIN Program /\ j.at \in DOMAIN Program[j.op] /\ ~TmpOnly(Step(j))
    BY DEF Good, Jobs, TmpOnly
  <1>2. \A b \in Earlier(j) : ~Reads(b)
    BY <1>1, SourceAssumption DEF Step, Earlier
  <1> QED BY <1>2 DEF Sourced

LEMMA SourcedStep ==
  ASSUME NEW j, Good(j), j.phase # "done", NEW k, Stepped(j, k), Sourced(j)
  PROVE  Sourced(k)
  <1>0. k.op = j.op /\ j.op \in DOMAIN Program /\ j.at \in DOMAIN Program[j.op]
    BY DEF Stepped, Good, Jobs
  <1>s. Sets(Step(j)) => ~Free(j.op)
    BY <1>0 DEF Free, Step
  <1>a. /\ Alone(k.op) /\ k.ctx = "http" => k.shown \subseteq {"http"}
        /\ k.phase # "done" /\ k.at = 1 => k.ctx = None /\ k.shown = {}
    BY AloneStep
  <1>1. CASE Quits(j, k)
    BY <1>a, <1>1 DEF Quits, Sourced
  <1>2. CASE Stays(j, k)
    <2>1. /\ k.ctx = j.ctx /\ k.used = j.used /\ Earlier(k) = Earlier(j) /\ Step(k) = Step(j)
          /\ k.phase # "done"
      BY <1>0, <1>2 DEF Stays, Earlier, Step, TurnsToTmp, TurnsToHttp
    <2>2. Step(j).do = "capability" /\ k.phase \in {"route", "http", "eligible"} => ~TmpOnly(Step(j))
      BY <1>2 DEF Stays, TurnsToTmp, TurnsToHttp, Sourced
    <2>3. /\ Step(j).do = "section" /\ k.phase = "http" => j.ctx = "http"
          /\ Step(j).do = "section" /\ k.phase = "tmp" => j.ctx # "http"
      BY <1>2 DEF Stays, TurnsToTmp, TurnsToHttp
    <2> QED BY <1>0, <1>a, <2>1, <2>2, <2>3 DEF Sourced
  <1>3. CASE Skips(j, k) \/ Identifies(j, k)
    <2>1. /\ k.used = j.used
          /\ j.ctx # None => k.ctx = j.ctx \/ j.used = {}
          /\ j.ctx # None => k.ctx # None
          /\ k.ctx # j.ctx => Sets(Step(j))
          /\ Sure(Step(j)) /\ Sets(Step(j)) => k.ctx # None
      <3>1. CASE Skips(j, k)
        BY <3>1 DEF Skips, Sets
      <3>2. CASE Identifies(j, k) /\ Step(j).do = "identity"
        BY <3>2, NoneAssumption DEF Identifies, Sets
      <3>3. CASE Identifies(j, k) /\ Step(j).do # "identity"
        <4>1. Step(j).do = "capability" /\ Step(j).arg = "mesh_nodes" /\ k.used = j.used /\ k.ctx # None
          BY <3>3, NoneAssumption DEF Identifies, ByInventory
        <4> QED BY <4>1, NodesFirst DEF Sets
      <3> QED BY <1>3, <3>1, <3>2, <3>3
    <2>2. k.ctx # None => k.used \subseteq {k.ctx} /\ ~Free(k.op)
      <3>1. CASE k.ctx = j.ctx
        BY <1>0, <2>1, <3>1 DEF Sourced
      <3>2. CASE k.ctx # j.ctx
        BY <1>0, <1>s, <2>1, <3>2 DEF Sourced
      <3> QED BY <3>1, <3>2
    <2>3. CASE k.phase = "done"
      BY <1>a, <2>2, <2>3 DEF Sourced
    <2>4. CASE k.phase # "done"
      <3>1. Earlier(k) = Earlier(j) \cup {Step(j)} /\ k.phase = "start"
        BY <1>0, <1>3, <2>4, EarlierNext DEF Skips, Identifies, Advances, Earlier
      <3>2. k.ctx = None => j.ctx = None
        BY <2>1
      <3>3. (\E b \in Earlier(k) : Sure(b) /\ Sets(b)) => k.ctx # None
        BY <2>1, <3>1, <3>2 DEF Sourced
      <3>4. /\ k.ctx = None /\ k.used # {} => Free(k.op)
            /\ k.used # {} => \E b \in Earlier(k) : Reads(b)
            /\ (\A b \in Earlier(k) : Reads(b) => TmpOnly(b)) => k.used \subseteq {"tmp"}
        BY <1>0, <2>1, <3>1, <3>2 DEF Sourced
      <3> QED BY <1>a, <2>2, <3>1, <3>3, <3>4 DEF Sourced
    <2> QED BY <2>3, <2>4
  <1>4. CASE Answers(j, k)
    <2>1. PICK via \in Interfaces :
            /\ ReadBy(j, via)
            /\ k.used = j.used \cup {via}
            /\ k.ctx = IF Step(j).do = "capability" THEN via ELSE j.ctx
      BY <1>4 DEF Answers
    <2>2. /\ Reads(Step(j))
          /\ TmpOnly(Step(j)) => via = "tmp"
          /\ Step(j).do = "capability" => j.used \subseteq {via}
          /\ Step(j).do # "capability" => via = j.ctx \/ (j.ctx = None /\ Free(j.op))
          /\ via # None
      BY <2>1, ReadSource, NoneAssumption
    <2>3. k.ctx # None => k.used \subseteq {k.ctx}
      BY <2>1, <2>2 DEF Sourced
    <2>4. CASE k.phase = "done"
      BY <1>a, <2>3, <2>4 DEF Sourced
    <2>5. CASE k.phase # "done"
      <3>1. Earlier(k) = Earlier(j) \cup {Step(j)} /\ k.phase = "start"
        BY <1>0, <1>4, <2>5, EarlierNext DEF Answers, Advances, Earlier
      <3>2. k.ctx # None => ~Free(k.op)
        BY <1>0, <1>s, <2>1 DEF Sourced, Sets
      <3>3. k.ctx = None => Free(k.op)
        BY <1>0, <2>1, <2>2
      <3>4. (\A b \in Earlier(k) : Reads(b) => TmpOnly(b)) => k.used \subseteq {"tmp"}
        BY <2>1, <2>2, <3>1 DEF Sourced
      <3>5. (\E b \in Earlier(k) : Sure(b) /\ Sets(b)) => k.ctx # None
        <4>1. Sets(Step(j)) => Step(j).do = "capability"
          BY <2>1 DEF Sets, ReadBy, HttpKinds
        <4> QED BY <2>1, <2>2, <3>1, <4>1 DEF Sourced
      <3> QED BY <1>a, <2>2, <2>3, <3>1, <3>2, <3>3, <3>4, <3>5 DEF Sourced
    <2> QED BY <2>4, <2>5
  <1> QED BY <1>1, <1>2, <1>3, <1>4 DEF Stepped

-----------------------------------------------------------------------------
(* All the requests.                                                       *)

\* What does not depend on the inventory.
Kept(j) == Backed(j) /\ Healed(j) /\ Sourced(j)

AllKept == \A t \in Threads : job[t] # None => Kept(job[t])

AllFresh == \A t \in Threads : job[t] # None => Fresh(job[t])

AnswersInv == AllKept /\ AllFresh

LEMMA SameKept == ASSUME NEW j, NEW k, Same(j, k), Kept(j) PROVE Kept(k)
  BY DEF Same, Kept, Backed, Healed, Sourced, Earlier, Step

LEMMA SteppedKept ==
  ASSUME NEW j, Good(j), j.phase # "done", NEW k, Stepped(j, k), Kept(j)
  PROVE  Kept(k)
  BY BackedStep, HealedStep, SourcedStep DEF Kept

LEMMA BegunKept == ASSUME NEW op \in DOMAIN Program PROVE Kept(Begun(op))
  <1> DEFINE k == Begun(op)
  <1>1. /\ k.op = op /\ k.at = 1 /\ k.phase = "start" /\ k.out = "ok"
        /\ k.ctx = None /\ k.used = {} /\ k.shown = {}
    BY DEF Begun
  <1>2. Earlier(k) = {}
    BY <1>1, EarlierFirst DEF Earlier
  <1>3. None # "tmp" /\ None # "http"
    BY NoneAssumption DEF Interfaces
  <1> HIDE DEF k
  <1>4. Kept(k)
    BY <1>1, <1>2, <1>3 DEF Kept, Backed, Healed, Sourced
  <1> QED BY <1>4 DEF k

LEMMA KeptNext ==
  ASSUME ReadsInv, AllKept, [Next]_vars
  PROVE  \A t \in Threads : job'[t] # None => Kept(job'[t])
  <1>1. CASE UNCHANGED <<job, cache>>
    BY <1>1 DEF AllKept
  <1>2. ASSUME NEW t \in Threads, EdgeStep(t)
        PROVE  \A u \in Threads : job'[u] # None => Kept(job'[u])
    BY <1>2, BegunKept DEF EdgeStep, AllKept
  <1>3. ASSUME NEW t \in Threads, OwnStep(t), NEW u \in Threads, job'[u] # None
        PROVE  Kept(job'[u])
    <2>1. CASE u = t
      <3>1. Good(job[t]) /\ job[t].phase # "done" /\ Stepped(job[t], job'[t]) /\ Kept(job[t])
        BY <1>3, JobGood DEF OwnStep, AllKept
      <3> QED BY <2>1, <3>1, SteppedKept
    <2>2. CASE u # t
      <3>1. Kept(job[u])
        BY <1>3, <2>2 DEF OwnStep, AllKept
      <3>2. job'[u] = job[u] \/ Same(job[u], job'[u])
        BY <1>3, <2>2 DEF OwnStep, OldStep, NewStep
      <3> QED BY <3>1, <3>2, SameKept
    <2> QED BY <2>1, <2>2
  <1> QED BY <1>1, <1>2, <1>3, NextForms

\* A snapshot is reached only by reading the inventory.
LEMMA SnapshotReached ==
  ASSUME NEW j, Good(j), NEW k, Good(k), Stepped(j, k), k.phase = "start", Step(k).do = "snapshot"
  PROVE  /\ Sure(Step(j)) /\ Step(j).do = "identity" /\ Step(j).arg = "fresh"
         /\ ~Quits(j, k)
  <1>1. k.op = j.op /\ k.at = j.at + 1
    BY SteppedAt DEF Stepped, Stays, TurnsToTmp, TurnsToHttp
  <1>2. k.op \in DOMAIN Program /\ k.at \in DOMAIN Program[k.op] /\ j.at \in Nat
    BY DEF Good, Jobs
  <1>3. Program[k.op][k.at].do = "snapshot"
    BY DEF Step
  <1>4. LET b == Program[k.op][k.at - 1]
        IN  Sure(b) /\ b.do = "identity" /\ b.arg = "fresh"
    BY <1>2, <1>3, SnapshotAssumption
  <1>5. Program[k.op][k.at - 1] = Step(j)
    BY <1>1, <1>2 DEF Step
  <1> QED BY <1>4, <1>5 DEF Quits

LEMMA FreshNext ==
  ASSUME ReadsInv, ReadsInv', AllFresh, [Next]_vars,
         NEW u \in Threads, job'[u] # None, job'[u].phase = "start",
         Step(job'[u]).do = "snapshot", cache' # None
  PROVE  job'[u].seen
  <1>1. ASSUME job'[u] = job[u], cache' \in {cache, None}
        PROVE  job'[u].seen
    BY <1>1 DEF AllFresh, Fresh
  <1>2. CASE UNCHANGED <<job, cache>>
    BY <1>1, <1>2
  <1>3. ASSUME NEW t \in Threads, EdgeStep(t)
        PROVE  job'[u].seen
    <2>1. CASE u # t
      BY <1>1, <1>3, <2>1 DEF EdgeStep
    <2>2. CASE u = t
      <3>1. PICK op \in DOMAIN Program : job'[u] = Begun(op)
        BY <1>3, <2>2 DEF EdgeStep
      <3>2. Program[op][1].do = "snapshot"
        BY <3>1 DEF Begun, Step
      <3>3. 1 \in DOMAIN Program[op]
        BY ProgramDomain
      <3> QED BY <3>2, <3>3, SnapshotAssumption
    <2> QED BY <2>1, <2>2
  <1>4. ASSUME NEW t \in Threads, OwnStep(t)
        PROVE  job'[u].seen
    <2>1. CASE NewStep(t)
      BY <2>1 DEF NewStep, Shown
    <2>2. CASE OldStep(t) /\ u # t
      BY <1>1, <2>2 DEF OldStep
    <2>3. CASE OldStep(t) /\ u = t
      <3>1. Good(job[t]) /\ Stepped(job[t], job'[t])
        BY <1>4, JobGood DEF OwnStep
      <3>2. job'[t] \in Jobs /\ job'[t].at \in DOMAIN Program[job'[t].op]
        BY <2>3 DEF ReadsInv, ReadsTypeOK, StepInv
      <3>3. Good(job'[t])
        BY <2>3, <3>2 DEF Good
      <3> QED BY <2>3, <3>1, <3>3, SnapshotReached DEF OldStep
    <2> QED BY <1>4, <2>1, <2>2, <2>3 DEF OwnStep
  <1> QED BY <1>2, <1>3, <1>4, NextForms

LEMMA AnswersNext ==
  ASSUME ReadsInv, ReadsInv', AnswersInv, [Next]_vars
  PROVE  AnswersInv'
  <1>1. \A t \in Threads : job'[t] # None => Kept(job'[t])
    BY KeptNext DEF AnswersInv
  <1>2. AllKept'
    BY <1>1 DEF AllKept, Kept, Backed, Healed, Sourced, Earlier, Step
  <1>3. AllFresh'
    <2>1. SUFFICES ASSUME NEW u \in Threads, job'[u] # None, job'[u].phase = "start",
                          Step(job'[u]).do = "snapshot", cache' # None
                   PROVE  job'[u].seen
      BY DEF AllFresh, Fresh, Step
    <2> QED BY <2>1, FreshNext DEF AnswersInv
  <1> QED BY <1>2, <1>3 DEF AnswersInv

LEMMA AnswersHold == Spec => []AnswersInv
  <1>1. Init => AnswersInv
    BY DEF Init, AnswersInv, AllKept, AllFresh
  <1>2. ReadsInv /\ ReadsInv' /\ AnswersInv /\ [Next]_vars => AnswersInv'
    BY AnswersNext
  <1> QED BY <1>1, <1>2, ReadsCorrect, PTL DEF Spec

-----------------------------------------------------------------------------
(* The properties.                                                         *)

\* A semantic capability is sent over TMP only after its own request found the
\* exact profile, whatever the other requests do to the inventory meanwhile
\* (read_capability, _tmp_fallback_available, read_parental_control_profile).
THEOREM TmpOnEvidence == Spec => []TmpNeedsEvidence
  <1>1. AnswersInv => TmpNeedsEvidence
    BY DEF AnswersInv, AllKept, Kept, Backed, TmpNeedsEvidence
  <1> QED BY <1>1, AnswersHold, PTL

\* The sections an answer reads beside the inventory come from the interface its
\* provenance names, and an answer that is the inventory was read over HTTP if it
\* says so (_read_resource_capability, client_device_resource, wlan_state,
\* cloud_state, read_capability for mesh_nodes).
THEOREM AnswersHaveOneSource == Spec => []OneSource
  <1>1. AnswersInv => OneSource
    BY DEF AnswersInv, AllKept, Kept, Sourced, OneSource, WithContext
  <1> QED BY <1>1, AnswersHold, PTL

\* The mesh nodes network_status shows were read after it was asked for, though
\* it takes them without the lock (network_status_resource).
THEOREM StatusIsFresh == Spec => []StatusFresh
  <1>1. AnswersInv => StatusFresh
    BY DEF AnswersInv, AllFresh, Fresh, StatusFresh, At
  <1> QED BY <1>1, AnswersHold, PTL

\* A request that logs in again ends with an error that means an expired session
\* only after it asked the router for a new one, whatever the other threads did
\* to the session in between (read_endpoint, read_binary_endpoint,
\* get_clients_by_node).
THEOREM RetriesHeal == Spec => []RetryHeals
  <1>1. AnswersInv => RetryHeals
    BY DEF AnswersInv, AllKept, Kept, Healed, RetryHeals
  <1> QED BY <1>1, AnswersHold, PTL
=============================================================================
