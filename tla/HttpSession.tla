---------------------------- MODULE HttpSession ----------------------------
(***************************************************************************)
(* The owner session the HTTP client holds with the router, as what one    *)
(* call does to it.  The session is "none" (the client has no token),      *)
(* "live", or "expired": the client has a token the router has forgotten,  *)
(* which it does at any time and does not tell.  A result is [out,         *)
(* session]: how the call ends, and the session it leaves.                 *)
(*                                                                         *)
(* Errors: "transport" (no answer, or an HTTP status that is neither 401   *)
(* nor 403), "denied" (401 or 403), "api" (the router's error code),       *)
(* "undecoded" (an answer without encrypted data, which carries the code   *)
(* -1, as the router's own -1 does), "value" (an answer that is no JSON),  *)
(* "sdk" (any other error of the package: authentication, decryption) and  *)
(* "broken" (an exception of http.client the transport does not wrap).     *)
(***************************************************************************)

Sessions == {"none", "live", "expired"}

HttpErrors == {"transport", "denied", "api", "undecoded", "value", "sdk", "broken"}

\* _should_relogin: the errors taken for an expired session.
SessionErrors == {"denied", "undecoded"}

\* login.  Its two plain reads and the login itself can each fail, and a failed
\* login leaves no token.
Login ==
  {[out |-> "ok", session |-> "live"]} \cup { [out |-> e, session |-> "none"] : e \in HttpErrors }

\* request_envelope and the calls over it: an error leaves the token where it is,
\* and with a session the router has forgotten nothing succeeds.
Call ==
  [session \in Sessions |->
     { [out |-> "ok", session |-> s] : s \in {session} \cap {"live"} }
     \cup { [out |-> "sdk", session |-> s] : s \in {session} \cap {"none"} }
     \cup { [out |-> e, session |-> s] :
               e \in HttpErrors, s \in IF session = "live" THEN {"live", "expired"}
                                        ELSE {session} \ {"none"} }]

\* call_binary answers the bytes as they are: an error code or an answer that is
\* no JSON passes for the file.
BinaryCall ==
  [session \in Sessions |->
     { [r EXCEPT !.out = IF r.out \in {"api", "undecoded", "value"} THEN "ok" ELSE r.out] :
         r \in Call[session] }]

\* get_clients_by_node reads the nodes, then the clients of each: the calls go on
\* while the session lives, and the first error ends them.
NodeCalls ==
  [session \in Sessions |->
     Call[session] \cup UNION { Call[r.session] : r \in { q \in Call[session] : q.out = "ok" } }]

\* _probe_endpoint classifies every error but those of http.client.
Probe ==
  [session \in Sessions |->
     { [r EXCEPT !.out = IF r.out = "broken" THEN "broken" ELSE "ok"] : r \in Call[session] }]

\* _get_client logs in when there is no token; a token is not tried.  "login"
\* says whether the router was asked for a session.
Obtain ==
  [session \in Sessions |->
     IF session = "none"
     THEN { [out |-> r.out, session |-> r.session, login |-> TRUE] : r \in Login }
     ELSE {[out |-> "ok", session |-> session, login |-> FALSE]}]

\* Obtaining the client and making a call of the given kind.
After(obtained, call) ==
  { o \in obtained : o.out # "ok" }
  \cup UNION { { [out |-> r.out, session |-> r.session, login |-> o.login] : r \in call[o.session] } :
                o \in { q \in obtained : q.out = "ok" } }

Read == [session \in Sessions |-> After(Obtain[session], Call)]

InvalidatedFault(session) == session

\* invalidate_session
Invalidated(session) == "none"

\* logout forgets the token whatever the router says; 404 is no error.
Logout ==
  [session \in Sessions |->
     IF session = "none" THEN {[out |-> "ok", session |-> session]}
     ELSE { [out |-> o, session |-> Invalidated(session)] : o \in {"ok"} \cup HttpErrors }]

\* The reads that log in again.  An error of the call, not of the login, that is
\* taken for an expired session forgets the token, obtains the client anew and
\* makes the call once more.
Relogged(obtained, call) ==
  LET first   == After(obtained, call)
      expired == { r \in first : r.out \in SessionErrors /\ r.session # "none" }
  IN  (first \ expired)
      \cup UNION { After(Obtain[Invalidated(r.session)], call) : r \in expired }

ReadAgain == [session \in Sessions |-> Relogged(Obtain[session], Call)]

ReadBinary == [session \in Sessions |-> Relogged(Obtain[session], BinaryCall)]

ReadNodes == [session \in Sessions |-> Relogged(Obtain[session], NodeCalls)]
=============================================================================
