------------------------------ MODULE MCHttps ------------------------------
(***************************************************************************)
(* Sessions and their pool, for TLC: a behaviour is one of HttpsPool or    *)
(* one of RequestSessions, and the other rests in its initial state.       *)
(***************************************************************************)
EXTENDS HttpsPool, RequestSessions

VARIABLE at                       \* the component this behaviour is about

allVars == <<at, vars, singleVars>>

ASSUME SingleConstants == SessionAssumption

\* Beside the pool, a session without a timer.
MCInit ==
  /\ at \in {"pool", "single"} /\ Init /\ SingleInit
  /\ at = "pool" => class = WSSession

OfPool(A) == at = "pool" /\ A /\ UNCHANGED <<at, singleVars>>

OfSingle(A) == at = "single" /\ ~rCrashed /\ A /\ UNCHANGED <<at, vars>>

MCNext == OfPool(Next) \/ OfSingle(SingleNext)

\* The fairness of the two modules, each in its own behaviours.
MCSpec ==
  /\ MCInit /\ [][MCNext]_allVars
  /\ \A s \in Sessions :
       /\ WF_allVars(OfPool(Intact /\ (OnResolved(s) \/ OnConnected(s) \/ OnHandshake(s))))
       /\ WF_allVars(OfPool(Intact /\ (OnRequest(s) \/ StartLoop(s))))
       /\ \A r \in Requests : WF_allVars(OfPool(Intact /\ OnResponse(s, r)))
  /\ WF_allVars(OfPool(~crashed /\ Aborts))
  /\ WF_allVars(OfPool(Intact /\ Component))
  /\ WF_allVars(OfSingle(Handlers))
  /\ WF_allVars(OfSingle(SingleExpire))
  /\ WF_allVars(OfSingle(start_timer))

=============================================================================
