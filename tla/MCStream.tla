------------------------------ MODULE MCStream ------------------------------
(***************************************************************************)
(* Messages and the websocket sessions that carry them, for TLC: a         *)
(* behaviour is one of Requests, what is sent and what is read back, or    *)
(* one of WssFeed, and the other rests in an initial state.                *)
(***************************************************************************)
EXTENDS Requests

CONSTANTS Sessions, None

VARIABLES at,                     \* the component this behaviour is about
          session, posted, aborts, available, active, getter, userClose, aborted, faults,
          written, crowded, uprooted

wssVars == <<session, posted, aborts, available, active, getter, userClose, aborted, faults,
             written, crowded, uprooted>>

allVars == <<at, vars, wssVars>>

Wss == INSTANCE WssFeed WITH MaxFaults <- 1, inbox <- posted

MCInit ==
  /\ at \in {"wire", "wss"}
  /\ Init /\ Wss!Init
  /\ IF at = "wire" THEN ~userClose ELSE wired = CHOOSE w \in Wiring : TRUE

MCNext ==
  \/ at = "wire" /\ Next /\ UNCHANGED <<at, wssVars>>
  \/ at = "wss" /\ Wss!Next /\ UNCHANGED <<at, vars>>

\* WssFeed's Fairness.
Fairly(A) == at = "wss" /\ Wss!Intact /\ A /\ UNCHANGED <<at, vars>>

MCSpec ==
  /\ MCInit /\ [][MCNext]_allVars
  /\ WF_wssVars(Fairly(Wss!Io)) /\ WF_wssVars(Fairly(Wss!Getter))

-----------------------------------------------------------------------------
\* The properties of Requests and WssFeed, beside their types.

\* The venue a request is for gets it, with a signature over what was sent and
\* a subscription in the form it accepts.
RequestsAreAccepted == TypeOK /\ SignatureAccepted /\ ReachesItsVenue /\ SubscriptionAccepted

\* A session has one WriteLoop, unless a request was queued before its first,
\* and data that arrives finds a callback registered on its session.
WssIsSound == Wss!TypeOK /\ Wss!OneWriter /\ Wss!DataFindsCallback

\* A request handed to a session is written, unless that session fails.
WssDelivered == Wss!Delivered

\* Every address of the pool gets a session that connects, but after a failed
\* resolve.
WssEveryAddressConnects == at = "wss" => Wss!EveryAddressConnects

=============================================================================
