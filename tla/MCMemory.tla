------------------------------ MODULE MCMemory ------------------------------
(***************************************************************************)
(* The memory of the events for TLC: a behaviour is one of MemoryPool, the *)
(* pool itself, or one of EventBus, the reference counts that decide when  *)
(* a block goes back, and the other rests in its initial state.            *)
(***************************************************************************)
EXTENDS MemoryPool, EventBus

VARIABLE at                       \* the component this behaviour is about

allVars == <<at, vars, busVars>>

MCInit == at \in {"pool", "bus"} /\ Init /\ BusInit

\* The bounds may end a behaviour of EventBus.
MCNext ==
  \/ at = "pool" /\ Next /\ UNCHANGED <<at, busVars>>
  \/ at = "bus" /\ BusNext /\ UNCHANGED <<at, vars>>
  \/ at = "bus" /\ UNCHANGED allVars

\* EventBus's Fairness.
MCSpec ==
  /\ MCInit /\ [][MCNext]_allVars
  /\ \A t \in Runners : WF_busVars(at = "bus" /\ Run(t) /\ UNCHANGED <<at, vars>>)

=============================================================================
