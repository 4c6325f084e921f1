---------------------------- MODULE MCStrategies ----------------------------
(***************************************************************************)
(* The two arbitrage strategies for TLC: a behaviour is one of             *)
(* CrossArbitrage, on two exchanges that quote different pairs, or one of  *)
(* Arbitrage, on two books with a cycle in each direction, and the other   *)
(* rests in its initial state.                                             *)
(***************************************************************************)
EXTENDS CrossArbitrage, Arbitrage

VARIABLE at                       \* the strategy this behaviour is about

allVars == <<at, vars, cyclicVars>>

ASSUME CyclicConstants == ArbitrageAssumption

MCWorkingPair == <<"p", "q">>

\* A clip for both pairs, and one for the first only.
MCConfigurations == {{"p", "q"}, {"p"}}

Leg(k, op) == [key |-> k, operation |-> op]

MCAdded ==
  <<<<Leg("a", "kBuy"), Leg("b", "kSell")>>, <<Leg("a", "kSell"), Leg("b", "kBuy")>>>>

\* Two BBOs that open a trade, and one without bids: its bid is the largest price.
MCBBOs == {[bid |-> 1, ask |-> 2], [bid |-> 3, ask |-> 5], [bid |-> 20, ask |-> 3]}

MCInit ==
  /\ at \in {"cross", "cyclic"} /\ Init /\ CyclicInit
  /\ at = "cyclic" => configured = {"p"}

MCNext ==
  \/ at = "cross" /\ Next /\ UNCHANGED <<at, cyclicVars>>
  \/ at = "cyclic" /\ CyclicNext /\ UNCHANGED <<at, vars>>

\* The Fairness of both.
MCSpec ==
  /\ MCInit /\ [][MCNext]_allVars
  /\ \A e \in Exchanges : WF_vars(at = "cross" /\ OnNewSignal(e) /\ UNCHANGED <<at, cyclicVars>>)
  /\ \A i \in 1 .. MaxBBOs :
       WF_cyclicVars(at = "cyclic" /\ i \in DOMAIN task /\ Run(i) /\ UNCHANGED <<at, vars>>)

-----------------------------------------------------------------------------
\* The CrossArbitrage strategy's prices become those of the books, and every BBO
\* of Arbitrage is evaluated against the cycles of its key with all trades closed
\* in the end.
StrategiesCatchUp == StrategyCatchesUp /\ Settled

=============================================================================
