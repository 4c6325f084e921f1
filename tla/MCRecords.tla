------------------------------ MODULE MCRecords ------------------------------
(***************************************************************************)
(* What is kept and shown of the trading, for TLC: a behaviour is one of   *)
(* PositionKeeper or one of RedPanda, and the other rests in its initial   *)
(* state.  One of the two cycles names a pair the program does not know.   *)
(***************************************************************************)
EXTENDS PositionKeeper, RedPanda

VARIABLE at                       \* the component this behaviour is about

allVars == <<at, vars, pandaVars>>

MCCycles ==
  {<<<<"kSpot", "p">>, <<"kFutures", "p">>>>, <<<<"kSpot", "p">>, <<"kSpot", "q">>>>}

MCInit == at \in {"keeper", "panda"} /\ Init /\ PandaInit /\ (at = "keeper" => flushes)

MCNext ==
  \/ at = "keeper" /\ Next /\ UNCHANGED <<at, pandaVars>>
  \/ at = "panda" /\ PandaNext /\ UNCHANGED <<at, vars>>

\* RedPanda's Fairness.
Fairly(A) == at = "panda" /\ A /\ UNCHANGED <<at, vars>>

MCSpec ==
  /\ MCInit /\ [][MCNext]_allVars
  /\ \A m \in Markets :
       WF_pandaVars(Fairly(\/ HandleNewMEMarketUpdate(m)
                           \/ HandleResponseNewSnapshot(m)
                           \/ HandleNewDiff(m)))
  /\ WF_pandaVars(Fairly(HandleNewBBO \/ HandleReport \/ HandleDictionary))
  /\ WF_pandaVars(Fairly(Produce \/ FlushReturns))
  /\ WF_pandaVars(Fairly(\E t \in Topics : Deliver(t)))
  /\ WF_pandaVars(Fairly(Join))

=============================================================================
