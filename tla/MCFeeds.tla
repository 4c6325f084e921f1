------------------------------- MODULE MCFeeds -------------------------------
(***************************************************************************)
(* What feeds the order books, for TLC: a behaviour is one of              *)
(* BidAskResync (Binance), one of BybitGenerator or one of Backtesting,    *)
(* the replay of a history file; the others rest in an initial state.      *)
(*                                                                         *)
(* A row of a history file is in tenths of a tick.  The last file has a    *)
(* row the pattern skips and one that opens below a tick.                  *)
(***************************************************************************)
EXTENDS BidAskResync, BybitGenerator, Backtesting

VARIABLE at                       \* the component this behaviour is about

allVars == <<at, resyncVars, bybitVars, replayVars>>

ASSUME BybitConstants == IdsAssumption

HistoryRow(m, o, v) == [match |-> m, open |-> o, volume |-> v]

HistoryFiles ==
  {<< >>,
   <<HistoryRow(TRUE, 20, 95), HistoryRow(TRUE, 35, 60), HistoryRow(TRUE, 41, 41),
     HistoryRow(TRUE, 52, 99)>>,
   <<HistoryRow(TRUE, 25, 45), HistoryRow(FALSE, 0, 0), HistoryRow(TRUE, 9, 25),
     HistoryRow(TRUE, 30, 33)>>}

ASSUME ReplayConstants == ReplayAssumption

MCInit ==
  /\ at \in {"binance", "bybit", "replay"}
  /\ ResyncInit /\ BybitInit /\ ReplayInit
  /\ at # "replay" => punctual /\ file = << >>

\* BybitGenerator may end at its bounds, and the replay when it returns.
MCNext ==
  \/ at = "binance" /\ ResyncNext /\ UNCHANGED <<at, bybitVars, replayVars>>
  \/ at = "bybit" /\ BybitNext /\ UNCHANGED <<at, resyncVars, replayVars>>
  \/ at = "replay" /\ ReplayNext /\ UNCHANGED <<at, resyncVars, bybitVars>>
  \/ at # "binance" /\ UNCHANGED allVars

\* The Fairness of BybitGenerator and of Backtesting.
OnBybit(A) == at = "bybit" /\ A /\ UNCHANGED <<at, resyncVars, replayVars>>
OnReplay(A) == at = "replay" /\ A /\ UNCHANGED <<at, resyncVars, bybitVars>>

MCSpec ==
  /\ MCInit /\ [][MCNext]_allVars
  /\ WF_bybitVars(OnBybit(HandleResponse)) /\ WF_bybitVars(OnBybit(Answer))
  /\ WF_replayVars(OnReplay(Main))
  /\ WF_replayVars(OnReplay(KLineThread))
  /\ WF_replayVars(OnReplay(EngineThread))

-----------------------------------------------------------------------------
\* A replay ends, whenever main stops waiting.
ReplayEnds == at = "replay" ~> main \in Ended

=============================================================================
