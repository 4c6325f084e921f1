----------------------------- MODULE PnlLedger -----------------------------
(***************************************************************************)
(* What a position keeper promises, without averages or two kinds of pnl.  *)
(* Every instrument has a cash account and a holding.  A trade moves both; *)
(* the equity of the instrument is the cash plus the holding valued at the *)
(* price seen last.                                                        *)
(***************************************************************************)
EXTENDS Integers

CONSTANTS
  Instruments,
  TradePrices,    \* prices of trades
  TradeQtys,      \* quantities of trades
  Marks           \* prices at which a holding is valued between trades

VARIABLES
  position,       \* signed holding of every instrument
  cash,           \* what trading it has brought in so far
  equity          \* its cash plus the value of the holding

ledger == <<position, cash, equity>>

-----------------------------------------------------------------------------

Init ==
  /\ position = [k \in Instruments |-> 0]
  /\ cash = [k \in Instruments |-> 0]
  /\ equity = [k \in Instruments |-> 0]

\* A purchase (sign 1) or a sale (sign -1).
Trade(k, sign, price, qty) ==
  /\ position' = [position EXCEPT ![k] = @ + sign * qty]
  /\ cash' = [cash EXCEPT ![k] = @ - sign * (price * qty)]
  /\ equity' = [equity EXCEPT ![k] = cash[k] - sign * (price * qty)
                                       + (position[k] + sign * qty) * price]

\* A new price for what is held.
Mark(k, price) ==
  /\ equity' = [equity EXCEPT ![k] = cash[k] + position[k] * price]
  /\ UNCHANGED <<position, cash>>

Next ==
  \E k \in Instruments :
    \/ \E sign \in {1, -1}, price \in TradePrices, qty \in TradeQtys :
         Trade(k, sign, price, qty)
    \/ \E price \in Marks : Mark(k, price)

Spec == Init /\ [][Next]_ledger

=============================================================================
