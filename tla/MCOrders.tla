------------------------------ MODULE MCOrders ------------------------------
(***************************************************************************)
(* Orders and the wallet, for TLC: a behaviour is one of OrderManager or   *)
(* one of Wallet, and the other rests in its initial state.                *)
(***************************************************************************)
EXTENDS MCOrderManager, Wallet

VARIABLE at                       \* the component this behaviour is about

allVars == <<at, vars, walletVars>>

ASSUME WalletConstants == WalletAssumption

MCInit == at \in {"orders", "wallet"} /\ Init /\ WalletInit

\* The bounds may end a behaviour of Wallet.
MCNext ==
  \/ at = "orders" /\ Next /\ UNCHANGED <<at, walletVars>>
  \/ at = "wallet" /\ WalletNext /\ UNCHANGED <<at, vars>>
  \/ at = "wallet" /\ UNCHANGED allVars

MCSpec == MCInit /\ [][MCNext]_allVars

=============================================================================
