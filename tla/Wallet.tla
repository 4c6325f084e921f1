------------------------------- MODULE Wallet -------------------------------
(***************************************************************************)
(* The wallet of one exchange (::Wallet inside exchange::Wallet), which    *)
(* reserves funds for orders and follows the answers to them, beside the   *)
(* account the exchange really keeps.                                      *)
(*                                                                         *)
(* An order is measured in lots of quote; one lot of quote is worth        *)
(* BasePerQuote lots of base.  A buy pays with quote and receives base, a  *)
(* sell the other way round.                                               *)
(***************************************************************************)
EXTENDS Integers

CONSTANTS
  WalletOrders,   \* bound: orders in a behaviour
  WalletQty,      \* bound: lots of quote of one order
  Deposit,        \* what the account holds of each ticker at the start
  BasePerQuote    \* lots of base one lot of quote is worth

VARIABLES
  balance,     \* the wallet: ticker -> quantity
  reserves,    \* reserves_: order id -> reserved_qty, 0 when there is no entry
  thrown,      \* Update threw in its handler: the program is down
  side,        \* side of each order
  size,        \* its lots of quote
  executed,    \* the lots of them executed when it reached the exchange
  stage,       \* what became of it at the exchange
  free,        \* the account at the exchange: ticker -> quantity not locked
  answers,     \* parsed answers not handled yet, in no order
  lost,        \* history: the answers that never arrived
  misposted    \* history: ticker -> what Update added beyond what the exchange gave

walletVars == <<balance, reserves, thrown, side, size, executed, stage, free,
                answers, lost, misposted>>

\* What the constants are.
WalletAssumption ==
  WalletOrders \in Nat /\ WalletQty \in Nat /\ Deposit \in Nat /\ BasePerQuote \in Nat

-----------------------------------------------------------------------------

WalletOrderIds == 1 .. WalletOrders

NoOrder == 0                       \* kOrderIdInvalid

Tickers == {"base", "quote"}       \* trading_pair.first, trading_pair.second

WalletSides == {"kAsk", "kBid"}    \* BUY, SELL

WalletStages == {"unused", "sent", "resting", "filled", "cancelled", "rejected"}

Pays(s) == IF s = "kAsk" THEN "quote" ELSE "base"

Receives(s) == IF s = "kAsk" THEN "base" ELSE "quote"

\* q lots of quote in lots of the ticker.
Lots(ticker, q) == IF ticker = "base" THEN BasePerQuote * q ELSE q

Add(account, ticker, q) == [account EXCEPT ![ticker] = @ + q]

\* exec_qty counts base.  static_cast<Qty>(executed_qty * 10^precision) in
\* doubles may cut a lot off.
ExecQty(q) ==
  LET base == Lots("base", q) IN {base, IF base > 0 THEN base - 1 ELSE 0}

Answers ==
  [exchange : {"kBinance", "kInvalid"}, id : WalletOrderIds \cup {NoOrder},
   type : {"INVALID", "ACCEPTED", "CANCELED", "FILLED"}, exec : Nat]

\* FamilyLimitOrder's parser, of the answer to a new order.
Reply(id, q, exec) ==
  [exchange |-> "kBinance", id |-> id,
   type |-> IF q = 0 THEN "ACCEPTED" ELSE "FILLED", exec |-> exec]

\* FamilyCancelOrder's parser, of the answer to a cancel.
Receipt(id) == [exchange |-> "kBinance", id |-> id, type |-> "CANCELED", exec |-> 0]

\* The errors.  That of a new order has no symbol, and the parser returns {}.
\* That of a cancel has no origClientOrderId: reading it throws, and the parser
\* goes on to the line that sets exchange_id.
Rejection == [exchange |-> "kInvalid", id |-> NoOrder, type |-> "INVALID", exec |-> 0]

CancelError == [exchange |-> "kBinance", id |-> NoOrder, type |-> "INVALID", exec |-> 0]

IsReply(a, id) == a.id = id /\ a.type \in {"ACCEPTED", "FILLED"}

WalletInit ==
  /\ balance = [t \in Tickers |-> Deposit]
  /\ reserves = [id \in WalletOrderIds |-> 0]
  /\ thrown = FALSE
  /\ side = [id \in WalletOrderIds |-> "kAsk"]
  /\ size = [id \in WalletOrderIds |-> 0]
  /\ executed = [id \in WalletOrderIds |-> 0]
  /\ stage = [id \in WalletOrderIds |-> "unused"]
  /\ free = [t \in Tickers |-> Deposit]
  /\ answers = {}
  /\ lost = {}
  /\ misposted = [t \in Tickers |-> 0]

-----------------------------------------------------------------------------

CanReserve(ticker, qty) == balance[ticker] >= qty

\* Reserve, reached from OnNewSignal; a false return is a stuttering step.
\* The order it is for is new.
Reserve(id, s, q) ==
  LET qty == Lots(Pays(s), q) IN
  /\ ~thrown /\ stage[id] = "unused"
  /\ CanReserve(Pays(s), qty)
  /\ reserves' = [reserves EXCEPT ![id] = qty]
  /\ balance' = Add(balance, Pays(s), -qty)
  /\ stage' = [stage EXCEPT ![id] = "sent"]
  /\ side' = [side EXCEPT ![id] = s]
  /\ size' = [size EXCEPT ![id] = q]
  /\ UNCHANGED <<thrown, executed, free, answers, lost, misposted>>

\* reserves_.contains(order_id).
Contains(id) == id \in WalletOrderIds /\ reserves[id] > 0

Forget(id) == reserves' = [reserves EXCEPT ![id] = 0]

\* The whole reservation goes back, whatever part of the order was executed.
Refund(id) ==
  /\ balance' = Add(balance, Pays(side[id]), reserves[id])
  /\ Forget(id)
  /\ misposted' = Add(misposted, Pays(side[id]), Lots(Pays(side[id]), executed[id]))
  /\ UNCHANGED thrown

\* ACCEPTED and CANCEL_REJECTED: "clear reserved money".  No parser produces
\* the second.
UpdateAccepted(id) ==
  /\ Forget(id)
  /\ UNCHANGED <<balance, thrown, misposted>>

\* CANCELED.  For an id without an entry reserves_[order_id] makes one whose
\* ticker is invalid, and at() throws.
UpdateCanceled(id) ==
  IF Contains(id) THEN Refund(id)
  ELSE thrown' = TRUE /\ UNCHANGED <<balance, reserves, misposted>>

\* Mutant of Credited: the ticker paid with is credited.
CreditedToPayer(id) == Pays(side[id])

\* The ticker FILLED credits: first for kAsk, second for kBid.
Credited(id) == IF side[id] = "kAsk" THEN "base" ELSE "quote"

\* By how much exec_qty exceeds what the order received.
Surplus(id, exec) ==
  LET received == Lots(Receives(side[id]), executed[id]) IN
  IF exec > received THEN exec - received ELSE 0

\* Mutant of UpdateFilled: the reservation is kept.
UpdateFilledKeeps(id, exec) ==
  /\ balance' = Add(balance, Credited(id), exec)
  /\ misposted' = Add(misposted, Receives(side[id]), Surplus(id, exec))
  /\ UNCHANGED <<reserves, thrown>>

\* FILLED: exec_qty is added as it is, whatever the ticker.  It counts base, so
\* a sale, which receives quote, is credited with too much when quote is the
\* dearer of the two.
UpdateFilled(id, exec) ==
  /\ Forget(id)
  /\ balance' = Add(balance, Credited(id), exec)
  /\ misposted' = Add(misposted, Receives(side[id]), Surplus(id, exec))
  /\ UNCHANGED thrown

\* INVALID: a refund, for an id with an entry.
UpdateInvalid(id) ==
  IF Contains(id) THEN Refund(id) ELSE UNCHANGED <<balance, reserves, thrown, misposted>>

\* exchange::Wallet::Update, which returns at once without an exchange id, and
\* ::Wallet::Update.
Update(a) ==
  /\ ~thrown /\ a \in answers
  /\ answers' = answers \ {a}
  /\ \/ a.exchange = "kInvalid" /\ UNCHANGED <<balance, reserves, thrown, misposted>>
     \/ /\ a.exchange # "kInvalid"
        /\ \/ a.type = "ACCEPTED" /\ UpdateAccepted(a.id)
           \/ a.type = "CANCELED" /\ UpdateCanceled(a.id)
           \/ a.type = "FILLED" /\ UpdateFilled(a.id, a.exec)
           \/ a.type = "INVALID" /\ UpdateInvalid(a.id)
  /\ UNCHANGED <<side, size, executed, stage, free, lost>>

-----------------------------------------------------------------------------

\* The exchange executes q lots of a new order, locks the rest and answers.
Execute(id, q) ==
  LET pays == Pays(side[id])
      receives == Receives(side[id])
  IN
  /\ stage[id] = "sent"
  /\ q <= size[id]
  /\ free[pays] >= Lots(pays, size[id])
  /\ free' = Add(Add(free, pays, -Lots(pays, size[id])), receives, Lots(receives, q))
  /\ executed' = [executed EXCEPT ![id] = q]
  /\ stage' = [stage EXCEPT ![id] = IF q = size[id] THEN "filled" ELSE "resting"]
  /\ \E exec \in ExecQty(q) : answers' = answers \cup {Reply(id, q, exec)}
  /\ UNCHANGED <<balance, reserves, thrown, side, size, lost, misposted>>

\* The exchange rejects a new order and answers, or never receives it.
Reject(id) ==
  /\ stage[id] = "sent"
  /\ stage' = [stage EXCEPT ![id] = "rejected"]
  /\ answers' \in {answers, answers \cup {Rejection}}
  /\ UNCHANGED <<balance, reserves, thrown, side, size, executed, free, lost, misposted>>

\* The exchange cancels a resting order, unlocks the remainder and answers.
Cancel(id) ==
  LET pays == Pays(side[id]) IN
  /\ stage[id] = "resting"
  /\ stage' = [stage EXCEPT ![id] = "cancelled"]
  /\ free' = Add(free, pays, Lots(pays, size[id] - executed[id]))
  /\ answers' = answers \cup {Receipt(id)}
  /\ UNCHANGED <<balance, reserves, thrown, side, size, executed, lost, misposted>>

\* A cancel of an order that does not rest is answered with an error.
CancelFails(id) ==
  /\ stage[id] \notin {"unused", "resting"}
  /\ answers' = answers \cup {CancelError}
  /\ UNCHANGED <<balance, reserves, thrown, side, size, executed, stage, free,
                 lost, misposted>>

\* A later trade fills the remainder; the program is not told.
FillRest(id) ==
  LET receives == Receives(side[id]) IN
  /\ stage[id] = "resting"
  /\ stage' = [stage EXCEPT ![id] = "filled"]
  /\ free' = Add(free, receives, Lots(receives, size[id] - executed[id]))
  /\ UNCHANGED <<balance, reserves, thrown, side, size, executed, answers, lost,
                 misposted>>

\* The connection fails before the answer is read.
LoseAnswer(a) ==
  /\ a \in answers
  /\ answers' = answers \ {a}
  /\ lost' = lost \cup {a}
  /\ UNCHANGED <<balance, reserves, thrown, side, size, executed, stage, free,
                 misposted>>

WalletNext ==
  \/ \E id \in WalletOrderIds :
       \/ \E s \in WalletSides, q \in 1 .. WalletQty : Reserve(id, s, q)
       \/ \E q \in 0 .. WalletQty : Execute(id, q)
       \/ Reject(id)
       \/ Cancel(id)
       \/ CancelFails(id)
       \/ FillRest(id)
  \/ \E a \in answers : Update(a) \/ LoseAnswer(a)

WalletSpec == WalletInit /\ [][WalletNext]_walletVars

-----------------------------------------------------------------------------

\* Types of the wallet and of the account; a wallet never goes below zero.
WalletTypeOK ==
  /\ balance \in [Tickers -> Nat]
  /\ reserves \in [WalletOrderIds -> Nat]
  /\ thrown \in BOOLEAN
  /\ side \in [WalletOrderIds -> WalletSides]
  /\ size \in [WalletOrderIds -> Nat]
  /\ executed \in [WalletOrderIds -> Nat]
  /\ stage \in [WalletOrderIds -> WalletStages]
  /\ free \in [Tickers -> Nat]
  /\ answers \subseteq Answers
  /\ lost \subseteq Answers
  /\ misposted \in [Tickers -> Nat]

\* "value - current number this asset" (wallet_asset.h): the wallet never shows
\* more of a ticker than the account has free.  The code does not keep this: see
\* Refund and UpdateFilled.
NeverOverstates == \A t \in Tickers : balance[t] <= free[t]

\* However the answers to Update are lost and reordered, the wallet's balances
\* stay in range and exceed what the account has free by no more than the two
\* errors of Update add up to: the executed part of each order it refunded
\* whole, and, for each sale, the base it credited as quote beyond its worth.
\* Up to those errors an order that Reserve let through is covered when it
\* reaches the exchange, on top of all the wallet still offers.
WalletOverstatesOnlyMisposted ==
  /\ WalletTypeOK
  /\ \A t \in Tickers : balance[t] <= free[t] + misposted[t]
  /\ \A id \in WalletOrderIds : stage[id] = "sent" =>
       LET pays == Pays(side[id]) IN
       balance[pays] + Lots(pays, size[id]) <= free[pays] + misposted[pays]

\* Funds stay reserved for an order that is over, with no answer to it on its
\* way, only when the exchange rejected it or never received it, or when the
\* answer to it was lost and so was that to its cancel, if it was cancelled: any
\* answer with an exchange id that Update handles ends the reservation.  What
\* stays is the whole of it.
WalletReservedForeverOnlyIfUnanswered ==
  \A id \in WalletOrderIds :
    /\ stage[id] \in {"filled", "cancelled", "rejected"} /\ reserves[id] > 0
    /\ \A a \in answers : a.id # id
    =>
    /\ reserves[id] = Lots(Pays(side[id]), size[id])
    /\ \/ stage[id] = "rejected"
       \/ /\ \E a \in lost : IsReply(a, id)
          /\ stage[id] = "cancelled" => Receipt(id) \in lost

\* Update returns normally: "no exceptions were thrown" for an order id that is
\* not in reserves_ (wallet_asset.cc).
NeverThrows == ~thrown

=============================================================================
