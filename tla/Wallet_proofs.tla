---------------------------- MODULE Wallet_proofs ----------------------------
(***************************************************************************)
(* The exchange wallet reserves before an order is sent and releases when  *)
(* the answer arrives.  Two facts about it, for every number of orders,    *)
(* every quantity, deposit and price, with answers lost and reordered: a   *)
(* reservation outlives its order only if no answer to the order that has  *)
(* an exchange id was handled, and the wallet shows more than the account  *)
(* has free only by the two errors of Update.                              *)
(*                                                                         *)
(* The second rests on a ledger: what the wallet shows of a ticker, plus   *)
(* what it set aside for orders on their way and what the answers on their *)
(* way may still add, is at most what the account has free plus the        *)
(* errors.  A sum over the orders is the cardinality of a set of tokens,   *)
(* one per owed lot.                                                       *)
(***************************************************************************)
EXTENDS Wallet, FiniteSetTheorems, TLAPS

-----------------------------------------------------------------------------
\* Amounts are naturals, and an order pays with one ticker and receives the other.
LEMMA LotsNat ==
  ASSUME WalletAssumption
  PROVE  /\ \A t \in Tickers : \A q \in Nat : Lots(t, q) \in Nat
         /\ \A s \in WalletSides : Pays(s) \in Tickers /\ Receives(s) \in Tickers /\ Pays(s) # Receives(s)
<1>1. \A q \in Nat : BasePerQuote * q \in Nat
  BY DEF WalletAssumption
<1> QED
  BY <1>1, Zenon DEF Lots, Tickers, WalletSides, Pays, Receives

(* The two parts of an amount make up the whole, in either ticker.         *)
LEMMA LotsSplit ==
  ASSUME WalletAssumption, NEW t \in Tickers, NEW q \in Nat, NEW e \in Nat, e <= q
  PROVE  q - e \in Nat /\ Lots(t, q - e) + Lots(t, e) = Lots(t, q)
<1>1. q - e \in Nat /\ (q - e) + e = q
  OBVIOUS
<1>2. BasePerQuote * (q - e) + BasePerQuote * e = BasePerQuote * q
  BY DEF WalletAssumption
<1> QED
  BY <1>1, <1>2 DEF Lots

(* An account changed by q.                                                *)
LEMMA AddTo ==
  ASSUME NEW account \in [Tickers -> Nat], NEW t \in Tickers, NEW q \in Int,
         account[t] + q >= 0
  PROVE  /\ Add(account, t, q) \in [Tickers -> Nat]
         /\ Add(account, t, q)[t] = account[t] + q
         /\ \A u \in Tickers : u # t => Add(account, t, q)[u] = account[u]
<1>1. account[t] + q \in Nat
  OBVIOUS
<1> QED
  BY <1>1, Zenon DEF Add

(* An account that only gains.                                             *)
LEMMA AddNat ==
  ASSUME NEW account \in [Tickers -> Nat], NEW t \in Tickers, NEW q \in Nat
  PROVE  /\ Add(account, t, q) \in [Tickers -> Nat]
         /\ Add(account, t, q)[t] = account[t] + q
         /\ \A u \in Tickers : u # t => Add(account, t, q)[u] = account[u]
<1>1. q \in Int /\ account[t] + q >= 0
  OBVIOUS
<1> QED
  BY <1>1, AddTo, Zenon

(* What the types say of one order.                                        *)
LEMMA OfOrder ==
  ASSUME WalletAssumption, WalletTypeOK, NEW id \in WalletOrderIds
  PROVE  /\ Pays(side[id]) \in Tickers /\ Receives(side[id]) \in Tickers
         /\ Pays(side[id]) # Receives(side[id])
         /\ reserves[id] \in Nat /\ size[id] \in Nat /\ executed[id] \in Nat
         /\ \A t \in Tickers : Lots(t, size[id]) \in Nat /\ Lots(t, executed[id]) \in Nat
<1>1. /\ side[id] \in WalletSides
      /\ reserves[id] \in Nat /\ size[id] \in Nat /\ executed[id] \in Nat
  BY Zenon DEF WalletTypeOK
<1> QED
  BY <1>1, LotsNat, Zenon

(* The answers are well formed; in particular exec_qty is a natural.       *)
LEMMA AnswersTyped ==
  ASSUME WalletAssumption, NEW id \in WalletOrderIds
  PROVE  /\ Rejection \in Answers /\ CancelError \in Answers /\ Receipt(id) \in Answers
         /\ \A q \in Nat : \A exec \in ExecQty(q) : exec \in Nat /\ Reply(id, q, exec) \in Answers
<1>1. ASSUME NEW q \in Nat, NEW exec \in ExecQty(q) PROVE exec \in Nat
  <2>1. Lots("base", q) \in Nat
    BY LotsNat, Zenon DEF Tickers
  <2> HIDE DEF Lots
  <2> QED
    BY <2>1 DEF ExecQty
<1>2. 0 \in Nat
  OBVIOUS
<1>3. Rejection \in Answers /\ CancelError \in Answers /\ Receipt(id) \in Answers
  BY <1>2, Zenon DEF Rejection, CancelError, Receipt, Answers
<1>4. ASSUME NEW q \in Nat, NEW exec \in ExecQty(q) PROVE Reply(id, q, exec) \in Answers
  <2>1. exec \in Nat
    BY <1>1, Zenon
  <2> QED
    BY <2>1, Zenon DEF Reply, Answers
<1> QED
  BY <1>1, <1>3, <1>4, Zenon

-----------------------------------------------------------------------------
(* The effect of the steps, order by order and ticker by ticker.           *)

LEMMA ReserveEffect ==
  ASSUME WalletAssumption, WalletTypeOK,
         NEW id \in WalletOrderIds, NEW s \in WalletSides, NEW q \in 1 .. WalletQty, Reserve(id, s, q)
  PROVE  /\ stage[id] = "unused" /\ Pays(s) \in Tickers /\ Lots(Pays(s), q) \in Nat /\ q \in Nat
         /\ balance'[Pays(s)] = balance[Pays(s)] - Lots(Pays(s), q)
         /\ \A t \in Tickers : t # Pays(s) => balance'[t] = balance[t]
         /\ reserves'[id] = Lots(Pays(s), q) /\ stage'[id] = "sent" /\ side'[id] = s /\ size'[id] = q
         /\ \A x \in WalletOrderIds : x # id =>
              /\ reserves'[x] = reserves[x] /\ stage'[x] = stage[x]
              /\ side'[x] = side[x] /\ size'[x] = size[x]
         /\ UNCHANGED <<thrown, executed, free, answers, lost, misposted>>
         /\ WalletTypeOK'
<1> DEFINE p == Pays(s)
           lots == Lots(p, q)
<1>1. q \in Nat
  BY DEF WalletAssumption
<1>2. p \in Tickers /\ lots \in Nat
  BY <1>1, LotsNat, Zenon
<1>3. /\ stage[id] = "unused" /\ balance[p] >= lots
      /\ reserves' = [reserves EXCEPT ![id] = lots] /\ balance' = Add(balance, p, -lots)
      /\ stage' = [stage EXCEPT ![id] = "sent"] /\ side' = [side EXCEPT ![id] = s]
      /\ size' = [size EXCEPT ![id] = q]
      /\ UNCHANGED <<thrown, executed, free, answers, lost, misposted>>
  BY Zenon DEF Reserve, CanReserve
<1>4. /\ balance \in [Tickers -> Nat] /\ reserves \in [WalletOrderIds -> Nat]
      /\ stage \in [WalletOrderIds -> WalletStages] /\ side \in [WalletOrderIds -> WalletSides]
      /\ size \in [WalletOrderIds -> Nat] /\ "sent" \in WalletStages
  BY Zenon DEF WalletTypeOK, WalletStages
<1> HIDE DEF p, lots
<1>5. balance[p] \in Nat
  BY <1>2, <1>4, Zenon
<1>6. -lots \in Int /\ balance[p] + (-lots) >= 0 /\ balance[p] + (-lots) = balance[p] - lots
  BY <1>2, <1>3, <1>5
<1>7. /\ balance' \in [Tickers -> Nat] /\ balance'[p] = balance[p] - lots
      /\ \A t \in Tickers : t # p => balance'[t] = balance[t]
  BY <1>2, <1>3, <1>4, <1>6, AddTo, Zenon
<1>8. /\ reserves'[id] = lots /\ stage'[id] = "sent" /\ side'[id] = s /\ size'[id] = q
      /\ \A x \in WalletOrderIds : x # id =>
           /\ reserves'[x] = reserves[x] /\ stage'[x] = stage[x]
           /\ side'[x] = side[x] /\ size'[x] = size[x]
  BY <1>3, <1>4, Zenon
<1>9. /\ reserves' \in [WalletOrderIds -> Nat] /\ stage' \in [WalletOrderIds -> WalletStages]
      /\ side' \in [WalletOrderIds -> WalletSides] /\ size' \in [WalletOrderIds -> Nat]
  BY <1>1, <1>2, <1>3, <1>4, Zenon
<1>10. WalletTypeOK'
  BY <1>3, <1>7, <1>9, Zenon DEF WalletTypeOK
<1> QED
  BY <1>1, <1>2, <1>3, <1>7, <1>8, <1>10, Zenon DEF p, lots

LEMMA ExecuteEffect ==
  ASSUME WalletAssumption, WalletTypeOK,
         NEW id \in WalletOrderIds, NEW q \in 0 .. WalletQty, Execute(id, q)
  PROVE  LET p == Pays(side[id])
             r == Receives(side[id])
         IN
         /\ stage[id] = "sent" /\ q \in Nat /\ q <= size[id] /\ stage'[id] \in {"filled", "resting"}
         /\ executed'[id] = q
         /\ \A x \in WalletOrderIds : x # id => stage'[x] = stage[x] /\ executed'[x] = executed[x]
         /\ free'[p] = free[p] - Lots(p, size[id]) /\ free'[r] = free[r] + Lots(r, q)
         /\ Lots(r, q) \in Nat
         /\ \E exec \in Nat : answers' = answers \cup {Reply(id, q, exec)}
         /\ UNCHANGED <<balance, reserves, thrown, side, size, lost, misposted>>
         /\ WalletTypeOK'
<1> DEFINE p == Pays(side[id])
           r == Receives(side[id])
           out == Lots(p, size[id])
           in == Lots(r, q)
<1>1. q \in Nat
  BY DEF WalletAssumption
<1>2. p \in Tickers /\ r \in Tickers /\ p # r /\ out \in Nat /\ in \in Nat
  BY <1>1, OfOrder, LotsNat, Zenon
<1>3. /\ stage[id] = "sent" /\ q <= size[id] /\ free[p] >= out
      /\ free' = Add(Add(free, p, -out), r, in)
      /\ executed' = [executed EXCEPT ![id] = q]
      /\ stage' = [stage EXCEPT ![id] = IF q = size[id] THEN "filled" ELSE "resting"]
      /\ UNCHANGED <<balance, reserves, thrown, side, size, lost, misposted>>
  BY Zenon DEF Execute
<1>4. PICK exec \in ExecQty(q) : answers' = answers \cup {Reply(id, q, exec)}
  BY Zenon DEF Execute
<1>5. /\ free \in [Tickers -> Nat] /\ executed \in [WalletOrderIds -> Nat]
      /\ stage \in [WalletOrderIds -> WalletStages] /\ answers \subseteq Answers
      /\ "filled" \in WalletStages /\ "resting" \in WalletStages
  BY Zenon DEF WalletTypeOK, WalletStages
<1>6. exec \in Nat /\ answers' \subseteq Answers
  <2>1. exec \in Nat /\ Reply(id, q, exec) \in Answers
    BY <1>1, AnswersTyped, Zenon
  <2> QED
    BY <1>4, <1>5, <2>1, Zenon
<1> HIDE DEF p, r, out, in
<1>7. free[p] \in Nat
  BY <1>2, <1>5, Zenon
<1>8. -out \in Int /\ free[p] + (-out) >= 0 /\ free[p] + (-out) = free[p] - out
  BY <1>2, <1>3, <1>7
<1>9. /\ Add(free, p, -out) \in [Tickers -> Nat] /\ Add(free, p, -out)[p] = free[p] - out
      /\ Add(free, p, -out)[r] = free[r]
  BY <1>2, <1>5, <1>8, AddTo, Zenon
<1>10. free' \in [Tickers -> Nat] /\ free'[p] = free[p] - out /\ free'[r] = free[r] + in
  <2> DEFINE locked == Add(free, p, -out)
  <2> HIDE DEF locked
  <2>1. locked \in [Tickers -> Nat] /\ locked[p] = free[p] - out /\ locked[r] = free[r]
    BY <1>9, Zenon DEF locked
  <2>2. free' = Add(locked, r, in)
    BY <1>3, Zenon DEF locked
  <2>3. /\ Add(locked, r, in) \in [Tickers -> Nat] /\ Add(locked, r, in)[r] = locked[r] + in
        /\ Add(locked, r, in)[p] = locked[p]
    BY <1>2, <2>1, AddNat, Zenon
  <2> QED
    BY <2>1, <2>2, <2>3, Zenon
<1>11. /\ executed'[id] = q /\ stage'[id] \in {"filled", "resting"}
       /\ \A x \in WalletOrderIds : x # id => stage'[x] = stage[x] /\ executed'[x] = executed[x]
       /\ executed' \in [WalletOrderIds -> Nat] /\ stage' \in [WalletOrderIds -> WalletStages]
  BY <1>1, <1>3, <1>5, Zenon
<1>12. WalletTypeOK'
  BY <1>3, <1>6, <1>10, <1>11, Zenon DEF WalletTypeOK
<1> QED
  BY <1>1, <1>2, <1>3, <1>4, <1>6, <1>10, <1>11, <1>12, Zenon DEF p, r, out, in

LEMMA RejectEffect ==
  ASSUME WalletAssumption, WalletTypeOK, NEW id \in WalletOrderIds, Reject(id)
  PROVE  /\ stage[id] = "sent" /\ stage'[id] = "rejected"
         /\ \A x \in WalletOrderIds : x # id => stage'[x] = stage[x]
         /\ answers' = answers \/ answers' = answers \cup {Rejection}
         /\ UNCHANGED <<balance, reserves, thrown, side, size, executed, free, lost, misposted>>
         /\ WalletTypeOK'
<1>1. /\ stage[id] = "sent" /\ stage' = [stage EXCEPT ![id] = "rejected"]
      /\ answers' = answers \/ answers' = answers \cup {Rejection}
      /\ UNCHANGED <<balance, reserves, thrown, side, size, executed, free, lost, misposted>>
  BY Zenon DEF Reject
<1>2. /\ stage \in [WalletOrderIds -> WalletStages] /\ "rejected" \in WalletStages
      /\ answers \subseteq Answers /\ Rejection \in Answers
  BY AnswersTyped, Zenon DEF WalletTypeOK, WalletStages
<1>3. /\ stage'[id] = "rejected" /\ stage' \in [WalletOrderIds -> WalletStages]
      /\ \A x \in WalletOrderIds : x # id => stage'[x] = stage[x]
  BY <1>1, <1>2, Zenon
<1>4. answers' \subseteq Answers
  BY <1>1, <1>2, Zenon
<1>5. WalletTypeOK'
  BY <1>1, <1>3, <1>4, Zenon DEF WalletTypeOK
<1> QED
  BY <1>1, <1>3, <1>5, Zenon

LEMMA CancelEffect ==
  ASSUME WalletAssumption, WalletTypeOK, NEW id \in WalletOrderIds, executed[id] <= size[id], Cancel(id)
  PROVE  LET p == Pays(side[id]) IN
         /\ stage[id] = "resting" /\ stage'[id] = "cancelled"
         /\ \A x \in WalletOrderIds : x # id => stage'[x] = stage[x]
         /\ Lots(p, size[id] - executed[id]) \in Nat
         /\ free'[p] = free[p] + Lots(p, size[id] - executed[id])
         /\ \A t \in Tickers : t # p => free'[t] = free[t]
         /\ answers' = answers \cup {Receipt(id)}
         /\ UNCHANGED <<balance, reserves, thrown, side, size, executed, lost, misposted>>
         /\ WalletTypeOK'
<1> DEFINE p == Pays(side[id])
           rest == Lots(p, size[id] - executed[id])
<1>1. /\ stage[id] = "resting" /\ stage' = [stage EXCEPT ![id] = "cancelled"]
      /\ free' = Add(free, p, rest) /\ answers' = answers \cup {Receipt(id)}
      /\ UNCHANGED <<balance, reserves, thrown, side, size, executed, lost, misposted>>
  BY Zenon DEF Cancel
<1>2. p \in Tickers /\ rest \in Nat
  <2>1. p \in Tickers /\ size[id] - executed[id] \in Nat
    BY OfOrder, LotsSplit, Zenon
  <2> QED
    BY <2>1, LotsNat, Zenon
<1>3. /\ stage \in [WalletOrderIds -> WalletStages] /\ "cancelled" \in WalletStages
      /\ answers \subseteq Answers /\ Receipt(id) \in Answers /\ free \in [Tickers -> Nat]
  BY AnswersTyped, Zenon DEF WalletTypeOK, WalletStages
<1> HIDE DEF p, rest
<1>4. /\ free' \in [Tickers -> Nat] /\ free'[p] = free[p] + rest
      /\ \A t \in Tickers : t # p => free'[t] = free[t]
  BY <1>1, <1>2, <1>3, AddNat, Zenon
<1>5. /\ stage'[id] = "cancelled" /\ stage' \in [WalletOrderIds -> WalletStages]
      /\ \A x \in WalletOrderIds : x # id => stage'[x] = stage[x]
  BY <1>1, <1>3, Zenon
<1>6. answers' \subseteq Answers
  BY <1>1, <1>3, Zenon
<1>7. WalletTypeOK'
  BY <1>1, <1>4, <1>5, <1>6, Zenon DEF WalletTypeOK
<1> QED
  BY <1>1, <1>2, <1>4, <1>5, <1>7, Zenon DEF p, rest

LEMMA CancelFailsEffect ==
  ASSUME WalletAssumption, WalletTypeOK, NEW id \in WalletOrderIds, CancelFails(id)
  PROVE  /\ answers' = answers \cup {CancelError}
         /\ UNCHANGED <<balance, reserves, thrown, side, size, executed, stage, free, lost, misposted>>
         /\ WalletTypeOK'
<1>1. /\ answers' = answers \cup {CancelError}
      /\ UNCHANGED <<balance, reserves, thrown, side, size, executed, stage, free, lost, misposted>>
  BY Zenon DEF CancelFails
<1>2. answers \subseteq Answers /\ CancelError \in Answers
  BY AnswersTyped, Zenon DEF WalletTypeOK
<1>3. answers' \subseteq Answers
  BY <1>1, <1>2, Zenon
<1> QED
  BY <1>1, <1>3, Zenon DEF WalletTypeOK

LEMMA FillRestEffect ==
  ASSUME WalletAssumption, WalletTypeOK, NEW id \in WalletOrderIds, executed[id] <= size[id], FillRest(id)
  PROVE  /\ stage[id] = "resting" /\ stage'[id] = "filled"
         /\ \A x \in WalletOrderIds : x # id => stage'[x] = stage[x]
         /\ \A t \in Tickers : free[t] <= free'[t]
         /\ UNCHANGED <<balance, reserves, thrown, side, size, executed, answers, lost, misposted>>
         /\ WalletTypeOK'
<1> DEFINE r == Receives(side[id])
           rest == Lots(r, size[id] - executed[id])
<1>1. /\ stage[id] = "resting" /\ stage' = [stage EXCEPT ![id] = "filled"]
      /\ free' = Add(free, r, rest)
      /\ UNCHANGED <<balance, reserves, thrown, side, size, executed, answers, lost, misposted>>
  BY Zenon DEF FillRest
<1>2. r \in Tickers /\ rest \in Nat
  <2>1. r \in Tickers /\ size[id] - executed[id] \in Nat
    BY OfOrder, LotsSplit, Zenon
  <2> QED
    BY <2>1, LotsNat, Zenon
<1>3. /\ stage \in [WalletOrderIds -> WalletStages] /\ "filled" \in WalletStages
      /\ free \in [Tickers -> Nat]
  BY Zenon DEF WalletTypeOK, WalletStages
<1> HIDE DEF r, rest
<1>4. /\ free' \in [Tickers -> Nat] /\ free'[r] = free[r] + rest
      /\ \A t \in Tickers : t # r => free'[t] = free[t]
  BY <1>1, <1>2, <1>3, AddNat, Zenon
<1>5. ASSUME NEW t \in Tickers PROVE free[t] <= free'[t]
  <2>1. free[t] \in Nat
    BY <1>3, Zenon
  <2>2. free'[t] = free[t] \/ free'[t] = free[t] + rest
    BY <1>4, Zenon
  <2> QED
    BY <1>2, <2>1, <2>2
<1>6. /\ stage'[id] = "filled" /\ stage' \in [WalletOrderIds -> WalletStages]
      /\ \A x \in WalletOrderIds : x # id => stage'[x] = stage[x]
  BY <1>1, <1>3, Zenon
<1>7. WalletTypeOK'
  BY <1>1, <1>4, <1>6, Zenon DEF WalletTypeOK
<1> QED
  BY <1>1, <1>5, <1>6, <1>7, Zenon

LEMMA LoseEffect ==
  ASSUME WalletTypeOK, NEW a \in answers, LoseAnswer(a)
  PROVE  /\ answers' = answers \ {a} /\ lost' = lost \cup {a}
         /\ UNCHANGED <<balance, reserves, thrown, side, size, executed, stage, free, misposted>>
         /\ WalletTypeOK'
<1>1. /\ answers' = answers \ {a} /\ lost' = lost \cup {a}
      /\ UNCHANGED <<balance, reserves, thrown, side, size, executed, stage, free, misposted>>
  BY Zenon DEF LoseAnswer
<1>2. answers \subseteq Answers /\ lost \subseteq Answers
  BY Zenon DEF WalletTypeOK
<1>3. answers' \subseteq Answers /\ lost' \subseteq Answers
  BY <1>1, <1>2, Zenon
<1> QED
  BY <1>1, <1>3, Zenon DEF WalletTypeOK

-----------------------------------------------------------------------------
(* What holds of the answers on their way.  An error names no order; any    *)
(* other answer names one that reached the exchange; CANCELED answers a     *)
(* cancelled order, and an order has one reply.                             *)
AnswersInv ==
  \A a \in answers :
    /\ a.type = "INVALID" => a.id = NoOrder
    /\ a.type # "INVALID" => /\ a.id \in WalletOrderIds /\ a.exchange = "kBinance"
                             /\ stage[a.id] \notin {"unused", "sent"}
    /\ a.type = "CANCELED" => a = Receipt(a.id) /\ stage[a.id] = "cancelled"
    /\ \A b \in answers : IsReply(a, a.id) /\ IsReply(b, a.id) => b = a

\* No more of an order is executed than it asks for, and nothing before it arrives.
ExecutedInv ==
  \A id \in WalletOrderIds :
    executed[id] <= size[id] /\ (stage[id] \in {"unused", "sent"} => executed[id] = 0)

(* Why only an unanswered order keeps its reservation: as long as there is  *)
(* one it is whole, and an order the exchange took has its answers on their *)
(* way or lost.                                                             *)
Reserved(id) ==
  /\ reserves[id] = Lots(Pays(side[id]), size[id])
  /\ \/ stage[id] \in {"unused", "sent", "rejected"}
     \/ /\ \E a \in answers \cup lost : IsReply(a, id)
        /\ stage[id] = "cancelled" => Receipt(id) \in answers \cup lost

ReservationInv == \A id \in WalletOrderIds : reserves[id] > 0 => Reserved(id)

OrdersInv == WalletTypeOK /\ AnswersInv /\ ExecutedInv /\ ReservationInv

(* What Update does with an answer.                                        *)
LEMMA UpdateEffect ==
  ASSUME WalletAssumption, WalletTypeOK, AnswersInv, NEW a \in answers, Update(a)
  PROVE  /\ answers' = answers \ {a}
         /\ UNCHANGED <<side, size, executed, stage, free, lost>>
         /\ \/ a.type = "INVALID" /\ UNCHANGED <<balance, reserves, misposted>>
            \/ /\ a.type # "INVALID" /\ a.id \in WalletOrderIds
               /\ reserves' = [reserves EXCEPT ![a.id] = 0]
               /\ \/ a.type # "FILLED" /\ UNCHANGED <<balance, misposted>>
                  \/ /\ a.type = "CANCELED" /\ reserves[a.id] > 0
                     /\ balance' = Add(balance, Pays(side[a.id]), reserves[a.id])
                     /\ misposted' = Add(misposted, Pays(side[a.id]), Lots(Pays(side[a.id]), executed[a.id]))
                  \/ /\ a.type = "FILLED"
                     /\ balance' = Add(balance, Receives(side[a.id]), a.exec)
                     /\ misposted' = Add(misposted, Receives(side[a.id]), Surplus(a.id, a.exec))
         /\ thrown' \in BOOLEAN
<1>1. /\ a.type = "INVALID" => a.id = NoOrder
      /\ a.type # "INVALID" => a.id \in WalletOrderIds /\ a.exchange = "kBinance"
      /\ a.type \in {"INVALID", "ACCEPTED", "CANCELED", "FILLED"}
  BY Zenon DEF AnswersInv, WalletTypeOK, Answers
<1>2. answers' = answers \ {a} /\ UNCHANGED <<side, size, executed, stage, free, lost>>
  BY Zenon DEF Update
<1>3. reserves \in [WalletOrderIds -> Nat] /\ thrown \in BOOLEAN
  BY Zenon DEF WalletTypeOK
<1>4. CASE a.exchange = "kInvalid" /\ UNCHANGED <<balance, reserves, thrown, misposted>>
  BY <1>1, <1>2, <1>3, <1>4, Zenon
<1>5. CASE a.type = "ACCEPTED" /\ UpdateAccepted(a.id)
  BY <1>1, <1>2, <1>3, <1>5, Zenon DEF UpdateAccepted, Forget
<1>6. CASE a.type = "CANCELED" /\ UpdateCanceled(a.id)
  <2>1. a.id \in WalletOrderIds
    BY <1>1, <1>6, Zenon
  <2>2. CASE Contains(a.id)
    BY <1>2, <1>3, <1>6, <2>1, <2>2, Zenon DEF UpdateCanceled, Refund, Forget, Contains
  <2>3. CASE ~Contains(a.id)
    <3>1. reserves[a.id] = 0
      BY <1>3, <2>1, <2>3 DEF Contains
    <3>2. reserves' = [reserves EXCEPT ![a.id] = 0] /\ UNCHANGED <<balance, misposted>> /\ thrown' = TRUE
      BY <1>3, <1>6, <2>3, <3>1, Zenon DEF UpdateCanceled
    <3> QED
      BY <1>2, <1>6, <2>1, <3>2, Zenon
  <2> QED
    BY <2>2, <2>3, Zenon
<1>7. CASE a.type = "FILLED" /\ UpdateFilled(a.id, a.exec)
  <2>1. Credited(a.id) = Receives(side[a.id])
    BY Zenon DEF Credited, Receives
  <2> QED
    BY <1>1, <1>2, <1>3, <1>7, <2>1, Zenon DEF UpdateFilled, Forget
<1>8. CASE a.type = "INVALID" /\ UpdateInvalid(a.id)
  <2>1. ~Contains(a.id)
    <3>1. NoOrder \notin WalletOrderIds
      BY DEF NoOrder, WalletOrderIds, WalletAssumption
    <3> QED
      BY <1>1, <1>8, <3>1, Zenon DEF Contains
  <2> QED
    BY <1>2, <1>3, <1>8, <2>1, Zenon DEF UpdateInvalid
<1> QED
  BY <1>4, <1>5, <1>6, <1>7, <1>8, Zenon DEF Update

(* What a fill is credited beyond what it received is all it is credited    *)
(* too much.                                                                *)
LEMMA SurplusCovers ==
  ASSUME WalletAssumption, WalletTypeOK, NEW id \in WalletOrderIds, NEW exec \in Nat
  PROVE  /\ Surplus(id, exec) \in Nat
         /\ exec <= Lots(Receives(side[id]), executed[id]) + Surplus(id, exec)
<1> DEFINE received == Lots(Receives(side[id]), executed[id])
<1>1. received \in Nat
  BY OfOrder, Zenon
<1> HIDE DEF received
<1>2. Surplus(id, exec) = IF exec > received THEN exec - received ELSE 0
  BY Zenon DEF Surplus, received
<1>3. Surplus(id, exec) \in Nat /\ exec <= received + Surplus(id, exec)
  BY <1>1, <1>2
<1> QED
  BY <1>3, Zenon DEF received

(* Update keeps the types.                                                 *)
LEMMA UpdateType ==
  ASSUME WalletAssumption, WalletTypeOK, AnswersInv, NEW a \in answers, Update(a)
  PROVE  WalletTypeOK'
<1>1. /\ answers' \subseteq Answers /\ thrown' \in BOOLEAN
      /\ UNCHANGED <<side, size, executed, stage, free, lost>>
  <2>1. answers' = answers \ {a} /\ answers \subseteq Answers
    BY UpdateEffect, Zenon DEF WalletTypeOK
  <2> QED
    BY <2>1, UpdateEffect, Zenon
<1>2. /\ balance \in [Tickers -> Nat] /\ misposted \in [Tickers -> Nat]
      /\ reserves \in [WalletOrderIds -> Nat] /\ a.exec \in Nat /\ 0 \in Nat
  BY Zenon DEF WalletTypeOK, Answers
<1>3. CASE UNCHANGED <<balance, reserves, misposted>>
  BY <1>1, <1>2, <1>3, Zenon DEF WalletTypeOK
<1>4. CASE a.id \in WalletOrderIds /\ reserves' = [reserves EXCEPT ![a.id] = 0]
  <2> DEFINE id == a.id
  <2>1. reserves' \in [WalletOrderIds -> Nat]
    BY <1>2, <1>4, Zenon
  <2>2. /\ Pays(side[id]) \in Tickers /\ Receives(side[id]) \in Tickers /\ reserves[id] \in Nat
        /\ Lots(Pays(side[id]), executed[id]) \in Nat /\ Surplus(id, a.exec) \in Nat
    BY <1>2, <1>4, OfOrder, SurplusCovers, Zenon
  <2>3. /\ Add(balance, Pays(side[id]), reserves[id]) \in [Tickers -> Nat]
        /\ Add(misposted, Pays(side[id]), Lots(Pays(side[id]), executed[id])) \in [Tickers -> Nat]
        /\ Add(balance, Receives(side[id]), a.exec) \in [Tickers -> Nat]
        /\ Add(misposted, Receives(side[id]), Surplus(id, a.exec)) \in [Tickers -> Nat]
    BY <1>2, <2>2, AddNat, Zenon
  <2>4. balance' \in [Tickers -> Nat] /\ misposted' \in [Tickers -> Nat]
    <3>1. \/ UNCHANGED <<balance, misposted>>
          \/ /\ balance' = Add(balance, Pays(side[id]), reserves[id])
             /\ misposted' = Add(misposted, Pays(side[id]), Lots(Pays(side[id]), executed[id]))
          \/ /\ balance' = Add(balance, Receives(side[id]), a.exec)
             /\ misposted' = Add(misposted, Receives(side[id]), Surplus(id, a.exec))
      BY UpdateEffect, Zenon
    <3> QED
      BY <1>2, <2>3, <3>1, Zenon
  <2> QED
    BY <1>1, <2>1, <2>4, Zenon DEF WalletTypeOK
<1> QED
  BY <1>3, <1>4, UpdateEffect, Zenon

-----------------------------------------------------------------------------
(* The answers: fewer of them are in order too.                            *)
LEMMA FewerAnswers ==
  ASSUME AnswersInv, answers' \subseteq answers, UNCHANGED stage
  PROVE  AnswersInv'
BY Zenon DEF AnswersInv

(* An error joins the answers.                                             *)
LEMMA ErrorAdded ==
  ASSUME AnswersInv, NEW e \in {Rejection, CancelError}, answers' = answers \cup {e},
         \A a \in answers : a.type # "INVALID" => stage'[a.id] = stage[a.id]
  PROVE  AnswersInv'
<1>1. e.type = "INVALID" /\ e.id = NoOrder
  <2>1. CASE e = Rejection
    BY <2>1 DEF Rejection
  <2>2. CASE e = CancelError
    BY <2>2 DEF CancelError
  <2> QED
    BY <2>1, <2>2, Zenon
<1>2. \A x : ~IsReply(e, x)
  BY <1>1, Zenon DEF IsReply
<1> SUFFICES ASSUME NEW a \in answers'
             PROVE  /\ a.type = "INVALID" => a.id = NoOrder
                    /\ a.type # "INVALID" => /\ a.id \in WalletOrderIds /\ a.exchange = "kBinance"
                                             /\ stage'[a.id] \notin {"unused", "sent"}
                    /\ a.type = "CANCELED" => a = Receipt(a.id) /\ stage'[a.id] = "cancelled"
                    /\ \A b \in answers' : IsReply(a, a.id) /\ IsReply(b, a.id) => b = a
  BY Zenon DEF AnswersInv
<1>3. CASE a = e
  BY <1>1, <1>2, <1>3, Zenon
<1>4. CASE a \in answers
  <2>1. a.type = "CANCELED" => a.type # "INVALID"
    OBVIOUS
  <2>2. \A b \in answers' : IsReply(a, a.id) /\ IsReply(b, a.id) => b = a
    BY <1>2, <1>4, Zenon DEF AnswersInv
  <2> QED
    BY <1>4, <2>1, <2>2, Zenon DEF AnswersInv
<1> QED
  BY <1>3, <1>4, Zenon

LEMMA AnswersStep ==
  ASSUME WalletAssumption, OrdersInv, WalletNext
  PROVE  AnswersInv'
<1> USE DEF OrdersInv
<1>1. ASSUME NEW id \in WalletOrderIds, NEW s \in WalletSides, NEW q \in 1 .. WalletQty, Reserve(id, s, q)
      PROVE  AnswersInv'
  <2>1. /\ stage[id] = "unused" /\ UNCHANGED answers
        /\ \A x \in WalletOrderIds : x # id => stage'[x] = stage[x]
    BY <1>1, ReserveEffect, Zenon
  <2>2. \A a \in answers : a.type # "INVALID" => a.id # id /\ a.id \in WalletOrderIds
    BY <2>1, Zenon DEF AnswersInv
  <2>3. \A a \in answers : a.type # "INVALID" => stage'[a.id] = stage[a.id]
    BY <2>1, <2>2, Zenon
  <2>4. \A a \in answers : a.type = "CANCELED" => a.type # "INVALID"
    OBVIOUS
  <2> QED
    BY <2>1, <2>3, <2>4, Zenon DEF AnswersInv
<1>2. ASSUME NEW id \in WalletOrderIds, NEW q \in 0 .. WalletQty, Execute(id, q)
      PROVE  AnswersInv'
  <2>1. /\ stage[id] = "sent" /\ stage'[id] \in {"filled", "resting"}
        /\ \A x \in WalletOrderIds : x # id => stage'[x] = stage[x]
    BY <1>2, ExecuteEffect, Zenon
  <2>2. PICK exec \in Nat : answers' = answers \cup {Reply(id, q, exec)}
    BY <1>2, ExecuteEffect, Zenon
  <2> DEFINE r == Reply(id, q, exec)
  <2>3. r.id = id /\ r.exchange = "kBinance" /\ r.type \in {"ACCEPTED", "FILLED"}
    BY Zenon DEF Reply
  <2>4. \A a \in answers : a.type # "INVALID" =>
          a.id # id /\ a.id \in WalletOrderIds /\ stage'[a.id] = stage[a.id]
    BY <2>1, Zenon DEF AnswersInv
  <2>5. \A a \in answers : ~IsReply(a, id)
    BY <2>4, Zenon DEF IsReply
  <2> HIDE DEF r
  <2>6. answers' = answers \cup {r}
    BY <2>2, Zenon DEF r
  <2> SUFFICES ASSUME NEW a \in answers'
               PROVE  /\ a.type = "INVALID" => a.id = NoOrder
                      /\ a.type # "INVALID" => /\ a.id \in WalletOrderIds /\ a.exchange = "kBinance"
                                               /\ stage'[a.id] \notin {"unused", "sent"}
                      /\ a.type = "CANCELED" => a = Receipt(a.id) /\ stage'[a.id] = "cancelled"
                      /\ \A b \in answers' : IsReply(a, a.id) /\ IsReply(b, a.id) => b = a
    BY Zenon DEF AnswersInv
  <2>7. CASE a = r
    <3>1. \A b \in answers' : IsReply(b, id) => b = r
      BY <2>5, <2>6, Zenon
    <3> QED
      BY <2>1, <2>3, <2>7, <3>1, Zenon
  <2>8. CASE a \in answers
    <3>1. IsReply(a, a.id) => a.type # "INVALID"
      BY Zenon DEF IsReply
    <3>2. IsReply(a, a.id) => ~IsReply(r, a.id)
      BY <2>3, <2>4, <2>8, <3>1, Zenon DEF IsReply
    <3>3. \A b \in answers' : IsReply(a, a.id) /\ IsReply(b, a.id) => b = a
      BY <2>6, <2>8, <3>2, Zenon DEF AnswersInv
    <3>4. a.type = "CANCELED" => a.type # "INVALID"
      OBVIOUS
    <3> QED
      BY <2>4, <2>8, <3>3, <3>4, Zenon DEF AnswersInv
  <2> QED
    BY <2>6, <2>7, <2>8, Zenon
<1>3. ASSUME NEW id \in WalletOrderIds, Reject(id) PROVE AnswersInv'
  <2>1. stage[id] = "sent" /\ \A x \in WalletOrderIds : x # id => stage'[x] = stage[x]
    BY <1>3, RejectEffect, Zenon
  <2>2. \A a \in answers : a.type # "INVALID" => stage'[a.id] = stage[a.id]
    BY <2>1, Zenon DEF AnswersInv
  <2>3. CASE answers' = answers
    <3>1. \A a \in answers : a.type = "CANCELED" => a.type # "INVALID"
      OBVIOUS
    <3> QED
      BY <2>2, <2>3, <3>1, Zenon DEF AnswersInv
  <2>4. CASE answers' = answers \cup {Rejection}
    BY <2>2, <2>4, ErrorAdded, Zenon
  <2> QED
    BY <1>3, <2>3, <2>4, RejectEffect, Zenon
<1>4. ASSUME NEW id \in WalletOrderIds, Cancel(id) PROVE AnswersInv'
  <2>1. /\ stage[id] = "resting" /\ stage'[id] = "cancelled"
        /\ \A x \in WalletOrderIds : x # id => stage'[x] = stage[x]
        /\ answers' = answers \cup {Receipt(id)}
    BY <1>4, CancelEffect, Zenon DEF ExecutedInv
  <2>2. /\ Receipt(id).id = id /\ Receipt(id).type = "CANCELED" /\ Receipt(id).exchange = "kBinance"
        /\ \A x : ~IsReply(Receipt(id), x)
    BY Zenon DEF Receipt, IsReply
  <2> SUFFICES ASSUME NEW a \in answers'
               PROVE  /\ a.type = "INVALID" => a.id = NoOrder
                      /\ a.type # "INVALID" => /\ a.id \in WalletOrderIds /\ a.exchange = "kBinance"
                                               /\ stage'[a.id] \notin {"unused", "sent"}
                      /\ a.type = "CANCELED" => a = Receipt(a.id) /\ stage'[a.id] = "cancelled"
                      /\ \A b \in answers' : IsReply(a, a.id) /\ IsReply(b, a.id) => b = a
    BY Zenon DEF AnswersInv
  <2>3. CASE a = Receipt(id)
    BY <2>1, <2>2, <2>3, Zenon
  <2>4. CASE a \in answers
    <3>1. a.type # "INVALID" => /\ a.id \in WalletOrderIds /\ a.exchange = "kBinance"
                                /\ stage'[a.id] \notin {"unused", "sent"}
      BY <2>1, <2>4, Zenon DEF AnswersInv
    <3>2. a.type = "CANCELED" => a = Receipt(a.id) /\ stage'[a.id] = "cancelled"
      <4>1. a.type = "CANCELED" => a.type # "INVALID"
        OBVIOUS
      <4> QED
        BY <2>1, <2>4, <4>1, Zenon DEF AnswersInv
    <3>3. \A b \in answers' : IsReply(a, a.id) /\ IsReply(b, a.id) => b = a
      BY <2>1, <2>2, <2>4, Zenon DEF AnswersInv
    <3> QED
      BY <2>4, <3>1, <3>2, <3>3, Zenon DEF AnswersInv
  <2> QED
    BY <2>1, <2>3, <2>4, Zenon
<1>5. ASSUME NEW id \in WalletOrderIds, CancelFails(id) PROVE AnswersInv'
  <2>1. answers' = answers \cup {CancelError} /\ UNCHANGED stage
    BY <1>5, CancelFailsEffect, Zenon
  <2> QED
    BY <2>1, ErrorAdded, Zenon
<1>6. ASSUME NEW id \in WalletOrderIds, FillRest(id) PROVE AnswersInv'
  <2>1. /\ stage[id] = "resting" /\ stage'[id] = "filled" /\ UNCHANGED answers
        /\ \A x \in WalletOrderIds : x # id => stage'[x] = stage[x]
    BY <1>6, FillRestEffect, Zenon DEF ExecutedInv
  <2>2. \A a \in answers : a.type # "INVALID" =>
          a.id \in WalletOrderIds /\ stage'[a.id] \notin {"unused", "sent"}
    BY <2>1, Zenon DEF AnswersInv
  <2>3. \A a \in answers : a.type = "CANCELED" => stage'[a.id] = "cancelled"
    <3>1. \A a \in answers : a.type = "CANCELED" => a.type # "INVALID"
      OBVIOUS
    <3> QED
      BY <2>1, <2>2, <3>1, Zenon DEF AnswersInv
  <2> QED
    BY <2>1, <2>2, <2>3, Zenon DEF AnswersInv
<1>7. ASSUME NEW a \in answers, Update(a) PROVE AnswersInv'
  BY <1>7, UpdateEffect, FewerAnswers, Zenon
<1>8. ASSUME NEW a \in answers, LoseAnswer(a) PROVE AnswersInv'
  <2>1. answers' = answers \ {a} /\ UNCHANGED stage
    BY <1>8, LoseEffect, Zenon
  <2> QED
    BY <2>1, FewerAnswers, Zenon
<1> QED
  BY <1>1, <1>2, <1>3, <1>4, <1>5, <1>6, <1>7, <1>8, Zenon DEF WalletNext

(* No step executes more of an order than it asks for.                     *)
LEMMA ExecutedStep ==
  ASSUME WalletAssumption, OrdersInv, WalletNext
  PROVE  ExecutedInv'
<1> USE DEF OrdersInv
<1>1. ASSUME NEW id \in WalletOrderIds, NEW s \in WalletSides, NEW q \in 1 .. WalletQty, Reserve(id, s, q)
      PROVE  ExecutedInv'
  <2>1. /\ stage[id] = "unused" /\ size'[id] = q /\ q \in Nat /\ UNCHANGED executed
        /\ \A x \in WalletOrderIds : x # id => stage'[x] = stage[x] /\ size'[x] = size[x]
    BY <1>1, ReserveEffect, Zenon
  <2>2. executed[id] = 0
    BY <2>1, Zenon DEF ExecutedInv
  <2>3. 0 <= q
    BY <2>1
  <2> QED
    BY <2>1, <2>2, <2>3, Zenon DEF ExecutedInv
<1>2. ASSUME NEW id \in WalletOrderIds, NEW q \in 0 .. WalletQty, Execute(id, q)
      PROVE  ExecutedInv'
  <2>1. /\ stage'[id] \in {"filled", "resting"} /\ executed'[id] = q /\ q <= size[id] /\ UNCHANGED size
        /\ \A x \in WalletOrderIds : x # id => stage'[x] = stage[x] /\ executed'[x] = executed[x]
    BY <1>2, ExecuteEffect, Zenon
  <2> QED
    BY <2>1, Zenon DEF ExecutedInv
<1>3. ASSUME NEW id \in WalletOrderIds, Reject(id) PROVE ExecutedInv'
  <2>1. /\ stage'[id] = "rejected" /\ UNCHANGED <<size, executed>>
        /\ \A x \in WalletOrderIds : x # id => stage'[x] = stage[x]
    BY <1>3, RejectEffect, Zenon
  <2> QED
    BY <2>1, Zenon DEF ExecutedInv
<1>4. ASSUME NEW id \in WalletOrderIds, Cancel(id) \/ FillRest(id) PROVE ExecutedInv'
  <2>1. executed[id] <= size[id]
    BY Zenon DEF ExecutedInv
  <2>2. /\ stage'[id] \in {"cancelled", "filled"} /\ UNCHANGED <<size, executed>>
        /\ \A x \in WalletOrderIds : x # id => stage'[x] = stage[x]
    BY <1>4, <2>1, CancelEffect, FillRestEffect, Zenon
  <2> QED
    BY <2>2, Zenon DEF ExecutedInv
<1>5. CASE UNCHANGED <<size, executed, stage>>
  BY <1>5, Zenon DEF ExecutedInv
<1> QED
  BY <1>1, <1>2, <1>3, <1>4, <1>5, CancelFailsEffect, UpdateEffect, LoseEffect, Zenon DEF WalletNext

(* An order whose own reservation and state stay keeps its answers, on      *)
(* their way or lost.                                                       *)
LEMMA ReservedStays ==
  ASSUME NEW x \in WalletOrderIds, Reserved(x),
         reserves'[x] = reserves[x], side'[x] = side[x], size'[x] = size[x], stage'[x] = stage[x],
         \A a \in answers \cup lost : a.id = x => a \in answers' \cup lost'
  PROVE  Reserved(x)'
<1>1. reserves'[x] = Lots(Pays(side'[x]), size'[x])
  BY Zenon DEF Reserved
<1>2. CASE stage[x] \in {"unused", "sent", "rejected"}
  BY <1>1, <1>2, Zenon DEF Reserved
<1>3. CASE /\ \E a \in answers \cup lost : IsReply(a, x)
           /\ stage[x] = "cancelled" => Receipt(x) \in answers \cup lost
  <2>1. \E a \in answers' \cup lost' : IsReply(a, x)
    BY <1>3, Zenon DEF IsReply
  <2>2. Receipt(x).id = x
    BY Zenon DEF Receipt
  <2>3. stage[x] = "cancelled" => Receipt(x) \in answers' \cup lost'
    BY <1>3, <2>2, Zenon
  <2> QED
    BY <1>1, <2>1, <2>3, Zenon DEF Reserved
<1> QED
  BY <1>2, <1>3, Zenon DEF Reserved

(* Every step keeps the reservations accounted for.                        *)
LEMMA ReservationStep ==
  ASSUME WalletAssumption, OrdersInv, WalletNext
  PROVE  ReservationInv'
<1> USE DEF OrdersInv
<1> SUFFICES ASSUME NEW x \in WalletOrderIds, reserves'[x] > 0 PROVE Reserved(x)'
  BY Zenon DEF ReservationInv
<1>1. ASSUME NEW id \in WalletOrderIds, NEW s \in WalletSides, NEW q \in 1 .. WalletQty, Reserve(id, s, q)
      PROVE  Reserved(x)'
  <2>1. CASE x = id
    <3>1. /\ reserves'[id] = Lots(Pays(s), q) /\ stage'[id] = "sent" /\ side'[id] = s /\ size'[id] = q
      BY <1>1, ReserveEffect, Zenon
    <3> QED
      BY <2>1, <3>1, Zenon DEF Reserved
  <2>2. CASE x # id
    <3>1. /\ reserves'[x] = reserves[x] /\ stage'[x] = stage[x] /\ side'[x] = side[x]
          /\ size'[x] = size[x] /\ UNCHANGED <<answers, lost>>
      BY <1>1, <2>2, ReserveEffect, Zenon
    <3>2. Reserved(x)
      BY <3>1, Zenon DEF ReservationInv
    <3> QED
      BY <3>1, <3>2, ReservedStays, Zenon
  <2> QED
    BY <2>1, <2>2, Zenon
<1>2. ASSUME UNCHANGED <<reserves, side, size>> PROVE Reserved(x)
  BY <1>2, Zenon DEF ReservationInv
<1>3. ASSUME NEW id \in WalletOrderIds, NEW q \in 0 .. WalletQty, Execute(id, q)
      PROVE  Reserved(x)'
  <2>1. /\ UNCHANGED <<reserves, side, size, lost>> /\ stage'[id] \in {"filled", "resting"}
        /\ \A y \in WalletOrderIds : y # id => stage'[y] = stage[y]
    BY <1>3, ExecuteEffect, Zenon
  <2>2. PICK exec \in Nat : answers' = answers \cup {Reply(id, q, exec)}
    BY <1>3, ExecuteEffect, Zenon
  <2>3. CASE x # id
    BY <1>2, <2>1, <2>2, <2>3, ReservedStays, Zenon
  <2>4. CASE x = id
    <3>1. IsReply(Reply(id, q, exec), id)
      BY Zenon DEF Reply, IsReply
    <3>2. \E a \in answers' \cup lost' : IsReply(a, id)
      BY <2>2, <3>1, Zenon
    <3>3. reserves'[x] = Lots(Pays(side'[x]), size'[x])
      BY <1>2, <2>1, Zenon DEF Reserved
    <3>4. stage'[id] # "cancelled"
      BY <2>1, Zenon
    <3> QED
      BY <2>4, <3>2, <3>3, <3>4, Zenon DEF Reserved
  <2> QED
    BY <2>3, <2>4, Zenon
<1>4. ASSUME NEW id \in WalletOrderIds, Reject(id) PROVE Reserved(x)'
  <2>1. /\ UNCHANGED <<reserves, side, size, lost>> /\ stage'[id] = "rejected" /\ answers \subseteq answers'
        /\ \A y \in WalletOrderIds : y # id => stage'[y] = stage[y]
    BY <1>4, RejectEffect, Zenon
  <2>2. CASE x # id
    BY <1>2, <2>1, <2>2, ReservedStays, Zenon
  <2>3. CASE x = id
    BY <1>2, <2>1, <2>3, Zenon DEF Reserved
  <2> QED
    BY <2>2, <2>3, Zenon
<1>5. ASSUME NEW id \in WalletOrderIds, Cancel(id) \/ FillRest(id) PROVE Reserved(x)'
  <2>0. executed[id] <= size[id]
    BY Zenon DEF ExecutedInv
  <2>1. /\ UNCHANGED <<reserves, side, size, lost>> /\ answers \subseteq answers'
        /\ \A y \in WalletOrderIds : y # id => stage'[y] = stage[y]
    BY <1>5, <2>0, CancelEffect, FillRestEffect, Zenon
  <2>2. /\ stage[id] = "resting"
        /\ \/ stage'[id] = "cancelled" /\ Receipt(id) \in answers'
           \/ stage'[id] = "filled"
    BY <1>5, <2>0, CancelEffect, FillRestEffect, Zenon
  <2>3. CASE x # id
    BY <1>2, <2>1, <2>3, ReservedStays, Zenon
  <2>4. CASE x = id
    <3>1. /\ reserves'[x] = Lots(Pays(side'[x]), size'[x])
          /\ \E a \in answers \cup lost : IsReply(a, x)
      BY <1>2, <2>1, <2>2, <2>4, Zenon DEF Reserved
    <3>2. \E a \in answers' \cup lost' : IsReply(a, x)
      BY <2>1, <3>1, Zenon
    <3>3. stage'[x] = "cancelled" => Receipt(x) \in answers' \cup lost'
      BY <2>2, <2>4, Zenon
    <3> QED
      BY <3>1, <3>2, <3>3, Zenon DEF Reserved
  <2> QED
    BY <2>3, <2>4, Zenon
<1>6. ASSUME NEW id \in WalletOrderIds, CancelFails(id) PROVE Reserved(x)'
  <2>1. UNCHANGED <<reserves, side, size, stage, lost>> /\ answers \subseteq answers'
    BY <1>6, CancelFailsEffect, Zenon
  <2> QED
    BY <1>2, <2>1, ReservedStays, Zenon
<1>7. ASSUME NEW a \in answers, Update(a) PROVE Reserved(x)'
  <2>1. answers' = answers \ {a} /\ UNCHANGED <<side, size, stage, lost>>
    BY <1>7, UpdateEffect, Zenon
  <2>2. reserves \in [WalletOrderIds -> Nat]
    BY Zenon DEF WalletTypeOK
  <2>3. a.id # x /\ reserves'[x] = reserves[x]
    <3>1. NoOrder \notin WalletOrderIds
      BY DEF NoOrder, WalletOrderIds, WalletAssumption
    <3>2. CASE a.type = "INVALID" /\ UNCHANGED reserves
      BY <3>1, <3>2, Zenon DEF AnswersInv
    <3>3. CASE a.id \in WalletOrderIds /\ reserves' = [reserves EXCEPT ![a.id] = 0]
      <4>1. x = a.id => reserves'[x] = 0
        BY <2>2, <3>3, Zenon
      <4>2. x # a.id
        BY <4>1
      <4> QED
        BY <2>2, <3>3, <4>2, Zenon
    <3> QED
      BY <1>7, <3>2, <3>3, UpdateEffect, Zenon
  <2>4. Reserved(x)
    BY <2>3, Zenon DEF ReservationInv
  <2>5. \A b \in answers \cup lost : b.id = x => b \in answers' \cup lost'
    BY <2>1, <2>3, Zenon
  <2> QED
    BY <2>1, <2>3, <2>4, <2>5, ReservedStays, Zenon
<1>8. ASSUME NEW a \in answers, LoseAnswer(a) PROVE Reserved(x)'
  <2>1. UNCHANGED <<reserves, side, size, stage>> /\ answers \cup lost \subseteq answers' \cup lost'
    BY <1>8, LoseEffect, Zenon
  <2> QED
    BY <1>2, <2>1, ReservedStays, Zenon
<1> QED
  BY <1>1, <1>3, <1>4, <1>5, <1>6, <1>7, <1>8, Zenon DEF WalletNext

(* Every step keeps the types.                                             *)
LEMMA WalletType ==
  ASSUME WalletAssumption, OrdersInv, WalletNext
  PROVE  WalletTypeOK'
<1> USE DEF OrdersInv
<1>1. \A id \in WalletOrderIds : executed[id] <= size[id]
  BY Zenon DEF ExecutedInv
<1> QED
  BY <1>1, ReserveEffect, ExecuteEffect, RejectEffect, CancelEffect, CancelFailsEffect, FillRestEffect,
     UpdateType, LoseEffect, Zenon DEF WalletNext

(* The invariant of the orders holds at the start and is kept.             *)
LEMMA OrdersStart ==
  ASSUME WalletAssumption, WalletInit
  PROVE  OrdersInv
<1>1. Deposit \in Nat /\ 0 \in Nat /\ 0 <= 0 /\ ~(0 > 0)
  BY DEF WalletAssumption
<1>2. WalletTypeOK
  BY <1>1, Zenon DEF WalletInit, WalletTypeOK, WalletSides, WalletStages
<1>3. AnswersInv
  BY Zenon DEF WalletInit, AnswersInv
<1>4. ExecutedInv
  BY <1>1, Zenon DEF WalletInit, ExecutedInv
<1>5. ReservationInv
  BY <1>1, Zenon DEF WalletInit, ReservationInv
<1> QED
  BY <1>2, <1>3, <1>4, <1>5, Zenon DEF OrdersInv

LEMMA OrdersStep ==
  ASSUME WalletAssumption, OrdersInv, [WalletNext]_walletVars
  PROVE  OrdersInv'
<1>1. CASE UNCHANGED walletVars
  BY <1>1, Zenon DEF walletVars, OrdersInv, WalletTypeOK, AnswersInv, ExecutedInv, ReservationInv, Reserved
<1>2. CASE WalletNext
  <2>1. WalletTypeOK' /\ AnswersInv' /\ ExecutedInv' /\ ReservationInv'
    BY <1>2, WalletType, AnswersStep, ExecutedStep, ReservationStep, Zenon
  <2> QED
    BY <2>1, Zenon DEF OrdersInv
<1> QED
  BY <1>1, <1>2, Zenon

(* ::Wallet::Update leaves funds reserved for an order that is over, with   *)
(* no answer to come, only if the exchange rejected the order or never got  *)
(* it, or its reply was lost and so was the answer to its cancel, for every *)
(* number and size of orders, whatever the prices, and in whatever order    *)
(* the answers arrive or get lost.                                          *)
THEOREM ReservationsEnd ==
  ASSUME WalletAssumption
  PROVE  WalletSpec => []WalletReservedForeverOnlyIfUnanswered
<1>1. WalletInit => OrdersInv
  BY OrdersStart, Zenon
<1>2. OrdersInv /\ [WalletNext]_walletVars => OrdersInv'
  BY OrdersStep, Zenon
<1>3. OrdersInv => WalletReservedForeverOnlyIfUnanswered
  <2> SUFFICES ASSUME OrdersInv, NEW id \in WalletOrderIds,
                      stage[id] \in {"filled", "cancelled", "rejected"}, reserves[id] > 0,
                      \A a \in answers : a.id # id
               PROVE  /\ reserves[id] = Lots(Pays(side[id]), size[id])
                      /\ \/ stage[id] = "rejected"
                         \/ /\ \E a \in lost : IsReply(a, id)
                            /\ stage[id] = "cancelled" => Receipt(id) \in lost
    BY Zenon DEF WalletReservedForeverOnlyIfUnanswered
  <2>1. Reserved(id)
    BY Zenon DEF OrdersInv, ReservationInv
  <2>2. Receipt(id) \notin answers
    <3>1. Receipt(id).id = id
      BY Zenon DEF Receipt
    <3> QED
      BY <3>1, Zenon
  <2>3. \A a \in answers : ~IsReply(a, id)
    BY Zenon DEF IsReply
  <2> QED
    BY <2>1, <2>2, <2>3, Zenon DEF Reserved
<1> QED
  BY <1>1, <1>2, <1>3, PTL DEF WalletSpec

-----------------------------------------------------------------------------
(* Amounts per order, as a set: order x holds the pairs <<x, 1>> up to      *)
(* <<x, f[x]>>, so that its size is the sum of the amounts.                 *)
Tokens(f) == {p \in WalletOrderIds \X Nat : 1 <= p[2] /\ p[2] <= f[p[1]]}

(* The sum follows the amount of the one order that changes.                *)
LEMMA TokensChange ==
  ASSUME NEW f \in [WalletOrderIds -> Nat], NEW g \in [WalletOrderIds -> Nat], NEW id \in WalletOrderIds,
         \A x \in WalletOrderIds : x # id => g[x] = f[x], IsFiniteSet(Tokens(f))
  PROVE  /\ IsFiniteSet(Tokens(g))
         /\ Cardinality(Tokens(f)) \in Nat /\ Cardinality(Tokens(g)) \in Nat
         /\ Cardinality(Tokens(g)) + f[id] = Cardinality(Tokens(f)) + g[id]
<1> DEFINE Rest == {p \in Tokens(f) : p[1] # id}
           Col(n) == {id} \X (1 .. n)
<1>1. ASSUME NEW n \in Nat
      PROVE  IsFiniteSet(Col(n)) /\ Cardinality(Col(n)) = n /\ Rest \cap Col(n) = {}
  <2>1. IsFiniteSet(1 .. n) /\ Cardinality(1 .. n) = n
    <3>1. 1 \in Int /\ n \in Int
      OBVIOUS
    <3>2. IsFiniteSet(1 .. n) /\ Cardinality(1 .. n) = IF 1 > n THEN 0 ELSE n - 1 + 1
      BY <3>1, FS_Interval, Zenon
    <3> QED
      BY <3>2
  <2>2. IsFiniteSet({id}) /\ Cardinality({id}) = 1
    BY FS_Singleton, Zenon
  <2>3. IsFiniteSet(Col(n)) /\ Cardinality(Col(n)) = n
    <3>1. /\ IsFiniteSet({id} \X (1 .. n))
          /\ Cardinality({id} \X (1 .. n)) = Cardinality({id}) * Cardinality(1 .. n)
      BY <2>1, <2>2, FS_Product, Zenon
    <3>2. IsFiniteSet(Col(n)) /\ Cardinality(Col(n)) = 1 * n
      BY <2>1, <2>2, <3>1, Zenon
    <3>3. 1 * n = n
      OBVIOUS
    <3> QED
      BY <3>2, <3>3, Zenon
  <2>4. Rest \cap Col(n) = {}
    OBVIOUS
  <2> QED
    BY <2>3, <2>4, Zenon
<1>2. IsFiniteSet(Rest) /\ Cardinality(Rest) \in Nat
  BY FS_Subset, FS_CardinalityType, Zenon
<1>3. ASSUME NEW n \in Nat
      PROVE  IsFiniteSet(Rest \cup Col(n)) /\ Cardinality(Rest \cup Col(n)) = Cardinality(Rest) + n
  <2>1. /\ IsFiniteSet(Rest \cup Col(n))
        /\ Cardinality(Rest \cup Col(n)) =
             Cardinality(Rest) + Cardinality(Col(n)) - Cardinality(Rest \cap Col(n))
    BY <1>1, <1>2, FS_Union, Zenon
  <2>2. Cardinality(Rest \cap Col(n)) = 0 /\ Cardinality(Col(n)) = n
    BY <1>1, FS_EmptySet, Zenon
  <2> HIDE DEF Rest, Col
  <2> QED
    BY <1>2, <2>1, <2>2
<1>4. Tokens(f) = Rest \cup Col(f[id])
  BY DEF Tokens
<1>5. Tokens(g) = Rest \cup Col(g[id])
  BY DEF Tokens
<1>6. f[id] \in Nat /\ g[id] \in Nat
  OBVIOUS
<1> HIDE DEF Rest, Col
<1>7. /\ IsFiniteSet(Tokens(g)) /\ Cardinality(Tokens(f)) = Cardinality(Rest) + f[id]
      /\ Cardinality(Tokens(g)) = Cardinality(Rest) + g[id]
  BY <1>3, <1>4, <1>5, <1>6, Zenon
<1> QED
  BY <1>2, <1>6, <1>7

\* One amount is at most the sum.
LEMMA TokensHold ==
  ASSUME NEW f \in [WalletOrderIds -> Nat], NEW id \in WalletOrderIds, IsFiniteSet(Tokens(f))
  PROVE  Cardinality(Tokens(f)) \in Nat /\ f[id] <= Cardinality(Tokens(f))
<1> DEFINE g == [f EXCEPT ![id] = 0]
<1>1. 0 \in Nat
  OBVIOUS
<1>2. g \in [WalletOrderIds -> Nat] /\ g[id] = 0 /\ \A x \in WalletOrderIds : x # id => g[x] = f[x]
  BY <1>1, Zenon
<1> HIDE DEF g
<1>3. /\ Cardinality(Tokens(f)) \in Nat /\ Cardinality(Tokens(g)) \in Nat
      /\ Cardinality(Tokens(g)) + f[id] = Cardinality(Tokens(f)) + g[id]
  BY <1>2, TokensChange, Zenon
<1>4. f[id] \in Nat
  OBVIOUS
<1> QED
  BY <1>2, <1>3, <1>4

-----------------------------------------------------------------------------
(* What the account has free and the wallet does not show yet, per order:   *)
(* the funds reserved for an order on its way, what a fill on its way to    *)
(* the wallet received, and the unexecuted part that the answer to a cancel *)
(* will bring back.                                                         *)
Filling(id) == \E a \in answers : a.id = id /\ a.type = "FILLED"

Refunding(id) == Receipt(id) \in answers /\ reserves[id] > 0

Owed(t, id) ==
  IF stage[id] = "sent" THEN IF t = Pays(side[id]) THEN Lots(t, size[id]) ELSE 0
    ELSE IF t = Receives(side[id]) THEN IF Filling(id) THEN Lots(t, executed[id]) ELSE 0
    ELSE IF Refunding(id) THEN Lots(t, size[id] - executed[id]) ELSE 0

OwedAll(t) == [id \in WalletOrderIds |-> Owed(t, id)]

LedgerInv ==
  \A t \in Tickers :
    /\ IsFiniteSet(Tokens(OwedAll(t)))
    /\ Cardinality(Tokens(OwedAll(t))) + balance[t] <= free[t] + misposted[t]

(* What an order owes is a natural number.                                 *)
LEMMA OwedNat ==
  ASSUME WalletAssumption, OrdersInv, NEW t \in Tickers, NEW id \in WalletOrderIds
  PROVE  Owed(t, id) \in Nat
<1>1. /\ executed[id] <= size[id] /\ size[id] \in Nat /\ executed[id] \in Nat
      /\ Lots(t, size[id]) \in Nat /\ Lots(t, executed[id]) \in Nat
  BY OfOrder, Zenon DEF OrdersInv, ExecutedInv
<1>2. Lots(t, size[id] - executed[id]) \in Nat
  <2>1. size[id] - executed[id] \in Nat
    BY <1>1, LotsSplit, Zenon
  <2> QED
    BY <2>1, LotsNat, Zenon
<1>3. 0 \in Nat
  OBVIOUS
<1> QED
  BY <1>1, <1>2, <1>3, Zenon DEF Owed

LEMMA OwedNatNext ==
  ASSUME WalletAssumption, OrdersInv', NEW t \in Tickers, NEW id \in WalletOrderIds
  PROVE  Owed(t, id)' \in Nat
<1>1. /\ executed'[id] <= size'[id] /\ size'[id] \in Nat /\ executed'[id] \in Nat
  BY Zenon DEF OrdersInv, ExecutedInv, WalletTypeOK
<1>2. size'[id] - executed'[id] \in Nat
  BY <1>1, LotsSplit, Zenon
<1>3. Lots(t, size'[id] - executed'[id]) \in Nat /\ Lots(t, size'[id]) \in Nat /\ Lots(t, executed'[id]) \in Nat
  BY <1>1, <1>2, LotsNat, Zenon
<1>4. 0 \in Nat
  OBVIOUS
<1> QED
  BY <1>3, <1>4, Zenon DEF Owed

(* An order that no step touches owes what it owed.                        *)
LEMMA OwedStays ==
  ASSUME NEW t \in Tickers, NEW x \in WalletOrderIds,
         reserves'[x] = reserves[x], side'[x] = side[x], size'[x] = size[x],
         executed'[x] = executed[x], stage'[x] = stage[x],
         \A a \in answers \cup answers' : a.id = x => a \in answers /\ a \in answers'
  PROVE  Owed(t, x)' = Owed(t, x)
<1>1. Filling(x)' <=> Filling(x)
  BY Zenon DEF Filling
<1>2. Receipt(x).id = x
  BY Zenon DEF Receipt
<1>3. Refunding(x)' <=> Refunding(x)
  BY <1>2, Zenon DEF Refunding
<1> QED
  BY <1>1, <1>3, Zenon DEF Owed

(* A step keeps the ledger when the order it is about owes no more than the *)
(* account and the errors gained over the wallet.                           *)
LEMMA LedgerStep ==
  ASSUME WalletAssumption, OrdersInv, OrdersInv', LedgerInv, NEW id \in WalletOrderIds,
         \A t \in Tickers : \A x \in WalletOrderIds : x # id => Owed(t, x)' = Owed(t, x),
         \A t \in Tickers :
           Owed(t, id)' + balance'[t] + free[t] + misposted[t]
             <= Owed(t, id) + balance[t] + free'[t] + misposted'[t]
  PROVE  LedgerInv'
<1> SUFFICES ASSUME NEW t \in Tickers
             PROVE  /\ IsFiniteSet(Tokens(OwedAll(t)'))
                    /\ Cardinality(Tokens(OwedAll(t)')) + balance'[t] <= free'[t] + misposted'[t]
  BY Zenon DEF LedgerInv, Tokens
<1> DEFINE f == OwedAll(t)
           g == OwedAll(t)'
<1>1. f \in [WalletOrderIds -> Nat]
  BY OwedNat, Zenon DEF OwedAll
<1>2. \A x \in WalletOrderIds : Owed(t, x)' \in Nat
  BY OwedNatNext, Zenon
<1>3. g \in [WalletOrderIds -> Nat] /\ g[id] = Owed(t, id)' /\ f[id] = Owed(t, id)
  BY <1>2, Zenon DEF OwedAll
<1>4. ASSUME NEW x \in WalletOrderIds, x # id PROVE g[x] = f[x]
  <2>1. Owed(t, x)' = Owed(t, x)
    BY <1>4, Zenon
  <2> QED
    BY <2>1, Zenon DEF OwedAll
<1>5. IsFiniteSet(Tokens(f)) /\ Cardinality(Tokens(f)) + balance[t] <= free[t] + misposted[t]
  BY Zenon DEF LedgerInv
<1>6. Owed(t, id)' + balance'[t] + free[t] + misposted[t]
        <= Owed(t, id) + balance[t] + free'[t] + misposted'[t]
  BY Zenon
<1>7. /\ balance[t] \in Nat /\ free[t] \in Nat /\ misposted[t] \in Nat
      /\ balance'[t] \in Nat /\ free'[t] \in Nat /\ misposted'[t] \in Nat
  BY Zenon DEF OrdersInv, WalletTypeOK
<1> HIDE DEF f, g
<1>8. /\ IsFiniteSet(Tokens(g))
      /\ Cardinality(Tokens(f)) \in Nat /\ Cardinality(Tokens(g)) \in Nat
      /\ Cardinality(Tokens(g)) + f[id] = Cardinality(Tokens(f)) + g[id]
  BY <1>1, <1>3, <1>4, <1>5, TokensChange, Zenon
<1>9. f[id] \in Nat /\ g[id] \in Nat
  BY <1>1, <1>3, Zenon
<1>10. Cardinality(Tokens(g)) + balance'[t] <= free'[t] + misposted'[t]
  BY <1>3, <1>5, <1>6, <1>7, <1>8, <1>9
<1> QED
  BY <1>8, <1>10, Zenon DEF g

(* So does one that no order notices.                                      *)
LEMMA LedgerSame ==
  ASSUME LedgerInv, \A t \in Tickers : \A x \in WalletOrderIds : Owed(t, x)' = Owed(t, x),
         UNCHANGED <<balance, free, misposted>>
  PROVE  LedgerInv'
<1> SUFFICES ASSUME NEW t \in Tickers
             PROVE  /\ IsFiniteSet(Tokens(OwedAll(t)'))
                    /\ Cardinality(Tokens(OwedAll(t)')) + balance'[t] <= free'[t] + misposted'[t]
  BY Zenon DEF LedgerInv, Tokens
<1>1. OwedAll(t)' = OwedAll(t)
  BY Zenon DEF OwedAll
<1> QED
  BY <1>1, Zenon DEF LedgerInv

(* The facts the sums below are about, for one ticker.                     *)
LEMMA Amounts ==
  ASSUME WalletAssumption, OrdersInv, OrdersInv', NEW t \in Tickers, NEW id \in WalletOrderIds
  PROVE  /\ balance[t] \in Nat /\ free[t] \in Nat /\ misposted[t] \in Nat /\ Owed(t, id) \in Nat
         /\ balance'[t] \in Nat /\ free'[t] \in Nat /\ misposted'[t] \in Nat /\ Owed(t, id)' \in Nat
<1>1. /\ balance[t] \in Nat /\ free[t] \in Nat /\ misposted[t] \in Nat
      /\ balance'[t] \in Nat /\ free'[t] \in Nat /\ misposted'[t] \in Nat
  BY Zenon DEF OrdersInv, WalletTypeOK
<1> QED
  BY <1>1, OwedNat, OwedNatNext, Zenon

-----------------------------------------------------------------------------
(* A reservation moves from the wallet to what it owes,                    *)
LEMMA LedgerReserve ==
  ASSUME WalletAssumption, OrdersInv, OrdersInv', LedgerInv,
         NEW id \in WalletOrderIds, NEW s \in WalletSides, NEW q \in 1 .. WalletQty, Reserve(id, s, q)
  PROVE  LedgerInv'
<1> DEFINE p == Pays(s)
           lots == Lots(p, q)
<1>0. WalletTypeOK
  BY Zenon DEF OrdersInv
<1>1. /\ p \in Tickers /\ lots \in Nat
      /\ balance'[p] = balance[p] - lots /\ \A t \in Tickers : t # p => balance'[t] = balance[t]
      /\ stage'[id] = "sent" /\ side'[id] = s /\ size'[id] = q
      /\ \A x \in WalletOrderIds : x # id =>
           /\ reserves'[x] = reserves[x] /\ stage'[x] = stage[x]
           /\ side'[x] = side[x] /\ size'[x] = size[x]
      /\ UNCHANGED <<executed, free, answers, misposted>>
  BY <1>0, ReserveEffect, Zenon
<1>2. \A t \in Tickers : \A x \in WalletOrderIds : x # id => Owed(t, x)' = Owed(t, x)
  BY <1>1, OwedStays, Zenon
<1>3. \A t \in Tickers : Owed(t, id)' = IF t = p THEN lots ELSE 0
  BY <1>1, Zenon DEF Owed
<1> HIDE DEF p, lots
<1>4. ASSUME NEW t \in Tickers
      PROVE  Owed(t, id)' + balance'[t] + free[t] + misposted[t]
               <= Owed(t, id) + balance[t] + free'[t] + misposted'[t]
  <2>1. /\ balance[t] \in Nat /\ free[t] \in Nat /\ misposted[t] \in Nat /\ Owed(t, id) \in Nat
        /\ free'[t] = free[t] /\ misposted'[t] = misposted[t]
    BY <1>1, Amounts, Zenon
  <2>2. Owed(t, id)' + balance'[t] = balance[t]
    <3>1. CASE t = p
      <4>1. Owed(t, id)' = lots /\ balance'[t] = balance[t] - lots
        BY <1>1, <1>3, <3>1, Zenon
      <4> QED
        BY <1>1, <2>1, <4>1
    <3>2. CASE t # p
      <4>1. Owed(t, id)' = 0 /\ balance'[t] = balance[t]
        BY <1>1, <1>3, <3>2, Zenon
      <4> QED
        BY <2>1, <4>1
    <3> QED
      BY <3>1, <3>2, Zenon
  <2> QED
    BY <2>1, <2>2
<1> QED
  BY <1>2, <1>4, LedgerStep, Zenon

(* an order that arrives takes its funds and owes what it received,        *)
LEMMA LedgerExecute ==
  ASSUME WalletAssumption, OrdersInv, OrdersInv', LedgerInv,
         NEW id \in WalletOrderIds, NEW q \in 0 .. WalletQty, Execute(id, q)
  PROVE  LedgerInv'
<1> DEFINE p == Pays(side[id])
           r == Receives(side[id])
<1>0. WalletTypeOK
  BY Zenon DEF OrdersInv
<1>1. /\ stage[id] = "sent" /\ stage'[id] \in {"filled", "resting"} /\ executed'[id] = q
      /\ \A x \in WalletOrderIds : x # id => stage'[x] = stage[x] /\ executed'[x] = executed[x]
      /\ free'[p] = free[p] - Lots(p, size[id]) /\ free'[r] = free[r] + Lots(r, q)
      /\ Lots(r, q) \in Nat
      /\ UNCHANGED <<balance, reserves, side, size, misposted>>
  BY <1>0, ExecuteEffect, Zenon
<1>2. PICK exec \in Nat : answers' = answers \cup {Reply(id, q, exec)}
  BY <1>0, ExecuteEffect, Zenon
<1>3. Reply(id, q, exec).id = id
  BY Zenon DEF Reply
<1>4. \A t \in Tickers : \A x \in WalletOrderIds : x # id => Owed(t, x)' = Owed(t, x)
  BY <1>1, <1>2, <1>3, OwedStays, Zenon
<1>5. p \in Tickers /\ r \in Tickers /\ p # r /\ Lots(p, size[id]) \in Nat
  BY <1>0, OfOrder, Zenon
<1>6. \A t \in Tickers : t = p \/ t = r
  BY <1>5, Zenon DEF Tickers
<1>7. ~Refunding(id)'
  <2>1. Receipt(id).type = "CANCELED" /\ Receipt(id).id = id
    BY Zenon DEF Receipt
  <2>2. stage'[id] # "cancelled"
    BY <1>1, Zenon
  <2>3. AnswersInv'
    BY Zenon DEF OrdersInv
  <2> QED
    BY <2>1, <2>2, <2>3, Zenon DEF Refunding, AnswersInv
<1>8. ASSUME NEW t \in Tickers
      PROVE  /\ t = p => Owed(t, id) = Lots(t, size[id]) /\ Owed(t, id)' = 0
             /\ t = r => Owed(t, id) = 0 /\ Owed(t, id)' \in {0, Lots(t, q)}
  <2>1. side'[id] = side[id] /\ stage'[id] # "sent"
    BY <1>1, Zenon
  <2>2. t = p => Owed(t, id)' = 0
    BY <1>5, <1>7, <2>1, Zenon DEF Owed
  <2>3. t = r => Owed(t, id)' \in {0, Lots(t, q)}
    BY <1>1, <2>1, Zenon DEF Owed
  <2> QED
    BY <1>1, <1>5, <2>2, <2>3, Zenon DEF Owed
<1> HIDE DEF p, r
<1>9. ASSUME NEW t \in Tickers
      PROVE  Owed(t, id)' + balance'[t] + free[t] + misposted[t]
               <= Owed(t, id) + balance[t] + free'[t] + misposted'[t]
  <2>1. /\ balance[t] \in Nat /\ free[t] \in Nat /\ misposted[t] \in Nat
        /\ balance'[t] = balance[t] /\ misposted'[t] = misposted[t]
    BY <1>1, Amounts, Zenon
  <2>2. CASE t = p
    <3>1. Owed(t, id)' = 0 /\ free'[t] = free[t] - Lots(p, size[id]) /\ Owed(t, id) = Lots(p, size[id])
      BY <1>1, <1>8, <2>2, Zenon
    <3> QED
      BY <1>5, <2>1, <3>1
  <2>3. CASE t = r
    <3>1. Owed(t, id)' \in {0, Lots(r, q)} /\ free'[t] = free[t] + Lots(r, q) /\ Owed(t, id) = 0
      BY <1>1, <1>8, <2>3, Zenon
    <3> QED
      BY <1>1, <2>1, <3>1
  <2> QED
    BY <1>6, <2>2, <2>3, Zenon
<1> QED
  BY <1>4, <1>9, LedgerStep, Zenon

(* a rejected order owes nothing any more,                                 *)
LEMMA LedgerReject ==
  ASSUME WalletAssumption, OrdersInv, OrdersInv', LedgerInv, NEW id \in WalletOrderIds, Reject(id)
  PROVE  LedgerInv'
<1>0. WalletTypeOK
  BY Zenon DEF OrdersInv
<1>1. /\ stage[id] = "sent" /\ stage'[id] = "rejected"
      /\ \A x \in WalletOrderIds : x # id => stage'[x] = stage[x]
      /\ UNCHANGED <<balance, reserves, side, size, executed, free, misposted>>
  BY <1>0, RejectEffect, Zenon
<1>2. \A a \in answers \cup answers' : a.id \in WalletOrderIds => a \in answers /\ a \in answers'
  <2>1. NoOrder \notin WalletOrderIds
    BY DEF NoOrder, WalletOrderIds, WalletAssumption
  <2>2. Rejection.id = NoOrder
    BY Zenon DEF Rejection
  <2> QED
    BY <1>0, <2>1, <2>2, RejectEffect, Zenon
<1>3. \A t \in Tickers : \A x \in WalletOrderIds : x # id => Owed(t, x)' = Owed(t, x)
  BY <1>1, <1>2, OwedStays, Zenon
<1>4. \A a \in answers' : a.id # id
  <2>1. \A a \in answers : a.id # id
    <3>1. NoOrder \notin WalletOrderIds
      BY DEF NoOrder, WalletOrderIds, WalletAssumption
    <3> QED
      BY <1>1, <3>1, Zenon DEF OrdersInv, AnswersInv
  <2> QED
    BY <1>2, <2>1, Zenon
<1>5. ASSUME NEW t \in Tickers PROVE Owed(t, id)' = 0
  <2>1. Receipt(id).id = id
    BY Zenon DEF Receipt
  <2>2. ~Filling(id)' /\ ~Refunding(id)'
    BY <1>4, <2>1, Zenon DEF Filling, Refunding
  <2> QED
    BY <1>1, <2>2, Zenon DEF Owed
<1>6. ASSUME NEW t \in Tickers
      PROVE  Owed(t, id)' + balance'[t] + free[t] + misposted[t]
               <= Owed(t, id) + balance[t] + free'[t] + misposted'[t]
  <2>1. /\ balance[t] \in Nat /\ free[t] \in Nat /\ misposted[t] \in Nat /\ Owed(t, id) \in Nat
        /\ balance'[t] = balance[t] /\ misposted'[t] = misposted[t] /\ free'[t] = free[t]
        /\ Owed(t, id)' = 0
    BY <1>1, <1>5, Amounts, Zenon
  <2> QED
    BY <2>1
<1> QED
  BY <1>3, <1>6, LedgerStep, Zenon

(* a cancelled one owes the part that comes back,                          *)
LEMMA LedgerCancel ==
  ASSUME WalletAssumption, OrdersInv, OrdersInv', LedgerInv, NEW id \in WalletOrderIds, Cancel(id)
  PROVE  LedgerInv'
<1> DEFINE p == Pays(side[id])
           r == Receives(side[id])
           rest == Lots(p, size[id] - executed[id])
<1>0. WalletTypeOK /\ executed[id] <= size[id]
  BY Zenon DEF OrdersInv, ExecutedInv
<1>1. /\ stage[id] = "resting" /\ stage'[id] = "cancelled"
      /\ \A x \in WalletOrderIds : x # id => stage'[x] = stage[x]
      /\ rest \in Nat /\ free'[p] = free[p] + rest
      /\ \A t \in Tickers : t # p => free'[t] = free[t]
      /\ answers' = answers \cup {Receipt(id)}
      /\ UNCHANGED <<balance, reserves, side, size, executed, misposted>>
  BY <1>0, CancelEffect, Zenon
<1>2. Receipt(id).id = id /\ Receipt(id).type # "FILLED"
  BY Zenon DEF Receipt
<1>3. \A t \in Tickers : \A x \in WalletOrderIds : x # id => Owed(t, x)' = Owed(t, x)
  BY <1>1, <1>2, OwedStays, Zenon
<1>4. p \in Tickers /\ r \in Tickers /\ p # r
  BY <1>0, OfOrder, Zenon
<1>5. \A t \in Tickers : t = p \/ t = r
  BY <1>4, Zenon DEF Tickers
<1>6. Filling(id)' <=> Filling(id)
  BY <1>1, <1>2, Zenon DEF Filling
<1>7. \A t \in Tickers : t = r => Owed(t, id)' = Owed(t, id)
  <2>1. stage[id] # "sent" /\ stage'[id] # "sent"
    BY <1>1, Zenon
  <2> QED
    BY <1>1, <1>6, <2>1, Zenon DEF Owed
<1>8. \A t \in Tickers : t = p => Owed(t, id)' \in {0, rest}
  BY <1>1, <1>4, Zenon DEF Owed
<1> HIDE DEF p, r, rest
<1>9. ASSUME NEW t \in Tickers
      PROVE  Owed(t, id)' + balance'[t] + free[t] + misposted[t]
               <= Owed(t, id) + balance[t] + free'[t] + misposted'[t]
  <2>1. /\ balance[t] \in Nat /\ free[t] \in Nat /\ misposted[t] \in Nat /\ Owed(t, id) \in Nat
        /\ balance'[t] = balance[t] /\ misposted'[t] = misposted[t]
    BY <1>1, Amounts, Zenon
  <2>2. CASE t = p
    <3>1. Owed(t, id)' \in {0, rest} /\ free'[t] = free[t] + rest
      BY <1>1, <1>8, <2>2, Zenon
    <3> QED
      BY <1>1, <2>1, <3>1
  <2>3. CASE t = r
    <3>1. Owed(t, id)' = Owed(t, id) /\ free'[t] = free[t]
      BY <1>1, <1>4, <1>7, <2>3, Zenon
    <3> QED
      BY <2>1, <3>1
  <2> QED
    BY <1>5, <2>2, <2>3, Zenon
<1> QED
  BY <1>3, <1>9, LedgerStep, Zenon

(* a fill nobody is told of only adds to the account,                      *)
LEMMA LedgerFillRest ==
  ASSUME WalletAssumption, OrdersInv, OrdersInv', LedgerInv, NEW id \in WalletOrderIds, FillRest(id)
  PROVE  LedgerInv'
<1>0. WalletTypeOK /\ executed[id] <= size[id]
  BY Zenon DEF OrdersInv, ExecutedInv
<1>1. /\ stage[id] = "resting" /\ stage'[id] = "filled"
      /\ \A x \in WalletOrderIds : x # id => stage'[x] = stage[x]
      /\ \A t \in Tickers : free[t] <= free'[t]
      /\ UNCHANGED <<balance, reserves, side, size, executed, answers, misposted>>
  BY <1>0, FillRestEffect, Zenon
<1>2. \A t \in Tickers : \A x \in WalletOrderIds : x # id => Owed(t, x)' = Owed(t, x)
  BY <1>1, OwedStays, Zenon
<1>3. \A t \in Tickers : Owed(t, id)' = Owed(t, id)
  <2>1. /\ (Filling(id)' <=> Filling(id)) /\ (Refunding(id)' <=> Refunding(id))
        /\ stage[id] # "sent" /\ stage'[id] # "sent"
    BY <1>1, Zenon DEF Filling, Refunding
  <2> QED
    BY <1>1, <2>1, Zenon DEF Owed
<1>4. ASSUME NEW t \in Tickers
      PROVE  Owed(t, id)' + balance'[t] + free[t] + misposted[t]
               <= Owed(t, id) + balance[t] + free'[t] + misposted'[t]
  <2>1. /\ balance[t] \in Nat /\ free[t] \in Nat /\ misposted[t] \in Nat /\ Owed(t, id) \in Nat
        /\ balance'[t] = balance[t] /\ misposted'[t] = misposted[t] /\ free[t] <= free'[t]
        /\ free'[t] \in Nat /\ Owed(t, id)' = Owed(t, id)
    BY <1>1, <1>3, Amounts, Zenon
  <2> QED
    BY <2>1
<1> QED
  BY <1>2, <1>4, LedgerStep, Zenon

(* an answer that leaves takes what it would have brought,                 *)
LEMMA OwedLess ==
  ASSUME WalletAssumption, OrdersInv, OrdersInv', NEW id \in WalletOrderIds, NEW t \in Tickers,
         answers' \subseteq answers, reserves'[id] \in {0, reserves[id]},
         UNCHANGED <<side, size, executed, stage>>
  PROVE  Owed(t, id)' <= Owed(t, id)
<1>1. /\ Filling(id)' => Filling(id)
      /\ Refunding(id)' => Refunding(id)
  <2>1. ~(0 > 0)
    OBVIOUS
  <2> QED
    BY <2>1, Zenon DEF Filling, Refunding
<1>2. Owed(t, id)' = Owed(t, id) \/ Owed(t, id)' = 0
  BY <1>1, Zenon DEF Owed
<1>3. Owed(t, id) \in Nat
  BY OwedNat, Zenon
<1> QED
  BY <1>2, <1>3

LEMMA LedgerLose ==
  ASSUME WalletAssumption, OrdersInv, OrdersInv', LedgerInv, NEW a \in answers,
         answers' = answers \ {a},
         UNCHANGED <<balance, side, size, executed, stage, free, misposted>>,
         \/ UNCHANGED reserves
         \/ a.type # "INVALID" /\ reserves' = [reserves EXCEPT ![a.id] = 0]
  PROVE  LedgerInv'
<1>1. reserves \in [WalletOrderIds -> Nat]
  BY Zenon DEF OrdersInv, WalletTypeOK
<1>2. CASE a.type = "INVALID"
  <2>1. a.id \notin WalletOrderIds
    <3>1. NoOrder \notin WalletOrderIds
      BY DEF NoOrder, WalletOrderIds, WalletAssumption
    <3> QED
      BY <1>2, <3>1, Zenon DEF OrdersInv, AnswersInv
  <2>2. \A t \in Tickers : \A x \in WalletOrderIds : Owed(t, x)' = Owed(t, x)
    BY <1>2, <2>1, OwedStays, Zenon
  <2> QED
    BY <2>2, LedgerSame, Zenon
<1>3. CASE a.type # "INVALID"
  <2> DEFINE id == a.id
  <2>1. id \in WalletOrderIds
    BY <1>3, Zenon DEF OrdersInv, AnswersInv
  <2>2. reserves'[id] \in {0, reserves[id]} /\ \A x \in WalletOrderIds : x # id => reserves'[x] = reserves[x]
    BY <1>1, <2>1, Zenon
  <2>3. \A t \in Tickers : \A x \in WalletOrderIds : x # id => Owed(t, x)' = Owed(t, x)
    BY <2>2, OwedStays, Zenon
  <2>4. \A t \in Tickers : Owed(t, id)' <= Owed(t, id)
    BY <2>1, <2>2, OwedLess, Zenon
  <2> HIDE DEF id
  <2>5. ASSUME NEW t \in Tickers
        PROVE  Owed(t, id)' + balance'[t] + free[t] + misposted[t]
                 <= Owed(t, id) + balance[t] + free'[t] + misposted'[t]
    <3>1. /\ balance[t] \in Nat /\ free[t] \in Nat /\ misposted[t] \in Nat /\ Owed(t, id) \in Nat
          /\ balance'[t] = balance[t] /\ misposted'[t] = misposted[t] /\ free[t] = free'[t]
          /\ Owed(t, id)' \in Nat /\ Owed(t, id)' <= Owed(t, id)
      BY <2>1, <2>4, Amounts, Zenon
    <3> QED
      BY <3>1
  <2> QED
    BY <2>1, <2>3, <2>5, LedgerStep, Zenon
<1> QED
  BY <1>2, <1>3, Zenon

(* and Update adds to the wallet what was owed, and the errors.            *)
LEMMA LedgerUpdate ==
  ASSUME WalletAssumption, OrdersInv, OrdersInv', LedgerInv, NEW a \in answers, Update(a)
  PROVE  LedgerInv'
<1> DEFINE id == a.id
           p == Pays(side[id])
           r == Receives(side[id])
<1>0. WalletTypeOK /\ AnswersInv
  BY Zenon DEF OrdersInv
<1>1. answers' = answers \ {a} /\ UNCHANGED <<side, size, executed, stage, free, lost>>
  BY <1>0, UpdateEffect, Zenon
<1>2. CASE UNCHANGED <<balance, reserves, misposted>>
  BY <1>1, <1>2, LedgerLose, Zenon
<1>3. CASE /\ a.type # "INVALID" /\ reserves' = [reserves EXCEPT ![a.id] = 0]
           /\ UNCHANGED <<balance, misposted>>
  BY <1>1, <1>3, LedgerLose, Zenon
<1>4. ASSUME a.type # "INVALID", id \in WalletOrderIds, reserves' = [reserves EXCEPT ![id] = 0],
             NEW u \in Tickers, NEW plus \in Nat, NEW error \in Nat,
             balance' = Add(balance, u, plus), misposted' = Add(misposted, u, error),
             Owed(u, id)' = 0, plus <= Owed(u, id) + error
      PROVE  LedgerInv'
  <2>1. /\ reserves \in [WalletOrderIds -> Nat]
        /\ balance \in [Tickers -> Nat] /\ misposted \in [Tickers -> Nat]
    BY <1>0, Zenon DEF WalletTypeOK
  <2>2. reserves'[id] = 0 /\ \A x \in WalletOrderIds : x # id => reserves'[x] = reserves[x]
    BY <1>4, <2>1, Zenon
  <2>3. \A t \in Tickers : \A x \in WalletOrderIds : x # id => Owed(t, x)' = Owed(t, x)
    BY <1>1, <2>2, OwedStays, Zenon
  <2>4. \A t \in Tickers : Owed(t, id)' <= Owed(t, id)
    BY <1>1, <1>4, <2>2, OwedLess, Zenon
  <2>5. /\ balance'[u] = balance[u] + plus /\ misposted'[u] = misposted[u] + error
        /\ \A t \in Tickers : t # u => balance'[t] = balance[t] /\ misposted'[t] = misposted[t]
    <3>1. u \in Tickers /\ plus \in Nat /\ error \in Nat
      BY <1>4, Zenon
    <3>2. /\ Add(balance, u, plus)[u] = balance[u] + plus
          /\ \A t \in Tickers : t # u => Add(balance, u, plus)[t] = balance[t]
      BY <2>1, <3>1, AddNat, Zenon
    <3>3. /\ Add(misposted, u, error)[u] = misposted[u] + error
          /\ \A t \in Tickers : t # u => Add(misposted, u, error)[t] = misposted[t]
      BY <2>1, <3>1, AddNat, Zenon
    <3> QED
      BY <1>4, <3>2, <3>3, Zenon
  <2> HIDE DEF id
  <2>6. ASSUME NEW t \in Tickers
        PROVE  Owed(t, id)' + balance'[t] + free[t] + misposted[t]
                 <= Owed(t, id) + balance[t] + free'[t] + misposted'[t]
    <3>1. /\ balance[t] \in Nat /\ free[t] \in Nat /\ misposted[t] \in Nat /\ Owed(t, id) \in Nat
          /\ free'[t] = free[t] /\ Owed(t, id)' \in Nat /\ Owed(t, id)' <= Owed(t, id)
      BY <1>1, <1>4, <2>4, Amounts, Zenon
    <3>2. CASE t = u
      <4>1. /\ balance'[t] = balance[t] + plus /\ misposted'[t] = misposted[t] + error
            /\ Owed(t, id)' = 0 /\ plus <= Owed(t, id) + error
        BY <1>4, <2>5, <3>2, Zenon
      <4> QED
        BY <3>1, <4>1
    <3>3. CASE t # u
      <4>1. balance'[t] = balance[t] /\ misposted'[t] = misposted[t]
        BY <2>5, <3>3, Zenon
      <4> QED
        BY <3>1, <4>1
    <3> QED
      BY <3>2, <3>3, Zenon
  <2> QED
    BY <1>4, <2>3, <2>6, LedgerStep, Zenon
<1>5. CASE /\ a.type = "CANCELED" /\ id \in WalletOrderIds /\ reserves[id] > 0
           /\ reserves' = [reserves EXCEPT ![id] = 0]
           /\ balance' = Add(balance, p, reserves[id])
           /\ misposted' = Add(misposted, p, Lots(p, executed[id]))
  <2>1. a.type # "INVALID" /\ stage[id] = "cancelled" /\ Receipt(id) \in answers
    BY <1>0, <1>5, Zenon DEF AnswersInv
  <2>2. /\ p \in Tickers /\ p # r /\ size[id] \in Nat /\ executed[id] \in Nat /\ executed[id] <= size[id]
        /\ Lots(p, executed[id]) \in Nat /\ Lots(p, size[id]) \in Nat
    BY <1>0, <1>5, OfOrder, Zenon DEF OrdersInv, ExecutedInv
  <2>3. reserves[id] = Lots(p, size[id])
    BY <1>5, Zenon DEF OrdersInv, ReservationInv, Reserved
  <2>4. Owed(p, id) = Lots(p, size[id] - executed[id])
    BY <1>5, <2>1, <2>2, Zenon DEF Owed, Refunding
  <2>5. Lots(p, size[id] - executed[id]) + Lots(p, executed[id]) = Lots(p, size[id])
    BY <2>2, LotsSplit, Zenon
  <2>6. reserves[id] <= Owed(p, id) + Lots(p, executed[id])
    <3>1. Owed(p, id) + Lots(p, executed[id]) = reserves[id]
      BY <2>3, <2>4, <2>5, Zenon
    <3> QED
      BY <2>2, <2>3, <3>1
  <2>7. \A t \in Tickers : t = p => Owed(t, id)' = 0
    <3>1. reserves \in [WalletOrderIds -> Nat] /\ ~(0 > 0)
      BY <1>0 DEF WalletTypeOK
    <3>2. ~Refunding(id)'
      BY <1>5, <3>1, Zenon DEF Refunding
    <3> QED
      BY <1>1, <2>1, <2>2, <3>2, Zenon DEF Owed
  <2>8. PICK u \in Tickers, plus \in Nat, error \in Nat :
          u = p /\ plus = reserves[id] /\ error = Lots(p, executed[id])
    BY <2>2, <2>3, Zenon
  <2> QED
    BY <1>4, <1>5, <2>1, <2>6, <2>7, <2>8, Zenon
<1>6. CASE /\ a.type = "FILLED" /\ id \in WalletOrderIds
           /\ reserves' = [reserves EXCEPT ![id] = 0]
           /\ balance' = Add(balance, r, a.exec)
           /\ misposted' = Add(misposted, r, Surplus(id, a.exec))
  <2>1. a.type # "INVALID" /\ stage[id] # "sent" /\ a.exec \in Nat
    BY <1>0, <1>6, Zenon DEF AnswersInv, WalletTypeOK, Answers
  <2>2. r \in Tickers /\ Surplus(id, a.exec) \in Nat /\ a.exec <= Lots(r, executed[id]) + Surplus(id, a.exec)
    BY <1>0, <1>6, <2>1, OfOrder, SurplusCovers, Zenon
  <2>3. Owed(r, id) = Lots(r, executed[id])
    BY <1>6, <2>1, Zenon DEF Owed, Filling
  <2>4. ~Filling(id)'
    <3>1. IsReply(a, a.id)
      BY <1>6, Zenon DEF IsReply
    <3>2. \A b \in answers : b.id = id /\ b.type = "FILLED" => b = a
      BY <1>0, <3>1, Zenon DEF AnswersInv, IsReply
    <3> QED
      BY <1>1, <3>2, Zenon DEF Filling
  <2>5. \A t \in Tickers : t = r => Owed(t, id)' = 0
    BY <1>1, <2>1, <2>4, Zenon DEF Owed
  <2>6. PICK u \in Tickers, plus \in Nat, error \in Nat :
          u = r /\ plus = a.exec /\ error = Surplus(id, a.exec)
    BY <2>1, <2>2, Zenon
  <2>7. plus <= Owed(u, id) + error
    BY <2>2, <2>3, <2>6, Zenon
  <2> QED
    BY <1>4, <1>6, <2>1, <2>5, <2>6, <2>7, Zenon
<1> QED
  BY <1>0, <1>2, <1>3, <1>5, <1>6, UpdateEffect, Zenon

(* ::Wallet shows more of a ticker than the account has free only by what   *)
(* Update adds wrongly, the executed part of an order refunded whole and    *)
(* base credited as quote, and up to that an order Reserve let through is   *)
(* covered when it arrives: for any deposit, any price, any number and size *)
(* of orders, with answers lost and in any order.                           *)
THEOREM WalletIsCautious ==
  ASSUME WalletAssumption
  PROVE  WalletSpec => []WalletOverstatesOnlyMisposted
<1> DEFINE Inv == OrdersInv /\ LedgerInv
<1>1. WalletInit => Inv
  <2> SUFFICES ASSUME WalletInit PROVE LedgerInv
    BY OrdersStart, Zenon
  <2>1. /\ answers = {} /\ \A id \in WalletOrderIds : stage[id] = "unused"
        /\ \A t \in Tickers : balance[t] = Deposit /\ free[t] = Deposit /\ misposted[t] = 0
    BY Zenon DEF WalletInit
  <2>2. ASSUME NEW t \in Tickers
        PROVE  /\ IsFiniteSet(Tokens(OwedAll(t)))
               /\ Cardinality(Tokens(OwedAll(t))) + balance[t] <= free[t] + misposted[t]
    <3>1. \A id \in WalletOrderIds : Owed(t, id) = 0
      BY <2>1, Zenon DEF Owed, Filling, Refunding
    <3>2. Tokens(OwedAll(t)) = {}
      BY <3>1 DEF Tokens, OwedAll
    <3>3. IsFiniteSet(Tokens(OwedAll(t))) /\ Cardinality(Tokens(OwedAll(t))) = 0
      BY <3>2, FS_EmptySet, Zenon
    <3> QED
      BY <2>1, <3>3 DEF WalletAssumption
  <2> QED
    BY <2>2, Zenon DEF LedgerInv
<1>2. Inv /\ [WalletNext]_walletVars => Inv'
  <2> SUFFICES ASSUME Inv, OrdersInv', [WalletNext]_walletVars PROVE LedgerInv'
    BY OrdersStep, Zenon
  <2>1. CASE UNCHANGED walletVars
    BY <2>1, Zenon DEF walletVars, LedgerInv, OwedAll, Owed, Filling, Refunding, Tokens
  <2>2. ASSUME NEW id \in WalletOrderIds, CancelFails(id) PROVE LedgerInv'
    <3>1. /\ answers' = answers \cup {CancelError}
          /\ UNCHANGED <<balance, reserves, side, size, executed, stage, free, misposted>>
      BY <2>2, CancelFailsEffect, Zenon DEF OrdersInv
    <3>2. CancelError.id \notin WalletOrderIds
      BY DEF CancelError, NoOrder, WalletOrderIds, WalletAssumption
    <3>3. \A t \in Tickers : \A x \in WalletOrderIds : Owed(t, x)' = Owed(t, x)
      BY <3>1, <3>2, OwedStays, Zenon
    <3> QED
      BY <3>1, <3>3, LedgerSame, Zenon
  <2>3. ASSUME NEW a \in answers, LoseAnswer(a) PROVE LedgerInv'
    <3>1. /\ answers' = answers \ {a}
          /\ UNCHANGED <<balance, reserves, side, size, executed, stage, free, misposted>>
      BY <2>3, LoseEffect, Zenon DEF OrdersInv
    <3> QED
      BY <3>1, LedgerLose, Zenon
  <2>4. CASE WalletNext
    BY <2>2, <2>3, <2>4, LedgerReserve, LedgerExecute, LedgerReject, LedgerCancel, LedgerFillRest,
       LedgerUpdate, Zenon DEF WalletNext
  <2> QED
    BY <2>1, <2>4, Zenon
<1>3. Inv => WalletOverstatesOnlyMisposted
  <2> SUFFICES ASSUME Inv PROVE WalletOverstatesOnlyMisposted
    OBVIOUS
  <2>1. ASSUME NEW t \in Tickers
        PROVE  /\ balance[t] <= free[t] + misposted[t]
               /\ \A id \in WalletOrderIds : Owed(t, id) + balance[t] <= free[t] + misposted[t]
    <3>1. /\ Cardinality(Tokens(OwedAll(t))) \in Nat /\ IsFiniteSet(Tokens(OwedAll(t)))
          /\ Cardinality(Tokens(OwedAll(t))) + balance[t] <= free[t] + misposted[t]
      BY FS_CardinalityType, Zenon DEF LedgerInv
    <3>2. balance[t] \in Nat /\ free[t] \in Nat /\ misposted[t] \in Nat
      BY Zenon DEF OrdersInv, WalletTypeOK
    <3>3. ASSUME NEW id \in WalletOrderIds PROVE Owed(t, id) + balance[t] <= free[t] + misposted[t]
      <4>1. OwedAll(t) \in [WalletOrderIds -> Nat] /\ OwedAll(t)[id] = Owed(t, id)
        BY OwedNat, Zenon DEF OwedAll
      <4>2. Owed(t, id) <= Cardinality(Tokens(OwedAll(t)))
        BY <3>1, <4>1, TokensHold, Zenon
      <4>3. Owed(t, id) \in Nat
        BY OwedNat, Zenon
      <4> QED
        BY <3>1, <3>2, <4>2, <4>3
    <3> QED
      BY <3>1, <3>2, <3>3
  <2>2. ASSUME NEW id \in WalletOrderIds, stage[id] = "sent"
        PROVE  LET pays == Pays(side[id]) IN
               balance[pays] + Lots(pays, size[id]) <= free[pays] + misposted[pays]
    <3> DEFINE pays == Pays(side[id])
    <3>1. pays \in Tickers /\ Lots(pays, size[id]) \in Nat
      BY OfOrder, Zenon DEF OrdersInv
    <3>2. Owed(pays, id) = Lots(pays, size[id])
      BY <2>2, Zenon DEF Owed
    <3> HIDE DEF pays
    <3>3. Lots(pays, size[id]) + balance[pays] <= free[pays] + misposted[pays]
      BY <2>1, <3>1, <3>2, Zenon
    <3>4. balance[pays] \in Nat
      BY <3>1, Zenon DEF OrdersInv, WalletTypeOK
    <3>5. balance[pays] + Lots(pays, size[id]) <= free[pays] + misposted[pays]
      <4>1. Lots(pays, size[id]) + balance[pays] = balance[pays] + Lots(pays, size[id])
        BY <3>1, <3>4
      <4> QED
        BY <3>3, <4>1, Zenon
    <3> QED
      BY <3>5, Zenon DEF pays
  <2>3. WalletTypeOK
    BY Zenon DEF OrdersInv
  <2> QED
    BY <2>1, <2>2, <2>3, Zenon DEF WalletOverstatesOnlyMisposted
<1> QED
  BY <1>1, <1>2, <1>3, PTL DEF WalletSpec

====
