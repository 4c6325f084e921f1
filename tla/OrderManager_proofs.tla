------------------------- MODULE OrderManager_proofs -------------------------
(***************************************************************************)
(* Proofs about the order manager and its loop, for every MaxOrders and    *)
(* MaxQty.  The invariants need RemaindersSurvive: without it the code     *)
(* does have two active orders on a side.                                  *)
(*                                                                         *)
(* The second half is about Backtesting, the engine that strategies run    *)
(* under without an exchange.                                              *)
(***************************************************************************)
EXTENDS OrderManager, Backtesting, WellFoundedInduction, TLAPS

-------------------------------------------------------------------------------
(* A side survives the round trip through the request and the parser.       *)
LEMMA SideRoundTrip ==
  /\ \A s \in TradedSides :
       SetSide[s] \in {"BUY", "SELL"} /\ ParseSide[SetSide[s]] = s
  /\ \A x \in {"BUY", "SELL"} : ParseSide[x] \in TradedSides
  /\ TradedSides \subseteq Sides
  /\ "kInvalid" \in Sides /\ "kInvalid" \notin TradedSides
  BY DEF TradedSides, Sides, SetSide, ParseSide

(* leaves_qty is in range, is zero for a complete fill, and, when remainders
   survive, only then.                                                      *)
LEMMA ParsedLeaves ==
  ASSUME NEW q \in Qtys, NEW e \in 0 .. q
  PROVE  /\ LeavesQty(q, e) \in 0 .. QtyInvalid
         /\ RemaindersSurvive /\ e < q => LeavesQty(q, e) # 0
<1> USE MaxQtyAssumption DEF Qtys, QtyInvalid
<1>1. CASE <<q, e>> \in Truncated
  <2>1. e < q
    BY <1>1, TruncatedAssumption, Zenon
  <2>2. RemaindersSurvive => e + 1 < q
    BY <1>1, Zenon DEF RemaindersSurvive
  <2>3. LeavesQty(q, e) = q - e - 1
    BY <1>1, Zenon DEF LeavesQty
  <2> QED
    BY <2>1, <2>2, <2>3
<1>2. CASE <<q, e>> \notin Truncated
  <2>1. LeavesQty(q, e) = q - e
    BY <1>2, Zenon DEF LeavesQty
  <2> QED
    BY <2>1
<1> QED
  BY <1>1, <1>2, Zenon

(* An answer to a new order is a client response on the side of the request.*)
LEMMA ParsedAnswer ==
  ASSUME NEW r \in RequestNewOrder, NEW type \in {"ACCEPTED", "FILLED"}, NEW e \in 0 .. r.qty
  PROVE  LET a == ParseLimitOrder(type, r.id, SetSide[r.side], r.qty, e) IN
         /\ a \in ClientResponse
         /\ a.side = r.side /\ a.id = r.id /\ a.type = type
         /\ RemaindersSurvive /\ e < r.qty => a.leaves # 0
<1> DEFINE a == ParseLimitOrder(type, r.id, SetSide[r.side], r.qty, e)
<1>1. r.id \in OrderIds /\ r.side \in TradedSides /\ r.qty \in Qtys
  BY Zenon DEF RequestNewOrder
<1>2. /\ LeavesQty(r.qty, e) \in 0 .. QtyInvalid
      /\ RemaindersSurvive /\ e < r.qty => LeavesQty(r.qty, e) # 0
  BY <1>1, ParsedLeaves, Zenon
<1>3. ParseSide[SetSide[r.side]] = r.side /\ r.side \in Sides
  BY <1>1, SideRoundTrip, Zenon
<1>4. a = [type |-> type, id |-> r.id, side |-> r.side, leaves |-> LeavesQty(r.qty, e)]
  BY <1>3, Zenon DEF ParseLimitOrder
<1> HIDE DEF a
<1>5. a \in ClientResponse
  BY <1>1, <1>2, <1>3, <1>4, Zenon DEF ClientResponse
<1>6. /\ a.side = r.side /\ a.id = r.id /\ a.type = type
      /\ RemaindersSurvive /\ e < r.qty => a.leaves # 0
  BY <1>2, <1>4, Zenon
<1> QED
  BY <1>5, <1>6, Zenon DEF a

(* The other two answers of the parsers.                                    *)
LEMMA OtherAnswers ==
  /\ InvalidResponse \in ClientResponse
  /\ InvalidResponse.type = "INVALID" /\ InvalidResponse.side = "kInvalid"
  /\ \A id \in OrderIds \cup {OrderIdInvalid} :
       /\ ParseCancelOrder(id) \in ClientResponse
       /\ ParseCancelOrder(id).type = "CANCELED"
       /\ ParseCancelOrder(id).side = "kInvalid"
<1> USE MaxQtyAssumption, SideRoundTrip
<1>1. QtyInvalid \in 0 .. QtyInvalid
  BY DEF QtyInvalid
<1> QED
  BY <1>1, Zenon DEF InvalidResponse, ParseCancelOrder, ClientResponse

(* OnOrderResponse keeps an OMOrder an OMOrder and never changes its id.    *)
LEMMA UpdatedOrder ==
  ASSUME NEW o \in OMOrder, NEW r \in ClientResponse
  PROVE  /\ Updated(o, r) \in OMOrder
         /\ Updated(o, r).id = o.id
         /\ r.type = "ACCEPTED" => Updated(o, r).state = "LIVE"
         /\ r.type # "ACCEPTED" => Updated(o, r).state \in {o.state, "DEAD"}
         /\ r.type = "FILLED" /\ r.leaves # 0 => Updated(o, r).state = o.state
  BY Zenon DEF Updated, OMOrder, OMOrderState, ClientResponse

-------------------------------------------------------------------------------
(* What the exchange makes of a request: one new answer, on the side of the
   request, which leaves nothing only if the order does not rest, or an error.*)
LEMMA ExecuteNewFacts ==
  ASSUME TypeOK, NEW r \in sentNew, ExecuteNew(r)
  PROVE  /\ r \in RequestNewOrder
         /\ sentNew' = sentNew \ {r}
         /\ UNCHANGED <<order, nextOrderId, requestsNewOrder, requestsCancelOrder,
                        gateway, sentCancel, told>>
         /\ \E a \in ClientResponse :
              /\ responses' = responses \cup {a}
              /\ \/ a = InvalidResponse /\ resting' = resting
                 \/ /\ a.type \in {"ACCEPTED", "FILLED"} /\ a.side = r.side /\ a.id = r.id
                    /\ resting' = resting
                 \/ /\ a.type \in {"ACCEPTED", "FILLED"} /\ a.side = r.side /\ a.id = r.id
                    /\ RemaindersSurvive => a.leaves # 0
                    /\ resting' = resting \cup {[id |-> r.id, side |-> SetSide[r.side]]}
<1>1. r \in RequestNewOrder /\ r.qty \in Qtys
  BY Zenon DEF TypeOK, RequestNewOrder
<1>2. r.qty \in Nat /\ 0 < r.qty /\ 0 \in 0 .. r.qty /\ r.qty \in 0 .. r.qty
  BY <1>1, MaxQtyAssumption DEF Qtys
<1> DEFINE A(type, e) == ParseLimitOrder(type, r.id, SetSide[r.side], r.qty, e)
           Rests == resting' = resting \cup {[id |-> r.id, side |-> SetSide[r.side]]}
<1>3. \/ responses' = responses \cup {InvalidResponse} /\ resting' = resting
      \/ responses' = responses \cup {A("ACCEPTED", 0)} /\ Rests
      \/ Rests /\ \E e \in 1 .. r.qty - 1 : responses' = responses \cup {A("FILLED", e)}
      \/ responses' = responses \cup {A("FILLED", r.qty)} /\ resting' = resting
  BY Zenon DEF ExecuteNew
<1>4. ASSUME NEW type \in {"ACCEPTED", "FILLED"}, NEW e \in 0 .. r.qty
      PROVE  /\ A(type, e) \in ClientResponse
             /\ A(type, e).type = type /\ A(type, e).side = r.side /\ A(type, e).id = r.id
             /\ RemaindersSurvive /\ e < r.qty => A(type, e).leaves # 0
  BY <1>1, ParsedAnswer
<1>5. \A e \in 1 .. r.qty - 1 : e \in 0 .. r.qty /\ e < r.qty
  BY <1>2
<1> HIDE DEF A, Rests
<1>6. \E a \in ClientResponse :
        /\ responses' = responses \cup {a}
        /\ \/ a = InvalidResponse /\ resting' = resting
           \/ /\ a.type \in {"ACCEPTED", "FILLED"} /\ a.side = r.side /\ a.id = r.id
              /\ resting' = resting
           \/ /\ a.type \in {"ACCEPTED", "FILLED"} /\ a.side = r.side /\ a.id = r.id
              /\ RemaindersSurvive => a.leaves # 0
              /\ Rests
  <2>1. CASE responses' = responses \cup {InvalidResponse} /\ resting' = resting
    BY <2>1, OtherAnswers, Zenon
  <2>2. CASE responses' = responses \cup {A("ACCEPTED", 0)} /\ Rests
    BY <2>2, <1>2, <1>4, Zenon
  <2>3. CASE Rests /\ \E e \in 1 .. r.qty - 1 : responses' = responses \cup {A("FILLED", e)}
    BY <2>3, <1>4, <1>5, Zenon
  <2>4. CASE responses' = responses \cup {A("FILLED", r.qty)} /\ resting' = resting
    BY <2>4, <1>2, <1>4, Zenon
  <2> QED
    BY <1>3, <2>1, <2>2, <2>3, <2>4, Zenon
<1> QED
  BY <1>1, <1>6, Zenon DEF ExecuteNew, Rests

(* Every handler and every move of the exchange keeps the types.            *)
LEMMA TypeStep ==
  ASSUME TypeOK, [Next]_vars
  PROVE  TypeOK'
<1> USE MaxOrdersAssumption, MaxQtyAssumption
<1>1. ASSUME NEW s \in TradedSides, NEW q \in Qtys, NewOrder(s, q)
      PROVE  TypeOK'
  <2>1. nextOrderId \in OrderIds /\ nextOrderId' \in 1 .. MaxOrders + 1
    BY <1>1 DEF NewOrder, TypeOK, OrderIds
  <2>2. [id |-> nextOrderId, qty |-> q, state |-> "PENDING_NEW"] \in OMOrder
    BY <2>1 DEF OMOrder, OMOrderState, Qtys, QtyInvalid
  <2>3. order' \in [Sides -> OMOrder]
    BY <1>1, <2>2, Zenon DEF NewOrder, TypeOK
  <2>4. requestsNewOrder' \subseteq RequestNewOrder
    BY <1>1, <2>1 DEF NewOrder, TypeOK, RequestNewOrder
  <2> QED
    BY <1>1, <2>1, <2>3, <2>4, Zenon DEF NewOrder, TypeOK
<1>2. ASSUME NEW s \in TradedSides, CancelOrder(s)
      PROVE  TypeOK'
  <2>1. order[s] \in OMOrder
    BY SideRoundTrip, Zenon DEF TypeOK
  <2>2. [order[s] EXCEPT !.state = "PENDING_CANCEL"] \in OMOrder
    BY <2>1, Zenon DEF OMOrder, OMOrderState
  <2>3. order' \in [Sides -> OMOrder]
    BY <1>2, <2>2, Zenon DEF CancelOrder, TypeOK
  <2>4. order[s].id \in OrderIds \cup {OrderIdInvalid}
    BY <2>1, Zenon DEF OMOrder
  <2> QED
    BY <1>2, <2>3, <2>4, Zenon DEF CancelOrder, TypeOK
<1>3. CASE RunNewOrders
  BY <1>3, Zenon DEF RunNewOrders, TypeOK
<1>4. CASE RunCancelOrders
  BY <1>4, Zenon DEF RunCancelOrders, TypeOK
<1>5. ASSUME NEW r \in sentNew, ExecuteNew(r)
      PROVE  TypeOK'
  <2>1. r.id \in OrderIds /\ SetSide[r.side] \in {"BUY", "SELL"}
    BY SideRoundTrip, Zenon DEF TypeOK, RequestNewOrder
  <2> QED
    BY <1>5, <2>1, ExecuteNewFacts DEF TypeOK
<1>6. ASSUME NEW id \in sentCancel, ExecuteCancel(id)
      PROVE  TypeOK'
  <2>1. InvalidResponse \in ClientResponse /\ ParseCancelOrder(id) \in ClientResponse
    BY OtherAnswers, Zenon DEF TypeOK
  <2> QED
    BY <1>6, <2>1, Zenon DEF ExecuteCancel, TypeOK
<1>7. ASSUME NEW o \in resting, FillResting(o)
      PROVE  TypeOK'
  BY <1>7, Zenon DEF FillResting, TypeOK
<1>8. CASE LoseMessage
  BY <1>8, Zenon DEF LoseMessage, TypeOK
<1>9. ASSUME NEW r \in responses, OnOrderResponse(r)
      PROVE  TypeOK'
  <2>1. r \in ClientResponse /\ r.side \in Sides
    BY Zenon DEF TypeOK, ClientResponse
  <2>2. Updated(order[r.side], r) \in OMOrder
    BY <2>1, UpdatedOrder, Zenon DEF TypeOK
  <2>3. order' \in [Sides -> OMOrder]
    BY <1>9, <2>2, Zenon DEF OnOrderResponse, TypeOK
  <2>4. told' \subseteq {"INVALID", "ACCEPTED", "CANCELED", "FILLED"}
                       \X (OrderIds \cup {OrderIdInvalid})
    BY <1>9, <2>1 DEF OnOrderResponse, TypeOK, ClientResponse
  <2> QED
    BY <1>9, <2>3, <2>4, Zenon DEF OnOrderResponse, TypeOK
<1>10. CASE UNCHANGED vars
  BY <1>10, Zenon DEF vars, TypeOK
<1> QED
  BY <1>1, <1>2, <1>3, <1>4, <1>5, <1>6, <1>7, <1>8, <1>9, <1>10, Zenon DEF Next

-------------------------------------------------------------------------------
(* A step that leaves the slots and the history alone, and only takes messages
   and resting orders away or hands requests on, keeps the invariant.       *)
LEMMA ShrinkStep ==
  ASSUME OrderInv, TypeOK', UNCHANGED <<order, told>>,
         Requests' \subseteq Requests, requestsNewOrder' \cap sentNew' = {},
         resting' \subseteq resting,
         \A a \in responses' : a \in responses \/
           (a.type \notin {"ACCEPTED", "FILLED"} /\ a.side = "kInvalid")
  PROVE  OrderInv'
<1>1. NewAnswers' \subseteq NewAnswers
  BY Zenon DEF NewAnswers
<1>2. MessagesOwnSlot'
  BY <1>1, Zenon DEF OrderInv, MessagesOwnSlot, Pending, OrderIsLive
<1>3. OneMessagePerSide'
  BY <1>1, Zenon DEF OrderInv, OneMessagePerSide
<1>4. OtherAnswersMissSlots'
  BY Zenon DEF OrderInv, OtherAnswersMissSlots, NewAnswers
<1>5. LiveWasAccepted'
  BY Zenon DEF OrderInv, LiveWasAccepted
<1> QED
  BY <1>2, <1>3, <1>4, <1>5, Zenon DEF OrderInv

(* NewOrder: the slot was DEAD or INVALID, so its side had no message and no
   resting order, and the new request is the only one.                      *)
LEMMA NewOrderStep ==
  ASSUME OrderInv, TypeOK', NEW s \in TradedSides, NEW q \in Qtys, NewOrder(s, q)
  PROVE  OrderInv'
<1> DEFINE request == [id |-> nextOrderId, side |-> s, qty |-> q]
<1>1. /\ order[s].state \in {"DEAD", "INVALID"}
      /\ Requests' \subseteq Requests \cup {request}
      /\ sentNew' = sentNew /\ requestsNewOrder' \subseteq requestsNewOrder \cup {request}
      /\ resting' = resting /\ responses' = responses /\ told' = told
  BY Zenon DEF NewOrder, Requests, OrderIsLive
<1>2. order \in [Sides -> OMOrder] /\ s \in Sides
  BY SideRoundTrip, Zenon DEF OrderInv, TypeOK
<1>3. /\ order'[s].id = nextOrderId /\ order'[s].state = "PENDING_NEW"
      /\ \A t \in Sides \ {s} : order'[t] = order[t]
  BY <1>2, Zenon DEF NewOrder
<1>4. /\ \A r \in Requests : r.side \in Sides /\ r.side # s
      /\ \A a \in NewAnswers : a.side \in Sides /\ a.side # s
      /\ \A o \in resting : ParseSide[o.side] \in Sides /\ ParseSide[o.side] # s
  BY <1>1, SideRoundTrip DEF OrderInv, MessagesOwnSlot, Pending, OrderIsLive, TypeOK,
     Requests, RequestNewOrder
<1>5. request.side = s /\ request.id = nextOrderId
  OBVIOUS
<1> HIDE DEF request
<1>6. NewAnswers' = NewAnswers
  BY <1>1, Zenon DEF NewAnswers
<1>7. MessagesOwnSlot'
  <2>1. \A r \in Requests' : order'[r.side].id = r.id /\ Pending(r.side)'
    BY <1>1, <1>3, <1>4, <1>5 DEF OrderInv, MessagesOwnSlot, Pending
  <2>2. \A a \in NewAnswers' :
          a.side \in TradedSides /\ order'[a.side].id = a.id /\ Pending(a.side)'
    BY <1>3, <1>4, <1>6 DEF OrderInv, MessagesOwnSlot, Pending
  <2>3. \A o \in resting' :
          order'[ParseSide[o.side]].id = o.id /\ OrderIsLive(ParseSide[o.side])'
    BY <1>1, <1>3, <1>4, Zenon DEF OrderInv, MessagesOwnSlot, OrderIsLive
  <2> QED
    BY <2>1, <2>2, <2>3, Zenon DEF MessagesOwnSlot
<1>8. OneMessagePerSide'
  <2>1. request \notin sentNew
    BY <1>4, <1>5, Zenon DEF Requests
  <2> QED
    BY <1>1, <1>4, <1>5, <1>6, <2>1 DEF OrderInv, OneMessagePerSide
<1>9. OtherAnswersMissSlots'
  BY <1>1, <1>6, Zenon DEF OrderInv, OtherAnswersMissSlots
<1>10. LiveWasAccepted'
  BY <1>1, <1>3, Zenon DEF OrderInv, LiveWasAccepted
<1> QED
  BY <1>7, <1>8, <1>9, <1>10, Zenon DEF OrderInv

(* CancelOrder makes a slot pending, which every message and every resting
   order tolerates.                                                         *)
LEMMA CancelOrderStep ==
  ASSUME OrderInv, TypeOK', NEW s \in TradedSides, CancelOrder(s)
  PROVE  OrderInv'
<1>1. order \in [Sides -> OMOrder] /\ s \in Sides
  BY SideRoundTrip, Zenon DEF OrderInv, TypeOK
<1>2. /\ order'[s].id = order[s].id /\ order'[s].state = "PENDING_CANCEL"
      /\ \A t \in Sides \ {s} : order'[t] = order[t]
  BY <1>1, Zenon DEF CancelOrder, OMOrder
<1>3. /\ Requests' = Requests /\ NewAnswers' = NewAnswers /\ resting' = resting
      /\ requestsNewOrder' = requestsNewOrder /\ sentNew' = sentNew
      /\ responses' = responses /\ told' = told
  BY Zenon DEF CancelOrder, Requests, NewAnswers
<1>4. /\ \A r \in Requests : r.side \in Sides
      /\ \A a \in NewAnswers : a.side \in Sides
      /\ \A o \in resting : ParseSide[o.side] \in Sides
  BY SideRoundTrip, Zenon DEF OrderInv, MessagesOwnSlot, TypeOK, Requests, RequestNewOrder
<1>5. MessagesOwnSlot'
  BY <1>2, <1>3, <1>4 DEF OrderInv, MessagesOwnSlot, Pending, OrderIsLive
<1>6. OneMessagePerSide' /\ OtherAnswersMissSlots'
  BY <1>3, Zenon DEF OrderInv, OneMessagePerSide, OtherAnswersMissSlots
<1>7. LiveWasAccepted'
  BY <1>2, <1>3, Zenon DEF OrderInv, LiveWasAccepted
<1> QED
  BY <1>5, <1>6, <1>7, Zenon DEF OrderInv

(* The exchange turns the only request of a side into its only answer.      *)
LEMMA ExecuteNewStep ==
  ASSUME OrderInv, TypeOK', RemaindersSurvive, NEW r \in sentNew, ExecuteNew(r)
  PROVE  OrderInv'
<1>1. /\ r \in RequestNewOrder /\ r \in Requests /\ r \notin requestsNewOrder
      /\ sentNew' = sentNew \ {r}
      /\ UNCHANGED <<order, requestsNewOrder, told>>
  BY ExecuteNewFacts, Zenon DEF OrderInv, OneMessagePerSide, Requests
<1>2. Requests' = Requests \ {r} /\ requestsNewOrder' \cap sentNew' = {}
  BY <1>1, Zenon DEF Requests, OrderInv, OneMessagePerSide
<1> DEFINE o == [id |-> r.id, side |-> SetSide[r.side]]
<1>3. PICK a \in ClientResponse :
        /\ responses' = responses \cup {a}
        /\ \/ a = InvalidResponse /\ resting' = resting
           \/ /\ a.type \in {"ACCEPTED", "FILLED"} /\ a.side = r.side /\ a.id = r.id
              /\ resting' = resting
           \/ /\ a.type \in {"ACCEPTED", "FILLED"} /\ a.side = r.side /\ a.id = r.id
              /\ RemaindersSurvive => a.leaves # 0
              /\ resting' = resting \cup {o}
  BY ExecuteNewFacts, Zenon DEF OrderInv
<1>4. CASE a = InvalidResponse /\ resting' = resting
  <2>1. \A b \in responses' : b \in responses \/
          (b.type \notin {"ACCEPTED", "FILLED"} /\ b.side = "kInvalid")
    BY <1>3, <1>4, OtherAnswers, Zenon
  <2> QED
    BY <1>1, <1>2, <1>4, <2>1, ShrinkStep, Zenon
<1>5. CASE /\ a.type \in {"ACCEPTED", "FILLED"} /\ a.side = r.side /\ a.id = r.id
           /\ resting' = resting \/ (resting' = resting \cup {o} /\ a.leaves # 0)
  <2>1. NewAnswers' = NewAnswers \cup {a} /\ responses' \ NewAnswers' = responses \ NewAnswers
    BY <1>3, <1>5, Zenon DEF NewAnswers
  <2>2. /\ r.side \in TradedSides
        /\ order[r.side].id = r.id /\ Pending(r.side)
        /\ \A b \in NewAnswers : b.side # r.side
        /\ \A x \in resting : ParseSide[x.side] # r.side
        /\ \A x \in Requests \ {r} : x.side # r.side
    BY <1>1, Zenon DEF OrderInv, MessagesOwnSlot, OneMessagePerSide, RequestNewOrder
  <2>3. o.id = r.id /\ ParseSide[o.side] = r.side
    BY <2>2, SideRoundTrip, Zenon
  <2> HIDE DEF o
  <2>4. MessagesOwnSlot'
    <3>1. \A x \in Requests' : order'[x.side].id = x.id /\ Pending(x.side)'
      BY <1>1, <1>2, Zenon DEF OrderInv, MessagesOwnSlot, Pending
    <3>2. \A b \in NewAnswers' :
            b.side \in TradedSides /\ order'[b.side].id = b.id /\ Pending(b.side)'
      BY <1>1, <1>5, <2>1, <2>2 DEF OrderInv, MessagesOwnSlot, Pending
    <3>3. \A x \in resting' :
            order'[ParseSide[x.side]].id = x.id /\ OrderIsLive(ParseSide[x.side])'
      BY <1>1, <1>5, <2>2, <2>3 DEF OrderInv, MessagesOwnSlot, Pending, OrderIsLive
    <3> QED
      BY <3>1, <3>2, <3>3, Zenon DEF MessagesOwnSlot
  <2>5. OneMessagePerSide'
    <3>1. \A r1, r2 \in Requests' : r1.side = r2.side => r1 = r2
      BY <1>2, Zenon DEF OrderInv, OneMessagePerSide
    <3>2. \A a1, a2 \in NewAnswers' : a1.side = a2.side => a1 = a2
      BY <1>5, <2>1, <2>2 DEF OrderInv, OneMessagePerSide
    <3>3. \A x \in Requests', b \in NewAnswers' : x.side # b.side
      BY <1>2, <1>5, <2>1, <2>2 DEF OrderInv, OneMessagePerSide
    <3>4. \A x \in Requests', y \in resting' : x.side # ParseSide[y.side]
      BY <1>2, <1>5, <2>2, <2>3, Zenon DEF OrderInv, OneMessagePerSide
    <3>5. \A b \in NewAnswers', y \in resting' :
            b.type = "FILLED" /\ b.leaves = 0 => b.side # ParseSide[y.side]
      BY <1>5, <2>1, <2>2, <2>3 DEF OrderInv, OneMessagePerSide
    <3> QED
      BY <1>2, <3>1, <3>2, <3>3, <3>4, <3>5, Zenon DEF OneMessagePerSide
  <2>6. OtherAnswersMissSlots'
    BY <2>1, Zenon DEF OrderInv, OtherAnswersMissSlots
  <2>7. LiveWasAccepted'
    BY <1>1, Zenon DEF OrderInv, LiveWasAccepted
  <2> QED
    BY <2>4, <2>5, <2>6, <2>7, Zenon DEF OrderInv
<1> QED
  BY <1>3, <1>4, <1>5, Zenon

(* OnOrderResponse: the answer to a new order is the only message of its side,
   and closes the slot only when nothing rests; any other answer misses the
   traded slots.                                                            *)
LEMMA OnOrderResponseStep ==
  ASSUME OrderInv, TypeOK', NEW r \in responses, OnOrderResponse(r)
  PROVE  OrderInv'
<1>1. /\ order \in [Sides -> OMOrder] /\ r \in ClientResponse
      /\ r.side \in Sides /\ order[r.side] \in OMOrder
  BY Zenon DEF OrderInv, TypeOK, ClientResponse
<1>2. /\ order'[r.side] = Updated(order[r.side], r)
      /\ \A t \in Sides \ {r.side} : order'[t] = order[t]
      /\ responses' = responses \ {r} /\ told' = told \cup {<<r.type, r.id>>}
      /\ Requests' = Requests /\ resting' = resting
      /\ requestsNewOrder' = requestsNewOrder /\ sentNew' = sentNew
  BY <1>1, Zenon DEF OnOrderResponse, Requests
<1> DEFINE u == Updated(order[r.side], r)
<1>3. /\ u.id = order[r.side].id
      /\ r.type = "ACCEPTED" => u.state = "LIVE"
      /\ r.type # "ACCEPTED" => u.state \in {order[r.side].state, "DEAD"}
      /\ r.type = "FILLED" /\ r.leaves # 0 => u.state = order[r.side].state
  BY <1>1, UpdatedOrder, Zenon
<1> HIDE DEF u
<1>4. /\ NewAnswers' = NewAnswers \ {r}
      /\ responses' \ NewAnswers' \subseteq responses \ NewAnswers
  BY <1>2, Zenon DEF NewAnswers
<1>5. /\ \A x \in Requests : x.side \in TradedSides
      /\ \A x \in resting : ParseSide[x.side] \in TradedSides
      /\ TradedSides \subseteq Sides
  BY SideRoundTrip, Zenon DEF OrderInv, TypeOK, Requests, RequestNewOrder
<1>6. /\ \A x \in Requests : x.side # r.side
      /\ \A b \in NewAnswers \ {r} : b.side # r.side
  <2>1. CASE r \in NewAnswers
    BY <2>1, Zenon DEF OrderInv, OneMessagePerSide
  <2>2. CASE r \notin NewAnswers
    <3>1. r.side = "kInvalid"
      BY <2>2, Zenon DEF OrderInv, OtherAnswersMissSlots
    <3>2. "kInvalid" \notin TradedSides
      BY SideRoundTrip
    <3>3. \A b \in NewAnswers : b.side \in TradedSides
      BY Zenon DEF OrderInv, MessagesOwnSlot
    <3> QED
      BY <1>5, <3>1, <3>2, <3>3, Zenon
  <2> QED
    BY <2>1, <2>2, Zenon
<1>7. ASSUME NEW x \in resting, ParseSide[x.side] = r.side
      PROVE  u.id = x.id /\ u.state \notin {"DEAD", "INVALID"}
  <2>1. r \in NewAnswers
    BY <1>5, <1>7, SideRoundTrip DEF OrderInv, OtherAnswersMissSlots
  <2>2. r.type = "ACCEPTED" \/ (r.type = "FILLED" /\ r.leaves # 0)
    BY <1>7, <2>1, Zenon DEF OrderInv, OneMessagePerSide, NewAnswers
  <2> QED
    BY <1>3, <1>7, <2>2, Zenon DEF OrderInv, MessagesOwnSlot, OrderIsLive
<1>8. MessagesOwnSlot'
  <2>1. \A x \in Requests' : order'[x.side].id = x.id /\ Pending(x.side)'
    BY <1>2, <1>5, <1>6, Zenon DEF OrderInv, MessagesOwnSlot, Pending
  <2>2. \A b \in NewAnswers' :
          b.side \in TradedSides /\ order'[b.side].id = b.id /\ Pending(b.side)'
    BY <1>2, <1>4, <1>5, <1>6, Zenon DEF OrderInv, MessagesOwnSlot, Pending
  <2>3. \A x \in resting' :
          order'[ParseSide[x.side]].id = x.id /\ OrderIsLive(ParseSide[x.side])'
    <3>1. ASSUME NEW x \in resting, ParseSide[x.side] = r.side
          PROVE  order'[ParseSide[x.side]].id = x.id /\ OrderIsLive(ParseSide[x.side])'
      BY <1>2, <1>7, <3>1, Zenon DEF OrderIsLive, u
    <3>2. ASSUME NEW x \in resting, ParseSide[x.side] # r.side
          PROVE  order'[ParseSide[x.side]].id = x.id /\ OrderIsLive(ParseSide[x.side])'
      BY <1>2, <1>5, <3>2, Zenon DEF OrderInv, MessagesOwnSlot, OrderIsLive
    <3> QED
      BY <1>2, <3>1, <3>2, Zenon
  <2> QED
    BY <2>1, <2>2, <2>3, Zenon DEF MessagesOwnSlot
<1>9. OneMessagePerSide' /\ OtherAnswersMissSlots'
  BY <1>2, <1>4 DEF OrderInv, OneMessagePerSide, OtherAnswersMissSlots
<1>10. LiveWasAccepted'
  <2>1. ASSUME NEW s \in Sides, order'[s].state = "LIVE", s = r.side
        PROVE  <<"ACCEPTED", order'[s].id>> \in told'
    <3>1. CASE r.type = "ACCEPTED"
      <4>1. r \in NewAnswers
        BY <3>1, Zenon DEF NewAnswers
      <4>2. order[s].id = r.id
        BY <2>1, <4>1, Zenon DEF OrderInv, MessagesOwnSlot
      <4> QED
        BY <1>2, <1>3, <2>1, <3>1, <4>2, Zenon DEF u
    <3>2. CASE r.type # "ACCEPTED"
      BY <1>2, <1>3, <2>1, <3>2, Zenon DEF OrderInv, LiveWasAccepted, u
    <3> QED
      BY <3>1, <3>2, Zenon
  <2>2. ASSUME NEW s \in Sides, order'[s].state = "LIVE", s # r.side
        PROVE  <<"ACCEPTED", order'[s].id>> \in told'
    BY <1>2, <2>2, Zenon DEF OrderInv, LiveWasAccepted
  <2> QED
    BY <2>1, <2>2, Zenon DEF LiveWasAccepted
<1> QED
  BY <1>8, <1>9, <1>10, Zenon DEF OrderInv

(* Every step of the order manager keeps the invariant.                    *)
LEMMA OrderStep ==
  ASSUME OrderInv, [Next]_vars, RemaindersSurvive
  PROVE  OrderInv'
<1>1. TypeOK'
  BY TypeStep, Zenon DEF OrderInv
<1>2. ASSUME NEW s \in TradedSides, NEW q \in Qtys, NewOrder(s, q)
      PROVE  OrderInv'
  BY <1>1, <1>2, NewOrderStep, Zenon
<1>3. ASSUME NEW s \in TradedSides, CancelOrder(s)
      PROVE  OrderInv'
  BY <1>1, <1>3, CancelOrderStep, Zenon
<1>4. CASE RunNewOrders
  <2>1. Requests' \subseteq Requests /\ requestsNewOrder' \cap sentNew' = {}
    BY <1>4, Zenon DEF RunNewOrders, Requests, OrderInv, OneMessagePerSide
  <2> QED
    BY <1>1, <1>4, <2>1, ShrinkStep, Zenon DEF RunNewOrders
<1>5. CASE RunCancelOrders
  <2>1. Requests' \subseteq Requests /\ requestsNewOrder' \cap sentNew' = {}
    BY <1>5, Zenon DEF RunCancelOrders, Requests, OrderInv, OneMessagePerSide
  <2> QED
    BY <1>1, <1>5, <2>1, ShrinkStep, Zenon DEF RunCancelOrders
<1>6. ASSUME NEW r \in sentNew, ExecuteNew(r)
      PROVE  OrderInv'
  BY <1>1, <1>6, ExecuteNewStep, Zenon
<1>7. ASSUME NEW id \in sentCancel, ExecuteCancel(id)
      PROVE  OrderInv'
  <2>1. Requests' \subseteq Requests /\ requestsNewOrder' \cap sentNew' = {}
    BY <1>7, Zenon DEF ExecuteCancel, Requests, OrderInv, OneMessagePerSide
  <2>2. id \in OrderIds \cup {OrderIdInvalid}
    BY Zenon DEF OrderInv, TypeOK
  <2>3. \A a \in responses' : a \in responses \/
          (a.type \notin {"ACCEPTED", "FILLED"} /\ a.side = "kInvalid")
    BY <1>7, <2>2, OtherAnswers, Zenon DEF ExecuteCancel
  <2> QED
    BY <1>1, <1>7, <2>1, <2>3, ShrinkStep, Zenon DEF ExecuteCancel
<1>8. ASSUME NEW o \in resting, FillResting(o)
      PROVE  OrderInv'
  <2>1. Requests' \subseteq Requests /\ requestsNewOrder' \cap sentNew' = {}
    BY <1>8, Zenon DEF FillResting, Requests, OrderInv, OneMessagePerSide
  <2> QED
    BY <1>1, <1>8, <2>1, ShrinkStep, Zenon DEF FillResting
<1>9. CASE LoseMessage
  <2>1. Requests' \subseteq Requests /\ requestsNewOrder' \cap sentNew' = {}
    BY <1>9, Zenon DEF LoseMessage, Requests, OrderInv, OneMessagePerSide
  <2>2. responses' \subseteq responses
    BY <1>9, Zenon DEF LoseMessage
  <2> QED
    BY <1>1, <1>9, <2>1, <2>2, ShrinkStep, Zenon DEF LoseMessage
<1>10. ASSUME NEW r \in responses, OnOrderResponse(r)
       PROVE  OrderInv'
  BY <1>1, <1>10, OnOrderResponseStep, Zenon
<1>11. CASE UNCHANGED vars
  <2>1. Requests' \subseteq Requests /\ requestsNewOrder' \cap sentNew' = {}
    BY <1>11, Zenon DEF vars, Requests, OrderInv, OneMessagePerSide
  <2> QED
    BY <1>1, <1>11, <2>1, ShrinkStep, Zenon DEF vars
<1> QED
  BY <1>2, <1>3, <1>4, <1>5, <1>6, <1>7, <1>8, <1>9, <1>10, <1>11, Zenon DEF Next

(* The invariant holds at the start.                                       *)
LEMMA OrderInit ==
  ASSUME Init
  PROVE  OrderInv
<1> USE MaxOrdersAssumption, MaxQtyAssumption
<1>1. [id |-> OrderIdInvalid, qty |-> QtyInvalid, state |-> "INVALID"] \in OMOrder
  BY DEF OMOrder, OMOrderState, QtyInvalid, OrderIdInvalid
<1>2. 1 \in 1 .. MaxOrders + 1
  OBVIOUS
<1>3. TypeOK
  BY <1>1, <1>2, Zenon DEF Init, TypeOK
<1>4. Requests = {} /\ NewAnswers = {} /\ resting = {} /\ responses = {}
  BY Zenon DEF Init, Requests, NewAnswers
<1>5. MessagesOwnSlot /\ OneMessagePerSide /\ OtherAnswersMissSlots
  BY <1>4, Zenon DEF Init, MessagesOwnSlot, OneMessagePerSide, OtherAnswersMissSlots
<1>6. LiveWasAccepted
  BY Zenon DEF Init, LiveWasAccepted
<1> QED
  BY <1>3, <1>5, <1>6, Zenon DEF OrderInv

-------------------------------------------------------------------------------
(* The state of the order manager and its loop keeps its types, whatever the
   doubles do.                                                              *)
THEOREM TypeCorrect == Spec => []TypeOK
<1>1. Init => TypeOK
  BY OrderInit, Zenon DEF OrderInv
<1>2. TypeOK /\ [Next]_vars => TypeOK'
  BY TypeStep, Zenon
<1> QED
  BY <1>1, <1>2, PTL DEF Spec

(* The loop of NewOrder, gateway, exchange, parser and OnOrderResponse keeps
   OrderInv when no remainder of one lot is truncated to zero.              *)
THEOREM Invariance ==
  ASSUME RemaindersSurvive
  PROVE  Spec => []OrderInv
<1>1. Init => OrderInv
  BY OrderInit, Zenon
<1>2. OrderInv /\ [Next]_vars => OrderInv'
  BY OrderStep, RemaindersSurvive, Zenon
<1> QED
  BY <1>1, <1>2, PTL DEF Spec

(* NewOrder never lets two orders of one side be able to trade at once, for any
   loss, reordering, rejection and any sequence of cancels.                 *)
THEOREM OneActiveOrder ==
  ASSUME RemaindersSurvive
  PROVE  Spec => []OneActiveOrderPerSide
<1>1. OrderInv => OneActiveOrderPerSide
  <2> SUFFICES ASSUME OrderInv, NEW x \in Outstanding, NEW y \in Outstanding, x[2] = y[2]
               PROVE  x[1] = y[1]
    BY Zenon DEF OneActiveOrderPerSide
  <2>1. \A z \in Outstanding : order[z[2]].id = z[1]
    BY DEF OrderInv, MessagesOwnSlot, Outstanding, Requests
  <2> QED
    BY <2>1
<1> QED
  BY <1>1, Invariance, PTL

(* A slot is DEAD only when no order of its side can still trade.           *)
THEOREM DeadIsClosed ==
  ASSUME RemaindersSurvive
  PROVE  Spec => []DeadOrderIsClosed
<1>1. OrderInv => DeadOrderIsClosed
  BY DEF OrderInv, MessagesOwnSlot, Outstanding, Requests, DeadOrderIsClosed,
     Pending, OrderIsLive
<1> QED
  BY <1>1, Invariance, PTL

(* The lookup of OnOrderResponse by side alone finds the order answered.    *)
THEOREM LookupBySideIsSound ==
  ASSUME RemaindersSurvive
  PROVE  Spec => []ResponseMatchesOrder
<1>1. OrderInv => ResponseMatchesOrder
  BY Zenon DEF OrderInv, MessagesOwnSlot, NewAnswers, ResponseMatchesOrder
<1> QED
  BY <1>1, Invariance, PTL

(* A LIVE slot holds an order the exchange accepted.                        *)
THEOREM LiveIsAccepted ==
  ASSUME RemaindersSurvive
  PROVE  Spec => []LiveWasAccepted
<1>1. OrderInv => LiveWasAccepted
  BY Zenon DEF OrderInv
<1> QED
  BY <1>1, Invariance, PTL
(* DEAD is over and LIVE is accepted.                                       *)
THEOREM SlotsTellTheTruth ==
  ASSUME RemaindersSurvive
  PROVE  Spec => []SlotStateIsTrue
<1>1. DeadOrderIsClosed /\ LiveWasAccepted => SlotStateIsTrue
  BY Zenon DEF SlotStateIsTrue
<1> QED
  BY <1>1, DeadIsClosed, LiveIsAccepted, RemaindersSurvive, PTL

-----------------------------------------------------------------------------
(***************************************************************************)
(* The backtesting engine.  Where the rows of the history file are: the    *)
(* first ones were shown to the book, the next are in the engine's batch,  *)
(* then come the queue and the kline KLineService is pushing.  With what   *)
(* main and the two threads may still find of each other's objects this is *)
(* inductive, and gives the theorem at the end.                            *)
(***************************************************************************)

(* A set of naturals has a least one.                                      *)
LEMMA LeastNatural ==
  ASSUME NEW T \in SUBSET Nat, T # {}
  PROVE  \E x \in T : \A y \in T : x <= y
<1>1. IsWellFoundedOn(OpToRel(<, Nat), Nat)
  BY NatLessThanWellFounded, Zenon
<1> DEFINE R == OpToRel(<, Nat)
<1>2. \A x, y \in Nat : y < x => <<y, x>> \in R
  BY Zenon DEF OpToRel
<1> HIDE DEF R
<1>3. IsWellFoundedOn(R, Nat)
  BY <1>1, Zenon DEF R
<1>4. PICK x \in T : \A y \in T : ~ (<<y, x>> \in R)
  BY <1>3, WFMin, Zenon
<1>5. ASSUME NEW y \in T PROVE x <= y
  <2>1. x \in Nat /\ y \in Nat
    OBVIOUS
  <2>2. ~(y < x)
    BY <1>2, <1>4, <2>1, Zenon
  <2> QED
    BY <2>1, <2>2
<1> QED
  BY <1>5, Zenon

(* Induction along a loop: a set with 0 that every iteration below n keeps *)
(* contains 0 .. n.                                                        *)
LEMMA UpTo ==
  ASSUME NEW n \in Nat, NEW T, 0 \in T, \A k \in 0 .. n - 1 : k \in T => k + 1 \in T
  PROVE  0 .. n \subseteq T
<1> SUFFICES ASSUME {k \in 0 .. n : k \notin T} # {} PROVE FALSE
  BY Zenon
<1>1. {k \in 0 .. n : k \notin T} \in SUBSET Nat
  OBVIOUS
<1>2. PICK x \in {k \in 0 .. n : k \notin T} : \A y \in {k \in 0 .. n : k \notin T} : x <= y
  BY <1>1, LeastNatural, Zenon
<1>3. x # 0 /\ x \in 0 .. n /\ x \notin T
  BY <1>2, Zenon
<1>4. x - 1 \in 0 .. n - 1 /\ x - 1 \in 0 .. n /\ (x - 1) + 1 = x /\ ~(x <= x - 1)
  BY <1>3
<1>5. x - 1 \in T
  BY <1>2, <1>4, Zenon
<1> QED
  BY <1>3, <1>4, <1>5, Zenon

(* A loop of N iterations over values of V: its values exist.              *)
HasRun(N, V, b, body) ==
  \E f \in [0 .. N -> V] : f[0] = b /\ \A n \in 1 .. N : f[n] = body[<<f[n - 1], n>>]

(* By induction over the iterations.                                       *)
LEMMA LoopRuns ==
  ASSUME NEW N \in Nat, NEW V, NEW b \in V, NEW body \in [V \X (1 .. N) -> V]
  PROVE  HasRun(N, V, b, body)
<1> DEFINE Runs(f, k) == f[0] = b /\ \A n \in 1 .. k : f[n] = body[<<f[n - 1], n>>]
           T == {k \in Nat : \E f \in [0 .. k -> V] : Runs(f, k)}
<1>1. 0 \in T
  <2> DEFINE f0 == [n \in 0 .. 0 |-> b]
  <2>1. f0 \in [0 .. 0 -> V] /\ f0[0] = b /\ 1 .. 0 = {}
    OBVIOUS
  <2> HIDE DEF f0
  <2> QED
    BY <2>1, Zenon
<1>2. ASSUME NEW k \in 0 .. N - 1, k \in T
      PROVE  k + 1 \in T
  <2>1. PICK f \in [0 .. k -> V] : Runs(f, k)
    BY <1>2, Zenon
  <2> DEFINE v == body[<<f[k], k + 1>>]
             g == [n \in 0 .. k + 1 |-> IF n = k + 1 THEN v ELSE f[n]]
  <2>2. v \in V
    <3>1. f[k] \in V /\ k + 1 \in 1 .. N
      OBVIOUS
    <3> QED
      BY <3>1, Zenon
  <2> HIDE DEF v
  <2>3. g \in [0 .. k + 1 -> V]
    BY <2>2
  <2>4. /\ g[0] = f[0] /\ g[k + 1] = v
        /\ \A n \in 1 .. k : g[n] = f[n] /\ g[n - 1] = f[n - 1]
        /\ g[k] = f[k] /\ (k + 1) - 1 = k
        /\ \A n \in 1 .. k + 1 : n \in 1 .. k \/ n = k + 1
    OBVIOUS
  <2> HIDE DEF g
  <2>5. Runs(g, k + 1)
    BY <2>1, <2>4, Zenon DEF v
  <2>6. k + 1 \in Nat
    OBVIOUS
  <2> HIDE DEF Runs
  <2> QED
    BY <2>3, <2>5, <2>6, Zenon
<1> HIDE DEF T
<1>3. 0 .. N \subseteq T /\ N \in 0 .. N
  <2>1. 0 .. N \subseteq T
    BY <1>1, <1>2, UpTo, Zenon
  <2> QED
    BY <2>1
<1> QED
  BY <1>3, Zenon DEF T, HasRun

(* OHLCVI::Init's loop over the lines yields rows of the file.             *)
LEMMA MatchedType ==
  ASSUME NEW rows \in Seq(Row)
  PROVE  Matched(rows) \in Seq(Row)
<1> DEFINE N == Len(rows)
           Line(v, n) == IF rows[n].match THEN Append(v, rows[n]) ELSE v
           body == [x \in Seq(Row) \X (1 .. N) |-> Line(x[1], x[2])]
           Rerun(h) == [n \in 0 .. N |-> IF n = 0 THEN << >> ELSE Line(h[n - 1], n)]
           F == CHOOSE h : h = Rerun(h)
<1>1. N \in Nat /\ \A n \in 1 .. N : rows[n] \in Row
  OBVIOUS
<1>2. ASSUME NEW v \in Seq(Row), NEW n \in 1 .. N
      PROVE  Line(v, n) \in Seq(Row)
  <2>1. rows[n] \in Row
    BY <1>1, Zenon
  <2> QED
    BY <2>1
<1>3. Matched(rows) = F[N]
  BY Zenon DEF Matched
<1> HIDE DEF N, Line
<1>4. body \in [Seq(Row) \X (1 .. N) -> Seq(Row)]
  <2>1. \A x \in Seq(Row) \X (1 .. N) : x[1] \in Seq(Row) /\ x[2] \in 1 .. N
    BY Zenon
  <2> QED
    BY <1>2, <2>1, Zenon
<1>5. ASSUME NEW v \in Seq(Row), NEW n \in 1 .. N
      PROVE  body[<<v, n>>] = Line(v, n)
  <2>1. <<v, n>> \in Seq(Row) \X (1 .. N) /\ <<v, n>>[1] = v /\ <<v, n>>[2] = n
    OBVIOUS
  <2> QED
    BY <2>1, Zenon
<1> HIDE DEF body
<1>6. << >> \in Seq(Row)
  OBVIOUS
<1>7. PICK f \in [0 .. N -> Seq(Row)] :
        f[0] = << >> /\ \A n \in 1 .. N : f[n] = body[<<f[n - 1], n>>]
  <2>1. HasRun(N, Seq(Row), << >>, body)
    BY <1>1, <1>4, <1>6, LoopRuns, Zenon
  <2> QED
    BY <2>1, Zenon DEF HasRun
<1>8. f = Rerun(f)
  <2>1. \A n \in 0 .. N : n # 0 => n \in 1 .. N /\ n - 1 \in 0 .. N
    BY <1>1
  <2>2. \A n \in 0 .. N : f[n] = IF n = 0 THEN << >> ELSE Line(f[n - 1], n)
    BY <1>5, <1>7, <2>1, Zenon
  <2> QED
    BY <2>2, Zenon
<1>9. F = Rerun(F)
  <2> HIDE DEF Rerun
  <2> QED
    BY <1>8, Zenon
<1> HIDE DEF F
<1>10. F[0] = << >> /\ \A n \in 1 .. N : F[n] = Line(F[n - 1], n)
  <2>1. 0 \in 0 .. N /\ \A n \in 1 .. N : n # 0 /\ n \in 0 .. N
    BY <1>1
  <2> QED
    BY <1>9, <2>1, Zenon
<1> DEFINE T == {n \in 0 .. N : F[n] \in Seq(Row)}
<1>11. 0 \in T
  <2>1. 0 \in 0 .. N
    BY <1>1
  <2> QED
    BY <1>6, <1>10, <2>1, Zenon
<1>12. ASSUME NEW k \in 0 .. N - 1, k \in T PROVE k + 1 \in T
  <2>1. k + 1 \in 1 .. N /\ (k + 1) - 1 = k /\ k + 1 \in 0 .. N
    BY <1>1
  <2> QED
    BY <1>2, <1>10, <1>12, <2>1, Zenon
<1> HIDE DEF T
<1>13. 0 .. N \subseteq T /\ N \in 0 .. N
  <2>1. 0 .. N \subseteq T
    BY <1>1, <1>11, <1>12, UpTo, Zenon
  <2> QED
    BY <1>1, <2>1
<1> QED
  BY <1>3, <1>13, Zenon DEF T

(* Min of the library, for two numbers.                                    *)
LEMMA LesserOfTwo ==
  ASSUME NEW a \in Int, NEW b \in Int
  PROVE  Min({a, b}) = IF a <= b THEN a ELSE b
<1> DEFINE m == IF a <= b THEN a ELSE b
<1>1. m \in {a, b} /\ \A y \in {a, b} : m <= y
  OBVIOUS
<1>2. \A x \in {a, b} : (\A y \in {a, b} : x <= y) => x = m
  OBVIOUS
<1> HIDE DEF m
<1>3. Min({a, b}) = m
  BY <1>1, <1>2, Zenon DEF Min
<1> QED
  BY <1>3, Zenon DEF m

(* Sequences: the ones of the library that are used here.                  *)
LEMMA LenFacts ==
  ASSUME NEW S, NEW s \in Seq(S)
  PROVE  Len(s) \in Nat /\ (Len(s) = 0 => s = << >>) /\ (s # << >> => Len(s) # 0)
  OBVIOUS

(* A part of a sequence.                                                   *)
LEMMA SubSeqFacts ==
  ASSUME NEW S, NEW s \in Seq(S), NEW m \in Nat \ {0}, NEW n \in 0 .. Len(s)
  PROVE  /\ SubSeq(s, m, n) \in Seq(S)
         /\ Len(SubSeq(s, m, n)) = IF m <= n THEN n - m + 1 ELSE 0
         /\ \A i \in 1 .. n - m + 1 : SubSeq(s, m, n)[i] = s[m + i - 1]
  OBVIOUS

(* Truncating a decimal of the file leaves a natural number.               *)
LEMMA KLineTypes ==
  ASSUME NEW row \in Row
  PROVE  KLines(row) \subseteq KLine
<1>1. ASSUME NEW n \in Nat PROVE Ticks(n) \subseteq Nat
  <2>1. n \div 10 \in Nat
    OBVIOUS
  <2>2. n # 0 => (n - 1) \div 10 \in Nat
    OBVIOUS
  <2> QED
    BY <2>1, <2>2, Zenon DEF Ticks
<1>2. row.open \in Nat /\ row.volume \in Nat
  BY Zenon DEF Row
<1> QED
  BY <1>1, <1>2, Zenon DEF KLines, KLine

-----------------------------------------------------------------------------
(* Where the rows are: the first ones were shown, the next are in the      *)
(* engine's batch, then come the queue and the one kline that KLineService *)
(* is pushing.                                                             *)
Flow ==
  /\ Len(pushing) <= 1
  /\ next = Len(shown) + Len(batch) + Len(external) + Len(pushing)
  /\ \A i \in 1 .. Len(shown) : history[i].open > 0 /\ shown[i] = BBOOf(history[i])
  /\ \A i \in 1 .. Len(batch) : batch[i] = history[Len(shown) + i]
  /\ \A i \in 1 .. Len(external) : external[i] = history[Len(shown) + Len(batch) + i]
  /\ \A i \in 1 .. Len(pushing) :
       pushing[i] = history[Len(shown) + Len(batch) + Len(external) + i]
  /\ ~needMore => next = Len(history)

Destroying == {<<"stop", "engine">>, <<"null", "engine">>, <<"join", "engine">>}

(* What the threads may still find.                                        *)
Lifetimes ==
  /\ main = <<"construct", "engine">> =>
       history = << >> /\ next = 0 /\ needMore /\ \A s \in Services : thread[s] = "none"
  /\ thread["engine"] = "in loop" => batch = << >>
  /\ ~derived => main \in Destroying \union Ended
  /\ ~klines => main \in {<<"join", "engine">>} \union Ended
  /\ punctual =>
       /\ \A s \in Services : thread[s] # "orphan"
       /\ ~klines => thread["engine"] \in {"none", "ended"}
  /\ NoLifetimeFault /\ StatisticsAreComplete

ReplayInv == ReplayTypeOK /\ Flow /\ Lifetimes

(* Steps that move no kline.                                               *)
LEMMA FlowKept ==
  ASSUME Flow, UNCHANGED <<history, next, external, needMore, pushing, batch, shown>>
  PROVE  Flow'
  BY Zenon DEF Flow

(* The service that is destroyed second is the engine.                     *)
LEMMA SecondDestroyed ==
  /\ AfterDestroyed("kline") = <<"~derived", "engine">>
  /\ AfterDestroyed("engine") = <<"return", "main">>
<1>1. \A t \in Services : t # "kline" => t = "engine"
  BY Zenon DEF Services
<1>2. "engine" \in Services /\ "engine" # "kline"
  BY Zenon DEF Services
<1>3. (CHOOSE t \in Services : t # "kline") = "engine"
  BY <1>1, <1>2, Zenon
<1> QED
  BY <1>2, <1>3, Zenon DEF AfterDestroyed, FirstDestroyed, DestructorOf

(* main constructs the services, and OHLCVI::Init reads the file.          *)
LEMMA StepConstruct ==
  ASSUME ReplayAssumption, ReplayInv, Construct
  PROVE  ReplayInv'
<1>1. /\ main = <<"construct", "engine">> /\ history = << >> /\ next = 0 /\ needMore
      /\ \A s \in Services : thread[s] = "none"
  BY Zenon DEF Construct, ReplayInv, Lifetimes
<1>2. UNCHANGED <<punctual, file, external, thread, run, next, needMore, pushing, batch, klines,
                  derived, shown, fault>>
  BY Zenon DEF Construct, producer, consumer
<1>3. /\ shown \in Seq([price : Nat, qty : Nat]) /\ batch \in Seq(KLine)
      /\ external \in Seq(KLine) /\ pushing \in Seq(KLine)
  BY Zenon DEF ReplayInv, ReplayTypeOK
<1>4. Len(shown) = 0 /\ Len(batch) = 0 /\ Len(external) = 0 /\ Len(pushing) = 0
  BY <1>1, <1>3 DEF ReplayInv, Flow
<1>5. /\ history' \in Seq(KLine)
      /\ \/ main' = <<"~derived", "engine">> /\ history' = << >>
         \/ main' = <<"start", "engine">>
  <2>1. CASE file = NoPath
    BY <1>1, <2>1 DEF Construct, DestructorOf
  <2>2. CASE file # NoPath
    <3>1. file \in Seq(Row)
      BY <2>2, Zenon DEF ReplayInv, ReplayTypeOK, ReplayAssumption
    <3> DEFINE rows == Matched(file)
    <3>2. rows \in Seq(Row)
      BY <3>1, MatchedType, Zenon
    <3>3. /\ main' = <<"start", "engine">>
          /\ history' \in [DOMAIN rows -> UNION {KLines(rows[i]) : i \in DOMAIN rows}]
      BY <2>2, Zenon DEF Construct
    <3> HIDE DEF rows
    <3>4. DOMAIN rows = 1 .. Len(rows) /\ Len(rows) \in Nat /\ \A i \in DOMAIN rows : rows[i] \in Row
      BY <3>2
    <3>5. UNION {KLines(rows[i]) : i \in DOMAIN rows} \subseteq KLine
      BY <3>4, KLineTypes, Zenon
    <3>6. history' \in [1 .. Len(rows) -> KLine]
      BY <3>3, <3>4, <3>5, Zenon
    <3> QED
      BY <3>3, <3>4, <3>6
  <2> QED
    BY <2>1, <2>2, Zenon
<1>6. Len(history') \in Nat /\ (history' = << >> => Len(history') = 0)
  BY <1>5
<1>7. ReplayTypeOK'
  <2>1. next' \in 0 .. Len(history')
    BY <1>1, <1>2, <1>6
  <2>2. main' \in Ended \union ({"construct", "start", "starting", "wait", "~derived", "stop",
                                 "null", "join"} \X Services)
    BY <1>5 DEF Services
  <2> QED
    BY <1>2, <1>5, <2>1, <2>2, Zenon DEF ReplayInv, ReplayTypeOK
<1>8. Flow'
  BY <1>1, <1>2, <1>4 DEF Flow
<1>9. Lifetimes'
  <2>1. main' # <<"construct", "engine">>
    BY <1>5
  <2>2. derived /\ klines
    BY <1>1, Zenon DEF ReplayInv, Lifetimes, Destroying, Ended
  <2>3. StatisticsAreComplete'
    BY <1>2, <1>4, <1>5, <1>6 DEF StatisticsAreComplete
  <2> QED
    BY <1>2, <2>1, <2>2, <2>3, Zenon DEF ReplayInv, Lifetimes, NoLifetimeFault
<1> QED
  BY <1>7, <1>8, <1>9, Zenon DEF ReplayInv

Labels == {"construct", "start", "starting", "wait", "~derived", "stop", "null", "join"}

(* What a step of the main thread after the constructors has to keep.      *)
LEMMA MainMoves ==
  ASSUME ReplayInv,
         UNCHANGED <<punctual, file, history, next, external, needMore, pushing, batch, shown,
                     fault>>,
         main' \in Ended \union (Labels \X Services), main' # <<"construct", "engine">>,
         thread' \in [Services -> {"none", "created", "orphan", "running", "in loop", "ended"}],
         run' \in [Services -> BOOLEAN], klines' \in BOOLEAN, derived' \in BOOLEAN,
         thread'["engine"] = "in loop" => thread["engine"] = "in loop",
         ~derived' => main' \in Destroying \union Ended,
         ~klines' => main' \in {<<"join", "engine">>} \union Ended,
         punctual => \A s \in Services : thread'[s] # "orphan",
         punctual /\ ~klines' => thread'["engine"] \in {"none", "ended"},
         StatisticsAreComplete'
  PROVE  ReplayInv'
<1>1. ReplayTypeOK'
  BY Zenon DEF ReplayInv, ReplayTypeOK, Labels
<1>2. Flow'
  BY FlowKept, Zenon DEF ReplayInv
<1>3. Lifetimes'
  BY Zenon DEF ReplayInv, Lifetimes, NoLifetimeFault
<1> QED
  BY <1>1, <1>2, <1>3, Zenon DEF ReplayInv

(* The statistics stay complete while main goes on destroying.             *)
LEMMA StatisticsKept ==
  ASSUME StatisticsAreComplete, UNCHANGED <<punctual, shown, history>>,
         main'[1] \in {"~derived", "stop", "null", "join", "return"} =>
           main[1] \in {"~derived", "stop", "null", "join", "return"}
  PROVE  StatisticsAreComplete'
  BY Zenon DEF StatisticsAreComplete

(* main starts the next service.                                           *)
LEMMA StepStart ==
  ASSUME ReplayInv, NEW s \in Services, Start(s)
  PROVE  ReplayInv'
<1>1. /\ main = <<"start", s>> /\ main' = <<"starting", s>>
      /\ run' = [run EXCEPT ![s] = TRUE] /\ thread' = [thread EXCEPT ![s] = "created"]
      /\ UNCHANGED <<punctual, file, history, next, external, needMore, pushing, batch, shown,
                     fault, klines, derived>>
  BY Zenon DEF Start, producer, consumer
<1>2. /\ thread \in [Services -> {"none", "created", "orphan", "running", "in loop", "ended"}]
      /\ run \in [Services -> BOOLEAN] /\ klines \in BOOLEAN /\ derived \in BOOLEAN
  BY Zenon DEF ReplayInv, ReplayTypeOK
<1>3. "engine" \in Services /\ main'[1] = "starting"
  BY <1>1, Zenon DEF Services
<1>4. derived /\ klines
  BY <1>1, Zenon DEF ReplayInv, Lifetimes, Destroying, Ended
<1>5. /\ thread' \in [Services -> {"none", "created", "orphan", "running", "in loop", "ended"}]
      /\ run' \in [Services -> BOOLEAN]
  BY <1>1, <1>2, Zenon
<1>6. punctual => \A r \in Services : thread'[r] # "orphan"
  <2>1. punctual => \A r \in Services : thread[r] # "orphan"
    BY Zenon DEF ReplayInv, Lifetimes
  <2> QED
    BY <1>1, <1>2, <2>1, Zenon
<1>7. thread'["engine"] = "in loop" => thread["engine"] = "in loop"
  BY <1>1, <1>2, <1>3, Zenon
<1>8. main' \in Ended \union (Labels \X Services) /\ main' # <<"construct", "engine">>
  BY <1>1, Zenon DEF Labels, Services
<1>9. StatisticsAreComplete'
  BY <1>3, Zenon DEF StatisticsAreComplete
<1> QED
  BY <1>1, <1>2, <1>4, <1>5, <1>6, <1>7, <1>8, <1>9, MainMoves, Zenon

(* createAndStartThread returns.                                           *)
LEMMA StepStarted ==
  ASSUME ReplayInv, NEW s \in Services, Started(s)
  PROVE  ReplayInv'
<1>1. /\ main = <<"starting", s>>
      /\ main' \in {<<"start", "kline">>, <<"wait", "engine">>}
      /\ punctual => thread[s] # "created"
      /\ thread' = [thread EXCEPT ![s] = IF @ = "created" THEN "orphan" ELSE @]
      /\ UNCHANGED <<punctual, file, history, next, external, needMore, pushing, batch, shown,
                     fault, klines, derived, run>>
  BY Zenon DEF Started, producer, consumer
<1>2. /\ thread \in [Services -> {"none", "created", "orphan", "running", "in loop", "ended"}]
      /\ run \in [Services -> BOOLEAN] /\ klines \in BOOLEAN /\ derived \in BOOLEAN
  BY DEF ReplayInv, ReplayTypeOK
<1>3. "engine" \in Services /\ main'[1] \in {"start", "wait"}
  BY <1>1 DEF Services
<1>4. derived /\ klines
  BY <1>1, Zenon DEF ReplayInv, Lifetimes, Destroying, Ended
<1>5. thread' \in [Services -> {"none", "created", "orphan", "running", "in loop", "ended"}]
  BY <1>1, <1>2, Zenon
<1>6. punctual => thread' = thread
  BY <1>1, <1>2, Zenon
<1>7. thread'["engine"] = "in loop" => thread["engine"] = "in loop"
  BY <1>1, <1>2, <1>3, Zenon
<1>8. main' \in Ended \union (Labels \X Services) /\ main' # <<"construct", "engine">>
  BY <1>1 DEF Labels, Services
<1>9. StatisticsAreComplete'
  BY <1>3, Zenon DEF StatisticsAreComplete
<1>10. punctual => \A r \in Services : thread[r] # "orphan"
  BY DEF ReplayInv, Lifetimes
<1> QED
  BY <1>1, <1>2, <1>4, <1>5, <1>6, <1>7, <1>8, <1>9, <1>10, MainMoves, Zenon

(* The engine has been silent for four seconds.                            *)
LEMMA StepSilentFor4s ==
  ASSUME ReplayInv, SilentFor4s
  PROVE  ReplayInv'
<1>1. /\ main = <<"wait", "engine">> /\ main' = <<"stop", "kline">>
      /\ punctual => Silent
      /\ UNCHANGED <<punctual, file, history, next, external, needMore, pushing, batch, shown,
                     fault, klines, derived, run, thread>>
  BY Zenon DEF SilentFor4s, DestructorOf, FirstDestroyed, producer, consumer
<1>2. main' \in Ended \union (Labels \X Services) /\ main' # <<"construct", "engine">>
  BY <1>1, Zenon DEF Labels, Services
<1>3. derived /\ klines
  BY <1>1, Zenon DEF ReplayInv, Lifetimes, Destroying, Ended
<1>4. punctual => Len(shown) = Len(history)
  <2>1. punctual => ~needMore /\ Len(pushing) = 0 /\ Len(external) = 0 /\ Len(batch) = 0
    BY <1>1 DEF Silent
  <2>2. shown \in Seq([price : Nat, qty : Nat])
    BY Zenon DEF ReplayInv, ReplayTypeOK
  <2>3. next = Len(shown) + Len(batch) + Len(external) + Len(pushing)
    BY Zenon DEF ReplayInv, Flow
  <2>4. ~needMore => next = Len(history)
    BY Zenon DEF ReplayInv, Flow
  <2> QED
    BY <2>1, <2>2, <2>3, <2>4
<1>5. StatisticsAreComplete'
  BY <1>1, <1>4, Zenon DEF StatisticsAreComplete
<1>6. /\ thread \in [Services -> {"none", "created", "orphan", "running", "in loop", "ended"}]
      /\ run \in [Services -> BOOLEAN] /\ klines \in BOOLEAN /\ derived \in BOOLEAN
      /\ punctual => \A r \in Services : thread[r] # "orphan"
  BY Zenon DEF ReplayInv, ReplayTypeOK, Lifetimes
<1> QED
  BY <1>1, <1>2, <1>3, <1>5, <1>6, MainMoves, Zenon

(* backtesting::~TradeEngine destroys its order book.                      *)
LEMMA StepDestroyDerived ==
  ASSUME ReplayInv, DestroyDerived
  PROVE  ReplayInv'
<1>1. /\ main = <<"~derived", "engine">> /\ main' = <<"stop", "engine">> /\ derived' = FALSE
      /\ UNCHANGED <<punctual, file, history, next, external, needMore, pushing, batch, shown,
                     fault, klines, run, thread>>
  BY Zenon DEF DestroyDerived, producer
<1>2. /\ main' \in Ended \union (Labels \X Services) /\ main' # <<"construct", "engine">>
      /\ main' \in Destroying /\ main[1] = "~derived"
  BY <1>1, Zenon DEF Labels, Services, Destroying
<1>3. klines
  BY <1>1, Zenon DEF ReplayInv, Lifetimes, Ended
<1>4. /\ thread \in [Services -> {"none", "created", "orphan", "running", "in loop", "ended"}]
      /\ run \in [Services -> BOOLEAN] /\ klines \in BOOLEAN
      /\ punctual => \A r \in Services : thread[r] # "orphan"
  BY Zenon DEF ReplayInv, ReplayTypeOK, Lifetimes
<1>5. StatisticsAreComplete'
  BY <1>1, <1>2, StatisticsKept, Zenon DEF ReplayInv, Lifetimes
<1> QED
  BY <1>1, <1>2, <1>3, <1>4, <1>5, MainMoves, Zenon

(* stop() of a service.                                                    *)
LEMMA StepStop ==
  ASSUME ReplayInv, NEW s \in Services, Stop(s)
  PROVE  ReplayInv'
<1>1. /\ main = <<"stop", s>> /\ run' = [run EXCEPT ![s] = FALSE]
      /\ main' = IF s = "engine" THEN <<"null", s>> ELSE <<"join", s>>
      /\ UNCHANGED <<punctual, file, history, next, external, needMore, pushing, batch, shown,
                     fault, klines, derived, thread>>
  BY Zenon DEF Stop, producer, consumer
<1>2. /\ main' \in Ended \union (Labels \X Services) /\ main' # <<"construct", "engine">>
      /\ main[1] = "stop" /\ (s = "engine" => main' \in Destroying)
  BY <1>1, Zenon DEF Labels, Services, Destroying
<1>3. klines /\ (~derived => s = "engine")
  BY <1>1, Zenon DEF ReplayInv, Lifetimes, Destroying, Ended
<1>4. /\ thread \in [Services -> {"none", "created", "orphan", "running", "in loop", "ended"}]
      /\ run \in [Services -> BOOLEAN] /\ klines \in BOOLEAN /\ derived \in BOOLEAN
      /\ punctual => \A r \in Services : thread[r] # "orphan"
  BY Zenon DEF ReplayInv, ReplayTypeOK, Lifetimes
<1>5. StatisticsAreComplete'
  BY <1>1, <1>2, StatisticsKept, Zenon DEF ReplayInv, Lifetimes
<1>6. run' \in [Services -> BOOLEAN]
  BY <1>1, <1>4, Zenon
<1> QED
  BY <1>1, <1>2, <1>3, <1>4, <1>5, <1>6, MainMoves, Zenon

(* ~TradeEngine forgets the queue of klines.                               *)
LEMMA StepNullQueues ==
  ASSUME ReplayInv, NullQueues
  PROVE  ReplayInv'
<1>1. /\ main = <<"null", "engine">> /\ main' = <<"join", "engine">> /\ klines' = FALSE
      /\ punctual => thread["engine"] \in {"none", "ended"}
      /\ UNCHANGED <<punctual, file, history, next, external, needMore, pushing, batch, shown,
                     fault, derived, run, thread>>
  BY Zenon DEF NullQueues, producer
<1>2. /\ main' \in Ended \union (Labels \X Services) /\ main' # <<"construct", "engine">>
      /\ main[1] = "null" /\ main' \in Destroying
  BY <1>1, Zenon DEF Labels, Services, Destroying
<1>3. /\ thread \in [Services -> {"none", "created", "orphan", "running", "in loop", "ended"}]
      /\ run \in [Services -> BOOLEAN] /\ derived \in BOOLEAN
      /\ punctual => \A r \in Services : thread[r] # "orphan"
  BY Zenon DEF ReplayInv, ReplayTypeOK, Lifetimes
<1>4. StatisticsAreComplete'
  BY <1>1, <1>2, StatisticsKept, Zenon DEF ReplayInv, Lifetimes
<1> QED
  BY <1>1, <1>2, <1>3, <1>4, MainMoves, Zenon

(* A thread is joined.                                                     *)
LEMMA StepJoin ==
  ASSUME ReplayInv, NEW s \in Services, Join(s)
  PROVE  ReplayInv'
<1>1. /\ main = <<"join", s>> /\ main' = AfterDestroyed(s)
      /\ UNCHANGED <<punctual, file, history, next, external, needMore, pushing, batch, shown,
                     fault, klines, derived, run, thread>>
  BY Zenon DEF Join, producer, consumer
<1>2. \/ s = "engine" /\ main' = <<"return", "main">>
      \/ s = "kline" /\ main' = <<"~derived", "engine">>
  <2>1. s = "engine" \/ s = "kline"
    BY Zenon DEF Services
  <2> QED
    BY <1>1, <2>1, SecondDestroyed, Zenon
<1>3. /\ main' \in Ended \union (Labels \X Services) /\ main' # <<"construct", "engine">>
      /\ main[1] = "join" /\ (s = "engine" => main' \in Ended)
  BY <1>1, <1>2 DEF Labels, Services, Ended
<1>4. s = "kline" => klines /\ derived
  BY <1>1, Zenon DEF ReplayInv, Lifetimes, Destroying, Ended
<1>5. /\ thread \in [Services -> {"none", "created", "orphan", "running", "in loop", "ended"}]
      /\ run \in [Services -> BOOLEAN] /\ klines \in BOOLEAN /\ derived \in BOOLEAN
      /\ punctual => \A r \in Services : thread[r] # "orphan"
      /\ punctual /\ ~klines => thread["engine"] \in {"none", "ended"}
  BY Zenon DEF ReplayInv, ReplayTypeOK, Lifetimes
<1>6. StatisticsAreComplete'
  BY <1>1, <1>3, StatisticsKept, Zenon DEF ReplayInv, Lifetimes
<1> QED
  BY <1>1, <1>2, <1>3, <1>4, <1>5, <1>6, MainMoves, Zenon

-----------------------------------------------------------------------------
Threads == {"none", "created", "orphan", "running", "in loop", "ended"}

(* A thread dies of what only a slow machine allows, or of a division.     *)
LEMMA Crashes ==
  ASSUME ReplayInv, NEW what \in {"dangling", "division", "null", "derived"}, Crash(what),
         punctual => what = "division",
         UNCHANGED <<punctual, file, history, next, external, thread, run, needMore, pushing,
                     batch, klines, derived, shown>>
  PROVE  ReplayInv'
<1>1. /\ main' \in Ended /\ main' # <<"construct", "engine">>
      /\ main'[1] \notin {"~derived", "stop", "null", "join", "return"}
  BY Zenon DEF Crash, Ended
<1>2. fault' = what
  BY Zenon DEF Crash
<1>3. ReplayTypeOK'
  BY <1>1, <1>2, Zenon DEF ReplayInv, ReplayTypeOK
<1>4. Flow'
  BY FlowKept, Zenon DEF ReplayInv
<1>5. StatisticsAreComplete'
  BY <1>1, Zenon DEF StatisticsAreComplete
<1>6. NoLifetimeFault'
  BY <1>2, Zenon DEF NoLifetimeFault
<1>7. Lifetimes'
  BY <1>1, <1>5, <1>6, Zenon DEF ReplayInv, Lifetimes
<1> QED
  BY <1>3, <1>4, <1>7, Zenon DEF ReplayInv

(* What a step of a service's thread has to keep.                          *)
LEMMA ThreadMoves ==
  ASSUME ReplayInv, main # <<"construct", "engine">>,
         UNCHANGED <<punctual, file, history, main, run, klines, derived, fault>>,
         next' \in 0 .. Len(history), external' \in Seq(KLine), Len(external') <= Capacity,
         thread' \in [Services -> Threads], needMore' \in BOOLEAN, pushing' \in Seq(KLine),
         batch' \in Seq(KLine), Len(batch') <= Bulk, shown' \in Seq([price : Nat, qty : Nat]),
         thread'["engine"] = "in loop" => batch' = << >>,
         punctual => \A s \in Services : thread'[s] # "orphan",
         punctual /\ ~klines => thread'["engine"] \in {"none", "ended"},
         StatisticsAreComplete', Flow'
  PROVE  ReplayInv'
<1>1. ReplayTypeOK'
  BY Zenon DEF ReplayInv, ReplayTypeOK, Threads
<1>2. Lifetimes'
  BY Zenon DEF ReplayInv, Lifetimes, NoLifetimeFault
<1> QED
  BY <1>1, <1>2, Zenon DEF ReplayInv

(* What the steps of the threads use of the invariant.                     *)
LEMMA ReplayFacts ==
  ASSUME ReplayInv
  PROVE  /\ thread \in [Services -> Threads] /\ run \in [Services -> BOOLEAN]
         /\ needMore \in BOOLEAN /\ klines \in BOOLEAN /\ derived \in BOOLEAN
         /\ history \in Seq(KLine) /\ external \in Seq(KLine) /\ pushing \in Seq(KLine)
         /\ batch \in Seq(KLine) /\ shown \in Seq([price : Nat, qty : Nat])
         /\ next \in 0 .. Len(history) /\ Len(external) <= Capacity /\ Len(batch) <= Bulk
         /\ thread["engine"] = "in loop" => batch = << >>
         /\ punctual => \A s \in Services : thread[s] # "orphan"
         /\ punctual /\ ~klines => thread["engine"] \in {"none", "ended"}
         /\ StatisticsAreComplete /\ Flow
         /\ \A s \in Services : thread[s] # "none" => main # <<"construct", "engine">>
  BY Zenon DEF ReplayInv, ReplayTypeOK, Lifetimes, Threads

(* A step of a thread that moves no kline.                                 *)
LEMMA ThreadTurns ==
  ASSUME ReplayInv, NEW s \in Services, NEW u \in Threads,
         thread' = [thread EXCEPT ![s] = u], thread[s] \notin {"none", "ended"}, u # "orphan",
         u = "in loop" => batch = << >>,
         UNCHANGED <<punctual, file, history, next, external, main, run, needMore, pushing,
                     batch, klines, derived, shown, fault>>
  PROVE  ReplayInv'
<1>1. thread \in [Services -> Threads] /\ "engine" \in Services
  BY ReplayFacts, Zenon DEF Services
<1>2. /\ thread' \in [Services -> Threads]
      /\ \A r \in Services : thread'[r] = IF r = s THEN u ELSE thread[r]
  BY <1>1, Zenon
<1>3. Flow'
  BY FlowKept, ReplayFacts, Zenon
<1>4. StatisticsAreComplete'
  BY ReplayFacts, Zenon DEF StatisticsAreComplete
<1>5. punctual /\ ~klines => s # "engine"
  BY ReplayFacts, Zenon
<1> QED
  BY <1>1, <1>2, <1>3, <1>4, <1>5, ReplayFacts, ThreadMoves, Zenon

(* The lambda of a new thread calls the service.                           *)
LEMMA StepBegin ==
  ASSUME ReplayInv, NEW s \in Services, Begin(s)
  PROVE  ReplayInv'
<1>1. UNCHANGED <<punctual, file, history, next, external, run, needMore, pushing, batch, klines,
                  derived, shown>>
  BY Zenon DEF Begin, producer, consumer
<1>2. CASE /\ thread[s] = "created" /\ thread' = [thread EXCEPT ![s] = "running"]
           /\ UNCHANGED <<main, fault>>
  <2>1. "running" \in Threads /\ "running" # "orphan" /\ "running" # "in loop"
        /\ thread[s] \notin {"none", "ended"}
    BY <1>2, Zenon DEF Threads
  <2> QED
    BY <1>1, <1>2, <2>1, ThreadTurns, Zenon
<1>3. CASE thread[s] = "orphan" /\ Crash("dangling") /\ UNCHANGED thread
  <2>1. ~punctual
    BY <1>3, ReplayFacts, Zenon
  <2> QED
    BY <1>1, <1>3, <2>1, Crashes, Zenon
<1> QED
  BY <1>2, <1>3, Zenon DEF Begin

(* The thread of KLineService returns.                                     *)
LEMMA StepKLineEnds ==
  ASSUME ReplayInv, KLineEnds
  PROVE  ReplayInv'
<1>1. /\ thread["kline"] = "running" /\ thread' = [thread EXCEPT !["kline"] = "ended"]
      /\ UNCHANGED <<punctual, file, history, next, external, main, run, needMore, pushing,
                     batch, klines, derived, shown, fault>>
  BY Zenon DEF KLineEnds, producer, consumer
<1>2. "ended" \in Threads /\ "kline" \in Services /\ "ended" # "orphan" /\ "ended" # "in loop"
      /\ thread["kline"] \notin {"none", "ended"}
  BY <1>1, Zenon DEF Threads, Services
<1> QED
  BY <1>1, <1>2, ThreadTurns, Zenon

(* One turn of the engine's loop.                                          *)
LEMMA StepEngineLoop ==
  ASSUME ReplayInv, EngineLoop
  PROVE  ReplayInv'
<1>1. /\ thread["engine"] = "running" /\ batch = << >>
      /\ \E u \in {"in loop", "ended"} : thread' = [thread EXCEPT !["engine"] = u]
      /\ UNCHANGED <<punctual, file, history, next, external, main, run, needMore, pushing,
                     batch, klines, derived, shown, fault>>
  BY Zenon DEF EngineLoop, producer, consumer
<1>2. /\ {"in loop", "ended"} \subseteq Threads /\ "engine" \in Services
      /\ "orphan" \notin {"in loop", "ended"} /\ thread["engine"] \notin {"none", "ended"}
  BY <1>1, Zenon DEF Threads, Services
<1> QED
  BY <1>1, <1>2, ThreadTurns, Zenon

(* A step of the threads leaves the rest of the invariant as it was.       *)
LEMMA Kept ==
  ASSUME ReplayInv, UNCHANGED <<punctual, main, history, thread, shown>>,
         NEW s \in Services, thread[s] # "none"
  PROVE  /\ StatisticsAreComplete' /\ thread' \in [Services -> Threads]
         /\ main # <<"construct", "engine">>
         /\ punctual => \A r \in Services : thread'[r] # "orphan"
         /\ punctual /\ ~klines => thread'["engine"] \in {"none", "ended"}
  BY ReplayFacts, Zenon DEF StatisticsAreComplete

(* KLineService fetches the next row, or learns that there is none.        *)
LEMMA StepFetch ==
  ASSUME ReplayInv, Fetch
  PROVE  ReplayInv'
<1> DEFINE n == Min({next + 1, Len(history)})
           rows == SubSeq(history, next + 1, n)
<1>1. /\ thread["kline"] = "running" /\ pushing = << >>
      /\ needMore' = (next < Len(history))
      /\ next' = next + Len(rows)
      /\ pushing' = [i \in DOMAIN rows |-> rows[1]]
  BY Zenon DEF Fetch, LaunchOne
<1>2. UNCHANGED <<punctual, file, history, external, main, thread, run, batch, klines, derived,
                  shown, fault>>
  BY Zenon DEF Fetch, consumer
<1>3. /\ history \in Seq(KLine) /\ next \in 0 .. Len(history) /\ external \in Seq(KLine)
      /\ batch \in Seq(KLine) /\ shown \in Seq([price : Nat, qty : Nat])
      /\ Flow /\ StatisticsAreComplete
  BY ReplayFacts, Zenon
<1>4. next \in Nat /\ Len(history) \in Nat /\ next <= Len(history)
      /\ Len(external) \in Nat /\ Len(batch) \in Nat /\ Len(shown) \in Nat
  BY <1>3
<1>5. next = Len(shown) + Len(batch) + Len(external)
  <2>1. next = Len(shown) + Len(batch) + Len(external) + Len(pushing)
    BY <1>3, Zenon DEF Flow
  <2> QED
    BY <1>1, <1>4, <2>1
<1>6. n = IF next + 1 <= Len(history) THEN next + 1 ELSE Len(history)
  BY <1>4, LesserOfTwo
<1> HIDE DEF n
<1>0. "kline" \in Services /\ thread["kline"] # "none"
  BY <1>1, Zenon DEF Services
<1>7. CASE next < Len(history)
  <2>0. needMore' = TRUE
    <3>1. needMore' = (next < Len(history))
      BY <1>1, Zenon
    <3> QED
      BY <1>7, <3>1, Zenon
  <2>1. n = next + 1
    BY <1>4, <1>6, <1>7
  <2>2. next + 1 \in 1 .. Len(history) /\ history[next + 1] \in KLine
    BY <1>3, <1>4, <1>7
  <2>3. rows \in Seq(KLine) /\ Len(rows) = 1 /\ rows[1] = history[next + 1]
    <3>1. \A i \in next + 1 .. next + 1 : history[i] \in KLine
      BY <1>4, <2>2
    <3>2. /\ rows \in Seq(KLine)
          /\ Len(rows) = IF next + 1 <= next + 1 THEN (next + 1) - (next + 1) + 1 ELSE 0
          /\ \A i \in 1 .. (next + 1) - (next + 1) + 1 : rows[i] = history[(next + 1) + i - 1]
      BY <1>4, <2>1, <3>1, SubSeqFacts
    <3> HIDE DEF rows
    <3> QED
      BY <1>4, <3>2
  <2> HIDE DEF rows
  <2>4. DOMAIN rows = 1 .. 1
    BY <2>3
  <2>5. /\ pushing' \in Seq(KLine) /\ Len(pushing') = 1 /\ pushing'[1] = history[next + 1]
        /\ next' = next + 1
    BY <1>1, <2>2, <2>3, <2>4
  <2>6. Flow'
    <3>1. \A i \in 1 .. Len(pushing') :
            pushing'[i] = history[Len(shown) + Len(batch) + Len(external) + i]
      BY <1>4, <1>5, <2>5
    <3>2. Len(pushing') <= 1 /\ next' = Len(shown) + Len(batch) + Len(external) + Len(pushing')
      BY <1>4, <1>5, <2>5
    <3> QED
      BY <1>2, <1>3, <2>0, <3>1, <3>2, Zenon DEF Flow
  <2>7. next' \in 0 .. Len(history)
    BY <1>4, <1>7, <2>5
  <2>8. needMore' \in BOOLEAN
    BY <2>0, Zenon
  <2> QED
    BY <1>0, <1>1, <1>2, <2>5, <2>6, <2>7, <2>8, Kept, ReplayFacts, ThreadMoves, Zenon
<1>8. CASE ~(next < Len(history))
  <2>1. n = Len(history) /\ next = Len(history)
    BY <1>4, <1>6, <1>8
  <2>2. rows = << >>
    BY <1>4, <2>1, SubSeqFacts, LenFacts
  <2> HIDE DEF rows
  <2>3. pushing' = << >> /\ next' = next /\ Len(pushing') = 0
    BY <1>1, <1>4, <2>2
  <2>4. Flow'
    <3>1. Len(pushing') <= 1 /\ next' = Len(shown) + Len(batch) + Len(external) + Len(pushing')
          /\ next' = Len(history) /\ 1 .. Len(pushing') = {}
      BY <1>4, <1>5, <2>1, <2>3
    <3> QED
      BY <1>2, <1>3, <3>1, Zenon DEF Flow
  <2>5. needMore' \in BOOLEAN /\ pushing' \in Seq(KLine)
    BY <1>1, <2>3
  <2> QED
    BY <1>0, <1>1, <1>2, <2>3, <2>4, <2>5, Kept, ReplayFacts, ThreadMoves, Zenon
<1> QED
  BY <1>7, <1>8, Zenon


(* The queue takes the kline that is being pushed.                         *)
LEMMA StepPush ==
  ASSUME ReplayAssumption, ReplayInv, Push
  PROVE  ReplayInv'
<1>1. /\ thread["kline"] = "running" /\ pushing # << >> /\ Len(external) < Capacity
      /\ external' = Append(external, Head(pushing)) /\ pushing' = Tail(pushing)
      /\ UNCHANGED <<punctual, file, history, main, thread, run, next, needMore, batch, klines,
                     derived, shown, fault>>
  BY Zenon DEF Push, consumer
<1>2. /\ external \in Seq(KLine) /\ pushing \in Seq(KLine) /\ batch \in Seq(KLine)
      /\ shown \in Seq([price : Nat, qty : Nat]) /\ Flow /\ Capacity \in Nat
  BY ReplayFacts, Zenon DEF ReplayAssumption
<1>3. /\ Len(external) \in Nat /\ Len(batch) \in Nat /\ Len(shown) \in Nat
      /\ Len(pushing) = 1 /\ pushing[1] \in KLine /\ Head(pushing) = pushing[1]
  <2>1. Len(pushing) <= 1
    BY <1>2, Zenon DEF Flow
  <2>2. Len(pushing) # 0 /\ Len(pushing) \in Nat
    BY <1>1, <1>2, LenFacts, Zenon
  <2>3. Len(pushing) = 1
    <3>1. \A l \in Nat : l <= 1 /\ l # 0 => l = 1
      OBVIOUS
    <3> QED
      BY <2>1, <2>2, <3>1, Zenon
  <2>4. Len(external) \in Nat /\ Len(batch) \in Nat /\ Len(shown) \in Nat
    BY <1>2, LenFacts, Zenon
  <2>5. pushing[1] \in KLine
    BY <1>2, <2>3
  <2> QED
    BY <1>2, <2>3, <2>4, <2>5
<1>4. pushing' = << >> /\ Len(pushing') = 0
  <2>1. Tail(pushing) \in Seq(KLine) /\ Len(Tail(pushing)) = 0
    BY <1>1, <1>2, <1>3
  <2> QED
    BY <1>1, <2>1, LenFacts, Zenon
<1>5. /\ external' \in Seq(KLine) /\ Len(external') = Len(external) + 1
      /\ external'[Len(external) + 1] = pushing[1]
      /\ \A i \in 1 .. Len(external) : external'[i] = external[i]
  BY <1>1, <1>2, <1>3
<1>6. pushing[1] = history[Len(shown) + Len(batch) + Len(external) + 1]
  <2>1. \A i \in 1 .. Len(pushing) :
          pushing[i] = history[Len(shown) + Len(batch) + Len(external) + i]
    BY <1>2, Zenon DEF Flow
  <2> QED
    BY <1>3, <2>1
<1>7. Flow'
  <2>1. next' = Len(shown') + Len(batch') + Len(external') + Len(pushing')
    <3>1. next = Len(shown) + Len(batch) + Len(external) + Len(pushing)
      BY <1>2, Zenon DEF Flow
    <3>2. Len(shown') = Len(shown) /\ Len(batch') = Len(batch) /\ next' = next
      BY <1>1, Zenon
    <3> QED
      BY <1>3, <1>4, <1>5, <3>1, <3>2
  <2>2. ASSUME NEW i \in 1 .. Len(external')
        PROVE  external'[i] = history[Len(shown) + Len(batch) + i]
    <3>1. \A j \in 1 .. Len(external) : external[j] = history[Len(shown) + Len(batch) + j]
      BY <1>2, Zenon DEF Flow
    <3>2. CASE i \in 1 .. Len(external)
      BY <1>5, <3>1, <3>2, Zenon
    <3>3. CASE i = Len(external) + 1
      <4>1. Len(shown) + Len(batch) + (Len(external) + 1) = Len(shown) + Len(batch) + Len(external) + 1
        BY <1>3
      <4> QED
        BY <1>5, <1>6, <3>3, <4>1, Zenon
    <3> QED
      BY <1>3, <1>5, <3>2, <3>3
  <2>3. Len(pushing') <= 1 /\ 1 .. Len(pushing') = {}
    BY <1>4
  <2> QED
    BY <1>1, <1>2, <2>1, <2>2, <2>3, Zenon DEF Flow
<1>8. "kline" \in Services /\ thread["kline"] # "none" /\ Len(external') <= Capacity
      /\ pushing' \in Seq(KLine)
  BY <1>1, <1>2, <1>3, <1>4, <1>5 DEF Services
<1> QED
  BY <1>1, <1>2, <1>5, <1>7, <1>8, Kept, ReplayFacts, ThreadMoves, Zenon

(* The engine's thread takes a batch from the queue.                       *)
LEMMA StepDequeue ==
  ASSUME ReplayAssumption, ReplayInv, Dequeue
  PROVE  ReplayInv'
<1>1. thread["engine"] = "in loop" /\ batch = << >> /\ "engine" \in Services
  BY ReplayFacts, Zenon DEF Dequeue, Services
<1>2. UNCHANGED <<punctual, file, history, run, next, needMore, pushing, klines, derived, shown>>
  BY Zenon DEF Dequeue, producer
<1> DEFINE n == Min({Bulk, Len(external)})
<1>3. CASE /\ batch' = SubSeq(external, 1, n)
           /\ external' = SubSeq(external, n + 1, Len(external))
           /\ thread' = [thread EXCEPT !["engine"] = "running"]
           /\ klines /\ UNCHANGED <<main, fault>>
  <2>1. /\ external \in Seq(KLine) /\ pushing \in Seq(KLine) /\ thread \in [Services -> Threads]
        /\ shown \in Seq([price : Nat, qty : Nat]) /\ Flow /\ Bulk \in Nat
        /\ Len(external) <= Capacity /\ Capacity \in Nat
    BY ReplayFacts, Zenon DEF ReplayAssumption
  <2>2. /\ Len(external) \in Nat /\ Len(pushing) \in Nat /\ Len(shown) \in Nat
        /\ \A i \in 1 .. Len(external) : external[i] \in KLine
    BY <2>1
  <2>3. n \in 0 .. Len(external) /\ n <= Bulk /\ n \in Nat
    <3>1. n = IF Bulk <= Len(external) THEN Bulk ELSE Len(external)
      <4>1. Bulk \in Int /\ Len(external) \in Int
        BY <2>1, <2>2
      <4> QED
        BY <4>1, LesserOfTwo, Zenon
    <3> HIDE DEF n
    <3> QED
      BY <2>1, <2>2, <3>1
  <2> HIDE DEF n
  <2>4. /\ batch' \in Seq(KLine) /\ Len(batch') = n
        /\ \A i \in 1 .. n : batch'[i] = external[i]
    <3>1. /\ SubSeq(external, 1, n) \in Seq(KLine)
          /\ Len(SubSeq(external, 1, n)) = IF 1 <= n THEN n - 1 + 1 ELSE 0
          /\ \A i \in 1 .. n - 1 + 1 : SubSeq(external, 1, n)[i] = external[1 + i - 1]
      <4>1. \A i \in 1 .. n : external[i] \in KLine
        BY <2>2, <2>3
      <4> QED
        BY <2>3, <4>1, SubSeqFacts
    <3> QED
      BY <1>3, <2>3, <3>1
  <2>5. /\ external' \in Seq(KLine) /\ Len(external') = Len(external) - n
        /\ \A i \in 1 .. Len(external) - n : external'[i] = external[n + i]
    <3>1. /\ SubSeq(external, n + 1, Len(external)) \in Seq(KLine)
          /\ Len(SubSeq(external, n + 1, Len(external)))
               = IF n + 1 <= Len(external) THEN Len(external) - (n + 1) + 1 ELSE 0
          /\ \A i \in 1 .. Len(external) - (n + 1) + 1 :
               SubSeq(external, n + 1, Len(external))[i] = external[(n + 1) + i - 1]
      <4>1. \A i \in n + 1 .. Len(external) : external[i] \in KLine
        BY <2>2, <2>3
      <4> QED
        BY <2>2, <2>3, <4>1, SubSeqFacts
    <3> QED
      BY <1>3, <2>2, <2>3, <3>1
  <2>6. Len(batch) = 0
    BY <1>1, Zenon
  <2>7. Flow'
    <3>1. next' = Len(shown') + Len(batch') + Len(external') + Len(pushing')
      <4>1. next = Len(shown) + Len(batch) + Len(external) + Len(pushing)
        BY <2>1, Zenon DEF Flow
      <4>2. Len(shown') = Len(shown) /\ Len(pushing') = Len(pushing) /\ next' = next
        BY <1>2, Zenon
      <4> QED
        BY <2>2, <2>3, <2>4, <2>5, <2>6, <4>1, <4>2
    <3>2. \A j \in 1 .. Len(external) : external[j] = history[Len(shown) + j]
      <4>1. \A j \in 1 .. Len(external) : external[j] = history[Len(shown) + Len(batch) + j]
        BY <2>1, Zenon DEF Flow
      <4> QED
        BY <2>2, <2>6, <4>1
    <3>3. ASSUME NEW i \in 1 .. Len(batch')
          PROVE  batch'[i] = history[Len(shown) + i]
      <4>1. i \in 1 .. n
        BY <2>4, Zenon
      <4>2. i \in 1 .. Len(external)
        BY <2>2, <2>3, <4>1
      <4> QED
        BY <2>4, <3>2, <4>1, <4>2, Zenon
    <3>4. ASSUME NEW i \in 1 .. Len(external')
          PROVE  external'[i] = history[Len(shown) + Len(batch') + i]
      <4>1. i \in 1 .. Len(external) - n /\ n + i \in 1 .. Len(external)
        BY <2>2, <2>3, <2>5
      <4>2. Len(shown) + (n + i) = Len(shown) + Len(batch') + i
        BY <2>2, <2>3, <2>4, <4>1
      <4> QED
        BY <2>5, <3>2, <4>1, <4>2, Zenon
    <3>5. ASSUME NEW i \in 1 .. Len(pushing)
          PROVE  pushing[i] = history[Len(shown) + Len(batch') + Len(external') + i]
      <4>1. pushing[i] = history[Len(shown) + Len(batch) + Len(external) + i]
        BY <2>1, Zenon DEF Flow
      <4>2. Len(shown) + Len(batch) + Len(external) + i
              = Len(shown) + Len(batch') + Len(external') + i
        BY <2>2, <2>3, <2>4, <2>5, <2>6
      <4> QED
        BY <4>1, <4>2, Zenon
    <3> QED
      BY <1>2, <2>1, <3>1, <3>3, <3>4, <3>5, Zenon DEF Flow
  <2>8. Len(batch') <= Bulk /\ Len(external') <= Capacity
    BY <2>1, <2>2, <2>3, <2>4, <2>5
  <2>9. /\ thread' \in [Services -> Threads] /\ thread'["engine"] = "running"
        /\ \A r \in Services : thread'[r] = IF r = "engine" THEN "running" ELSE thread[r]
    BY <1>1, <1>3, <2>1, Zenon DEF Threads
  <2>10. StatisticsAreComplete'
    BY <1>2, <1>3, ReplayFacts, Zenon DEF StatisticsAreComplete
  <2>11. "running" # "in loop" /\ "running" # "orphan" /\ main # <<"construct", "engine">>
    <3>1. thread["engine"] # "none"
      BY <1>1, Zenon
    <3> QED
      BY <1>1, <3>1, ReplayFacts, Zenon
  <2> QED
    BY <1>2, <1>3, <2>4, <2>5, <2>7, <2>8, <2>9, <2>10, <2>11, ReplayFacts, ThreadMoves, Zenon
<1>4. CASE ~klines /\ Crash("null") /\ UNCHANGED <<batch, external, thread>>
  <2>1. ~punctual
    BY <1>1, <1>4, ReplayFacts, Zenon
  <2> QED
    BY <1>2, <1>4, <2>1, Crashes, Zenon
<1> QED
  BY <1>3, <1>4, Zenon DEF Dequeue

(* The engine shows the next kline of its batch to the book.               *)
LEMMA StepOnNewKLine ==
  ASSUME ReplayAssumption, ReplayInv, OnNewKLine
  PROVE  ReplayInv'
<1>1. thread["engine"] = "running" /\ batch # << >> /\ "engine" \in Services
  BY Zenon DEF OnNewKLine, Services
<1>2. UNCHANGED <<punctual, file, history, external, thread, run, next, needMore, pushing, klines,
                  derived>>
  BY Zenon DEF OnNewKLine, producer
<1>3. /\ external \in Seq(KLine) /\ pushing \in Seq(KLine) /\ batch \in Seq(KLine)
      /\ shown \in Seq([price : Nat, qty : Nat]) /\ history \in Seq(KLine) /\ Flow
      /\ Len(batch) <= Bulk /\ Bulk \in Nat /\ next \in 0 .. Len(history)
      /\ StatisticsAreComplete
  BY ReplayFacts, Zenon DEF ReplayAssumption
<1>4. /\ Len(external) \in Nat /\ Len(pushing) \in Nat /\ Len(batch) \in Nat
      /\ Len(shown) \in Nat /\ Len(history) \in Nat
  BY <1>3, LenFacts, Zenon
<1>5. Len(batch) >= 1 /\ Len(batch) # 0
  <2>1. Len(batch) # 0
    BY <1>1, <1>3, LenFacts, Zenon
  <2> QED
    BY <1>4, <2>1
<1>6. Head(batch) = batch[1] /\ batch[1] \in KLine /\ batch[1] = history[Len(shown) + 1]
  <2>1. \A i \in 1 .. Len(batch) : batch[i] = history[Len(shown) + i]
    BY <1>3, Zenon DEF Flow
  <2> QED
    BY <1>3, <1>4, <1>5, <2>1
<1>7. next = Len(shown) + Len(batch) + Len(external) + Len(pushing)
  BY <1>3, Zenon DEF Flow
<1>8. Len(shown) # Len(history)
  BY <1>3, <1>4, <1>5, <1>7
<1>9. punctual => main[1] \notin {"~derived", "stop", "null", "join", "return"}
  BY <1>3, <1>8, Zenon DEF StatisticsAreComplete
<1>10. CASE /\ derived /\ Head(batch).open > 0
            /\ shown' = Append(shown, BBOOf(Head(batch)))
            /\ batch' = Tail(batch)
            /\ UNCHANGED <<main, fault>>
  <2>1. BBOOf(batch[1]) \in [price : Nat, qty : Nat]
    <3>1. batch[1].open \in Nat /\ batch[1].volume \in Nat /\ batch[1].open > 0
      BY <1>6, <1>10, Zenon DEF KLine
    <3>2. \A a, b \in Nat : b > 0 => a \div b \in Nat
      OBVIOUS
    <3>3. batch[1].volume \div batch[1].open \in Nat
      BY <3>1, <3>2, Zenon
    <3> QED
      BY <3>1, <3>3, Zenon DEF BBOOf
  <2> DEFINE top == BBOOf(batch[1])
  <2>2. top \in [price : Nat, qty : Nat] /\ shown' = Append(shown, top)
    BY <1>6, <1>10, <2>1, Zenon
  <2>3. top = BBOOf(history[Len(shown) + 1]) /\ history[Len(shown) + 1].open > 0
    BY <1>6, <1>10, Zenon
  <2> HIDE DEF top
  <2>4. /\ shown' \in Seq([price : Nat, qty : Nat]) /\ Len(shown') = Len(shown) + 1
        /\ shown'[Len(shown) + 1] = top
        /\ \A i \in 1 .. Len(shown) : shown'[i] = shown[i]
    BY <1>3, <1>4, <2>2
  <2>5. /\ batch' \in Seq(KLine) /\ Len(batch') = Len(batch) - 1
        /\ \A i \in 1 .. Len(batch) - 1 : batch'[i] = batch[i + 1]
    BY <1>1, <1>3, <1>4, <1>10
  <2>6. Flow'
    <3>1. next' = Len(shown') + Len(batch') + Len(external') + Len(pushing')
      <4>1. Len(external') = Len(external) /\ Len(pushing') = Len(pushing) /\ next' = next
        BY <1>2, Zenon
      <4> QED
        BY <1>4, <1>5, <1>7, <2>4, <2>5, <4>1
    <3>2. ASSUME NEW i \in 1 .. Len(shown')
          PROVE  history[i].open > 0 /\ shown'[i] = BBOOf(history[i])
      <4>1. CASE i \in 1 .. Len(shown)
        <5>1. history[i].open > 0 /\ shown[i] = BBOOf(history[i])
          BY <1>3, <4>1, Zenon DEF Flow
        <5> QED
          BY <2>4, <4>1, <5>1, Zenon
      <4>2. CASE i = Len(shown) + 1
        BY <2>3, <2>4, <4>2, Zenon
      <4> QED
        BY <1>4, <2>4, <4>1, <4>2
    <3>3. ASSUME NEW i \in 1 .. Len(batch')
          PROVE  batch'[i] = history[Len(shown') + i]
      <4>1. i \in 1 .. Len(batch) - 1 /\ i + 1 \in 1 .. Len(batch)
        BY <1>4, <2>5
      <4>2. batch[i + 1] = history[Len(shown) + (i + 1)]
        BY <1>3, <4>1, Zenon DEF Flow
      <4>3. Len(shown) + (i + 1) = Len(shown') + i
        BY <1>4, <2>4
      <4> QED
        BY <2>5, <4>1, <4>2, <4>3, Zenon
    <3>4. Len(shown') + Len(batch') = Len(shown) + Len(batch)
      BY <1>4, <2>4, <2>5
    <3>5. \A i \in 1 .. Len(external) : external[i] = history[Len(shown') + Len(batch') + i]
      BY <1>3, <3>4, Zenon DEF Flow
    <3>6. \A i \in 1 .. Len(pushing) :
            pushing[i] = history[Len(shown') + Len(batch') + Len(external) + i]
      BY <1>3, <3>4, Zenon DEF Flow
    <3> QED
      BY <1>2, <1>3, <3>1, <3>2, <3>3, <3>5, <3>6, Zenon DEF Flow
  <2>7. Len(batch') <= Bulk
    BY <1>3, <1>4, <2>5
  <2>8. StatisticsAreComplete'
    BY <1>2, <1>9, <1>10, Zenon DEF StatisticsAreComplete
  <2>9. "running" # "in loop" /\ thread["engine"] # "none"
    BY <1>1, Zenon
  <2> QED
    BY <1>1, <1>2, <1>10, <2>4, <2>5, <2>6, <2>7, <2>8, <2>9, ReplayFacts, ThreadMoves, Zenon
<1>11. CASE derived /\ Crash("division") /\ UNCHANGED <<batch, shown>>
  BY <1>2, <1>11, Crashes, Zenon
<1>12. CASE ~derived /\ Crash("derived") /\ UNCHANGED <<batch, shown>>
  <2>1. main \in Destroying \union Ended
    BY <1>12, Zenon DEF ReplayInv, Lifetimes
  <2>2. main # <<"crash", "main">>
    BY Zenon DEF OnNewKLine, Ended
  <2>3. main[1] \in {"~derived", "stop", "null", "join", "return"}
    BY <2>1, <2>2 DEF Destroying, Ended
  <2>4. ~punctual
    BY <1>9, <2>3, Zenon
  <2> QED
    BY <1>2, <1>12, <2>4, Crashes, Zenon
<1> QED
  BY <1>10, <1>11, <1>12, Zenon DEF OnNewKLine

(* The program starts with nothing fetched, queued or shown.               *)
LEMMA ReplayStarts ==
  ASSUME ReplayAssumption, ReplayInit
  PROVE  ReplayInv
<1>1. /\ punctual \in BOOLEAN /\ file \in Files \union {NoPath}
      /\ history = << >> /\ next = 0 /\ external = << >> /\ main = <<"construct", "engine">>
      /\ thread = [s \in Services |-> "none"] /\ run = [s \in Services |-> FALSE]
      /\ needMore = TRUE /\ pushing = << >> /\ batch = << >> /\ klines = TRUE /\ derived = TRUE
      /\ shown = << >> /\ fault = "none" /\ Capacity \in Nat /\ Bulk \in Nat
  BY Zenon DEF ReplayInit, ReplayAssumption
<1>2. "engine" \in Services /\ \A s \in Services : thread[s] = "none"
  BY <1>1, Zenon DEF Services
<1>3. ReplayTypeOK
  BY <1>1 DEF ReplayTypeOK, Services, Ended
<1>4. Flow
  BY <1>1 DEF Flow
<1>5. StatisticsAreComplete /\ NoLifetimeFault
  BY <1>1, Zenon DEF StatisticsAreComplete, NoLifetimeFault
<1>6. Lifetimes
  BY <1>1, <1>2, <1>5, Zenon DEF Lifetimes
<1> QED
  BY <1>3, <1>4, <1>6, Zenon DEF ReplayInv

(* Every step of main and of the two threads keeps the invariant.          *)
LEMMA ReplayStep ==
  ASSUME ReplayAssumption, ReplayInv, [ReplayNext]_replayVars
  PROVE  ReplayInv'
<1>1. CASE Main
  BY <1>1, StepConstruct, StepSilentFor4s, StepDestroyDerived, StepNullQueues, StepStart,
     StepStarted, StepStop, StepJoin, Zenon DEF Main
<1>2. CASE KLineThread
  <2>1. "kline" \in Services
    BY Zenon DEF Services
  <2> QED
    BY <1>2, <2>1, StepBegin, StepFetch, StepPush, StepKLineEnds, Zenon DEF KLineThread
<1>3. CASE EngineThread
  <2>1. "engine" \in Services
    BY Zenon DEF Services
  <2> QED
    BY <1>3, <2>1, StepBegin, StepEngineLoop, StepDequeue, StepOnNewKLine, Zenon DEF EngineThread
<1>4. CASE UNCHANGED replayVars
  <2>1. UNCHANGED <<punctual, file, history, next, external, main, thread, run, needMore, pushing,
                    batch, klines, derived, shown, fault>>
    BY <1>4, Zenon DEF replayVars
  <2>2. ReplayTypeOK'
    BY <2>1, Zenon DEF ReplayInv, ReplayTypeOK
  <2>3. Flow'
    BY <2>1, FlowKept, Zenon DEF ReplayInv
  <2>4. NoLifetimeFault' /\ StatisticsAreComplete'
    BY <2>1, Zenon DEF ReplayInv, Lifetimes, NoLifetimeFault, StatisticsAreComplete
  <2>5. Lifetimes'
    BY <2>1, <2>4, Zenon DEF ReplayInv, Lifetimes
  <2> QED
    BY <2>2, <2>3, <2>5, Zenon DEF ReplayInv
<1> QED
  BY <1>1, <1>2, <1>3, <1>4, Zenon DEF ReplayNext

(* The backtest is whole, for every history file, queue capacity and batch *)
(* size: the book sees the klines that OHLCVI parsed in the file's order   *)
(* and each of them once; where threads run within a second it has seen    *)
(* them all when main prints the statistics, and no thread touches a       *)
(* service that has been destroyed.                                        *)
THEOREM ReplayWhole ==
  ASSUME ReplayAssumption
  PROVE  ReplaySpec => []ReplayIsWhole
<1>1. ReplayInit => ReplayInv
  BY ReplayStarts, Zenon
<1>2. ReplayInv /\ [ReplayNext]_replayVars => ReplayInv'
  BY ReplayStep, Zenon
<1>3. ReplayInv => ReplayIsWhole
  <2> SUFFICES ASSUME ReplayInv PROVE ReplayIsWhole
    OBVIOUS
  <2>1. /\ ReplayTypeOK /\ StatisticsAreComplete /\ NoLifetimeFault /\ Flow
        /\ shown \in Seq([price : Nat, qty : Nat]) /\ batch \in Seq(KLine)
        /\ external \in Seq(KLine) /\ pushing \in Seq(KLine) /\ next \in 0 .. Len(history)
        /\ history \in Seq(KLine)
    BY Zenon DEF ReplayInv, ReplayTypeOK, Lifetimes
  <2>2. DOMAIN shown = 1 .. Len(shown)
    BY <2>1
  <2>3. /\ Len(external) \in Nat /\ Len(pushing) \in Nat /\ Len(batch) \in Nat
        /\ Len(shown) \in Nat /\ Len(history) \in Nat
    BY <2>1, LenFacts, Zenon
  <2>4. next = Len(shown) + Len(batch) + Len(external) + Len(pushing)
    BY <2>1, Zenon DEF Flow
  <2>5. Len(shown) <= Len(history)
    BY <2>1, <2>3, <2>4
  <2> QED
    BY <2>1, <2>2, <2>5, Zenon DEF ReplayIsWhole, ReplayInOrder, Flow
<1> QED
  BY <1>1, <1>2, <1>3, PTL DEF ReplaySpec
==============================================================================
