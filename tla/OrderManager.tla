---------------------------- MODULE OrderManager ----------------------------
(***************************************************************************)
(* Trading::OrderManager for one trading pair, with what stands between it *)
(* and the exchange: the two request queues of the trade engine, the loop  *)
(* of OrderGateway2, the HTTPS executors, and the Binance parsers that     *)
(* turn an answer into an MEClientResponse.                                *)
(*                                                                         *)
(* The manager keeps one OMOrder per side and finds it by side alone: the  *)
(* order id of a response is never compared.  Whether that is sound        *)
(* depends on the whole loop, which is why it is modelled here.            *)
(*                                                                         *)
(* Requests travel in sets: the executors run each one in a coroutine of   *)
(* its own over a session of its own, so neither requests nor answers keep *)
(* their order.  A repeated cancel of the same order that is still on its  *)
(* way coincides with the first; its answer would be an error, which       *)
(* OnOrderResponse ignores.                                                *)
(***************************************************************************)
EXTENDS Naturals

CONSTANTS
  MaxOrders,       \* bound: order ids the manager hands out
  MaxQty,          \* bound: lots of one order
  Truncated        \* <<origQty, executedQty>> whose difference loses a lot in doubles

ASSUME MaxOrdersAssumption == MaxOrders \in Nat
ASSUME MaxQtyAssumption == MaxQty \in Nat
ASSUME TruncatedAssumption ==
  \A p \in Truncated : p \in Nat \X Nat /\ p[2] < p[1]

VARIABLES
  order,                 \* ticker_side_order_ of the pair: side -> OMOrder
  nextOrderId,           \* next_order_id_
  requestsNewOrder,      \* request_new_order_, the queue to the gateway
  requestsCancelOrder,   \* request_cancel_order_
  gateway,               \* which half of the loop of OrderGateway2::Run is next
  sentNew,               \* new-order requests on their way to the exchange
  sentCancel,            \* ids of the cancel requests on their way
  resting,               \* orders open at the exchange
  responses,             \* parsed answers not yet handled
  told                   \* history: <<type, id>> of the responses handled

vars == <<order, nextOrderId, requestsNewOrder, requestsCancelOrder, gateway,
          sentNew, sentCancel, resting, responses, told>>

-----------------------------------------------------------------------------

OrderIdInvalid == 0

QtyInvalid == MaxQty + 1

OrderIds == 1 .. MaxOrders

Qtys == 1 .. MaxQty

\* Slots of OMOrderSideHashMap that sideToIndex can reach from a parsed side.
Sides == {"kBid", "kInvalid", "kAsk"}

\* The sides a strategy trades.
TradedSides == {"kBid", "kAsk"}

OMOrderState == {"INVALID", "PENDING_NEW", "LIVE", "PENDING_CANCEL", "DEAD"}

OMOrder == [id : OrderIds \cup {OrderIdInvalid}, qty : 0 .. QtyInvalid, state : OMOrderState]

RequestNewOrder == [id : OrderIds, side : TradedSides, qty : Qtys]

ClientResponse ==
  [type : {"INVALID", "ACCEPTED", "CANCELED", "FILLED"},
   id : OrderIds \cup {OrderIdInvalid}, side : Sides, leaves : 0 .. QtyInvalid]

\* A side as the request names it, and as the parser reads it back.
SetSide == [kAsk |-> "BUY", kBid |-> "SELL"]

\* Mutant of ParseSide: the strings read the other way round.
ParseSideSwapped == [BUY |-> "kBid", SELL |-> "kAsk"]

ParseSide == [BUY |-> "kAsk", SELL |-> "kBid"]

\* leaves_qty, static_cast<Qty>((orig - executed) * 10^precision) in doubles:
\* with one decimal (0.3 - 0.2) * 10 is below 1 and is cut to 0.
LeavesQty(orig, executed) ==
  IF <<orig, executed>> \in Truncated THEN orig - executed - 1 ELSE orig - executed

\* FamilyLimitOrder::ParserResponse::Parse.
ParseLimitOrder(type, id, exchangeSide, orig, executed) ==
  [type |-> type, id |-> id, side |-> ParseSide[exchangeSide],
   leaves |-> LeavesQty(orig, executed)]

\* FamilyCancelOrder::ParserResponse::Parse of a cancelled order: it reads the
\* id, the status and the pair, and leaves the side at its default.
ParseCancelOrder(id) ==
  [type |-> "CANCELED", id |-> id, side |-> "kInvalid", leaves |-> QtyInvalid]

\* What both parsers return for an error: a response with every field default.
InvalidResponse ==
  [type |-> "INVALID", id |-> OrderIdInvalid, side |-> "kInvalid", leaves |-> QtyInvalid]

-----------------------------------------------------------------------------

Init ==
  /\ order = [s \in Sides |->
                [id |-> OrderIdInvalid, qty |-> QtyInvalid, state |-> "INVALID"]]
  /\ nextOrderId = 1
  /\ requestsNewOrder = {}
  /\ requestsCancelOrder = {}
  /\ gateway = "new"
  /\ sentNew = {}
  /\ sentCancel = {}
  /\ resting = {}
  /\ responses = {}
  /\ told = {}

\* Mutant of OrderIsLive: an order that is only pending does not count.
OnlyLiveBlocks(s) == order[s].state = "LIVE"

OrderIsLive(s) == order[s].state \notin {"DEAD", "INVALID"}

\* NewOrder.  While OrderIsLive it returns at once, which is a stuttering step.
\* try_enqueue may fail; the failure is logged and the order is pending anyway.
NewOrder(s, q) ==
  LET request == [id |-> nextOrderId, side |-> s, qty |-> q] IN
  /\ nextOrderId <= MaxOrders
  /\ ~OrderIsLive(s)
  /\ requestsNewOrder' \in {requestsNewOrder, requestsNewOrder \cup {request}}
  /\ order' = [order EXCEPT ![s] =
                 [id |-> nextOrderId, qty |-> q, state |-> "PENDING_NEW"]]
  /\ nextOrderId' = nextOrderId + 1
  /\ UNCHANGED <<requestsCancelOrder, gateway, sentNew, sentCancel, resting,
                 responses, told>>

\* CancelOrder.  No state is checked: the id in the slot, even the invalid one,
\* is sent and the slot is pending from then on.
CancelOrder(s) ==
  /\ requestsCancelOrder' \in
       {requestsCancelOrder, requestsCancelOrder \cup {order[s].id}}
  /\ order' = [order EXCEPT ![s].state = "PENDING_CANCEL"]
  /\ UNCHANGED <<nextOrderId, requestsNewOrder, gateway, sentNew, sentCancel,
                 resting, responses, told>>

\* First half of the loop of OrderGateway2::Run: a batch of new orders.
RunNewOrders ==
  /\ gateway = "new"
  /\ \E batch \in SUBSET requestsNewOrder :
       /\ requestsNewOrder' = requestsNewOrder \ batch
       /\ sentNew' = sentNew \cup batch
  /\ gateway' = "cancel"
  /\ UNCHANGED <<order, nextOrderId, requestsCancelOrder, sentCancel, resting,
                 responses, told>>

\* Second half: a batch of cancels.
RunCancelOrders ==
  /\ gateway = "cancel"
  /\ \E batch \in SUBSET requestsCancelOrder :
       /\ requestsCancelOrder' = requestsCancelOrder \ batch
       /\ sentCancel' = sentCancel \cup batch
  /\ gateway' = "new"
  /\ UNCHANGED <<order, nextOrderId, requestsNewOrder, sentNew, resting,
                 responses, told>>

-----------------------------------------------------------------------------

\* The exchange executes a new order: it rejects it, rests it, fills a part of
\* it and rests the remainder, or fills all of it, and answers in each case.
ExecuteNew(r) ==
  LET side == SetSide[r.side]
      restingOrder == [id |-> r.id, side |-> side]
  IN
  /\ r \in sentNew
  /\ sentNew' = sentNew \ {r}
  /\ \/ /\ resting' = resting
        /\ responses' = responses \cup {InvalidResponse}
     \/ /\ resting' = resting \cup {restingOrder}
        /\ responses' = responses \cup {ParseLimitOrder("ACCEPTED", r.id, side, r.qty, 0)}
     \/ /\ resting' = resting \cup {restingOrder}
        /\ \E executed \in 1 .. r.qty - 1 :
             responses' = responses \cup
               {ParseLimitOrder("FILLED", r.id, side, r.qty, executed)}
     \/ /\ resting' = resting
        /\ responses' = responses \cup {ParseLimitOrder("FILLED", r.id, side, r.qty, r.qty)}
  /\ UNCHANGED <<order, nextOrderId, requestsNewOrder, requestsCancelOrder,
                 gateway, sentCancel, told>>

\* The exchange executes a cancel: CANCELED when the order rests, else an error.
ExecuteCancel(id) ==
  LET found == {o \in resting : o.id = id} IN
  /\ id \in sentCancel
  /\ sentCancel' = sentCancel \ {id}
  /\ resting' = resting \ found
  /\ responses' = responses \cup
       {IF found = {} THEN InvalidResponse ELSE ParseCancelOrder(id)}
  /\ UNCHANGED <<order, nextOrderId, requestsNewOrder, requestsCancelOrder,
                 gateway, sentNew, told>>

\* A resting order is filled by a later trade.  No stream of order events is
\* subscribed to, so the program is not told.
FillResting(o) ==
  /\ o \in resting
  /\ resting' = resting \ {o}
  /\ UNCHANGED <<order, nextOrderId, requestsNewOrder, requestsCancelOrder,
                 gateway, sentNew, sentCancel, responses, told>>

\* A connection fails before the request is executed or before the answer is
\* read: the executor logs it and nothing is handed to the manager.
LoseMessage ==
  /\ \/ /\ \E r \in sentNew : sentNew' = sentNew \ {r}
        /\ UNCHANGED <<sentCancel, responses>>
     \/ /\ \E id \in sentCancel : sentCancel' = sentCancel \ {id}
        /\ UNCHANGED <<sentNew, responses>>
     \/ /\ \E r \in responses : responses' = responses \ {r}
        /\ UNCHANGED <<sentNew, sentCancel>>
  /\ UNCHANGED <<order, nextOrderId, requestsNewOrder, requestsCancelOrder,
                 gateway, resting, told>>

-----------------------------------------------------------------------------

\* Mutant of Updated: any fill ends the order.
AnyFillIsDead(o, r) ==
  CASE r.type = "ACCEPTED" -> [o EXCEPT !.state = "LIVE"]
    [] r.type \in {"CANCELED", "FILLED"} -> [o EXCEPT !.state = "DEAD"]
    [] OTHER -> o

\* The switch of OnOrderResponse on the order it found.
Updated(o, r) ==
  CASE r.type = "ACCEPTED" -> [o EXCEPT !.state = "LIVE"]
    [] r.type = "CANCELED" -> [o EXCEPT !.state = "DEAD"]
    [] r.type = "FILLED" ->
         [o EXCEPT !.qty = r.leaves, !.state = IF r.leaves = 0 THEN "DEAD" ELSE @]
    [] OTHER -> o

\* OnOrderResponse.  The order is found by pair and side.  The pair of an
\* InvalidResponse is the default one, which is in no slot: an early return.
OnOrderResponse(r) ==
  /\ r \in responses
  /\ responses' = responses \ {r}
  /\ order' = [order EXCEPT ![r.side] = Updated(@, r)]
  /\ told' = told \cup {<<r.type, r.id>>}
  /\ UNCHANGED <<nextOrderId, requestsNewOrder, requestsCancelOrder, gateway,
                 sentNew, sentCancel, resting>>

-----------------------------------------------------------------------------

Next ==
  \/ \E s \in TradedSides : (\E q \in Qtys : NewOrder(s, q)) \/ CancelOrder(s)
  \/ RunNewOrders
  \/ RunCancelOrders
  \/ \E r \in sentNew : ExecuteNew(r)
  \/ \E id \in sentCancel : ExecuteCancel(id)
  \/ \E o \in resting : FillResting(o)
  \/ LoseMessage
  \/ \E r \in responses : OnOrderResponse(r)

Spec == Init /\ [][Next]_vars

-----------------------------------------------------------------------------

\* Types of the state of OrderManager, its queues and the messages.
TypeOK ==
  /\ order \in [Sides -> OMOrder]
  /\ nextOrderId \in 1 .. MaxOrders + 1
  /\ requestsNewOrder \subseteq RequestNewOrder
  /\ requestsCancelOrder \subseteq OrderIds \cup {OrderIdInvalid}
  /\ gateway \in {"new", "cancel"}
  /\ sentNew \subseteq RequestNewOrder
  /\ sentCancel \subseteq OrderIds \cup {OrderIdInvalid}
  /\ resting \subseteq [id : OrderIds, side : {"BUY", "SELL"}]
  /\ responses \subseteq ClientResponse
  /\ told \subseteq {"INVALID", "ACCEPTED", "CANCELED", "FILLED"}
                    \X (OrderIds \cup {OrderIdInvalid})

\* Orders that can still trade: queued, on their way or resting.
Outstanding ==
  { <<r.id, r.side>> : r \in requestsNewOrder \cup sentNew }
    \cup { <<o.id, ParseSide[o.side]>> : o \in resting }

\* "OrderManager impl supports only 1 active order for each side" (README.md):
\* whatever is lost, reordered or cancelled, NewOrder never lets two orders of
\* one side be able to trade at once.
OneActiveOrderPerSide ==
  \A a, b \in Outstanding : a[2] = b[2] => a[1] = b[1]

\* OMOrderState::DEAD "represents an order that does not exist" (om_order.h):
\* when the slot of a side is DEAD no order of that side can still trade.
DeadOrderIsClosed ==
  \A a \in Outstanding : order[a[2]].state # "DEAD"

\* OnOrderResponse looks only at the side of a response.  That is sound: the
\* answer to a new order always finds that same order in the slot.
ResponseMatchesOrder ==
  \A r \in responses :
    r.type \in {"ACCEPTED", "FILLED"} => order[r.side].id = r.id

\* A slot is LIVE only when the exchange accepted the very order it holds.
LiveWasAccepted ==
  \A s \in Sides : order[s].state = "LIVE" => <<"ACCEPTED", order[s].id>> \in told

\* So OMOrderState tells the truth of an order's life: DEAD is over and LIVE is
\* accepted, in whatever order requests and answers travelled.
SlotStateIsTrue == DeadOrderIsClosed /\ LiveWasAccepted

Pending(s) == order[s].state \in {"PENDING_NEW", "PENDING_CANCEL"}

Requests == requestsNewOrder \cup sentNew

NewAnswers == {r \in responses : r.type \in {"ACCEPTED", "FILLED"}}

\* Why the lookup by side is sound.  A request and its answer belong to the
\* order in the slot, which stays pending until OnOrderResponse has the answer.
MessagesOwnSlot ==
  /\ \A r \in Requests : order[r.side].id = r.id /\ Pending(r.side)
  /\ \A a \in NewAnswers :
       a.side \in TradedSides /\ order[a.side].id = a.id /\ Pending(a.side)
  /\ \A o \in resting :
       order[ParseSide[o.side]].id = o.id /\ OrderIsLive(ParseSide[o.side])

\* Of a side there is one request or one answer, never both; an order with a
\* request does not rest yet, and one that is fully filled rests no more.
OneMessagePerSide ==
  /\ requestsNewOrder \cap sentNew = {}
  /\ \A r1, r2 \in Requests : r1.side = r2.side => r1 = r2
  /\ \A a1, a2 \in NewAnswers : a1.side = a2.side => a1 = a2
  /\ \A r \in Requests, a \in NewAnswers : r.side # a.side
  /\ \A r \in Requests, o \in resting : r.side # ParseSide[o.side]
  /\ \A a \in NewAnswers, o \in resting :
       a.type = "FILLED" /\ a.leaves = 0 => a.side # ParseSide[o.side]

\* The answers that could close a slot too early, those to cancels, carry no
\* side and so reach no slot that is traded.
OtherAnswersMissSlots ==
  \A a \in responses \ NewAnswers : a.side = "kInvalid"

\* The inductive invariant of the loop NewOrder, gateway, exchange, parser,
\* OnOrderResponse, from which the four invariants above follow.
OrderInv ==
  /\ TypeOK
  /\ MessagesOwnSlot
  /\ OneMessagePerSide
  /\ OtherAnswersMissSlots
  /\ LiveWasAccepted

\* No remainder of a single lot is truncated to nothing.
RemaindersSurvive == \A p \in Truncated : p[2] + 1 < p[1]

\* OMOrderState::PENDING_CANCEL: the cancellation "has not been processed by the
\* exchange or the response has not been received back" (om_order.h).  The
\* parser of cancels drops the side, so the response misses the slot.
PendingCancelIsUnanswered ==
  \A s \in Sides : order[s].state = "PENDING_CANCEL" =>
    <<"CANCELED", order[s].id>> \notin told

=============================================================================
