--------------------------- MODULE PositionKeeper ---------------------------
(***************************************************************************)
(* Trading::PositionKeeper, the PositionInfo of every pair of an exchange, *)
(* and its two callers.  The TradeEngine adds the fill of a FILLED         *)
(* response and the BBO of its book.  The PositionKeeperComponent on the   *)
(* bus hands every response to exchange::PositionKeeper, which has one     *)
(* keeper per exchange.                                                    *)
(*                                                                         *)
(* Money is exact.  The code keeps doubles; the quotients it takes are     *)
(* averages of open positions, and the model follows the executions in     *)
(* which they are whole numbers.  (p - V / n) * n is written p * n - V.    *)
(* The volume and the text of ToString have no reader and are left out.    *)
(***************************************************************************)
EXTENDS Integers

CONSTANTS
  Exchanges,       \* exchanges named in responses
  Kept,            \* those with a keeper in position_
  Pairs,
  Prices,          \* prices of orders and of the book
  Qtys,            \* executed quantities
  PriceInvalid,    \* kPriceInvalid
  MaxPosition,     \* bound: lots held or owed; an int overflows at 2^31
  MaxEvents        \* bound: responses and book updates handled

ASSUME PricesAssumption == Prices \subseteq Nat /\ PriceInvalid \in Nat \ Prices
ASSUME QtysAssumption == Qtys \subseteq Nat

VARIABLES
  info,            \* ticker_position of every kept exchange
  events,          \* how many responses and book updates were handled
  last             \* history: what the last one was

vars == <<info, events, last>>

-----------------------------------------------------------------------------

Sides == {"kAsk", "kBid", "kInvalid"}

sideToValue == [kAsk |-> 1, kBid |-> -1, kInvalid |-> 0]

Opposite(side) == IF side = "kAsk" THEN "kBid" ELSE "kAsk"

Abs(n) == IF n < 0 THEN -n ELSE n

MinOf(m, n) == IF m < n THEN m ELSE n

Instruments == Kept \X Pairs

PositionInfo ==
  [position : Int, real : Int, unreal : Int, total : Int,
   vwap : [{"kAsk", "kBid"} -> Int]]

NewPositionInfo ==
  [position |-> 0, real |-> 0, unreal |-> 0, total |-> 0,
   vwap |-> [s \in {"kAsk", "kBid"} |-> 0]]

\* What the parsers make of an answer (OrderManager): a fill or an accepted
\* order with its side, and a cancelled order with nothing but its pair.  The
\* price of a fill is cummulativeQuoteQty, what was paid for all of it.
Fill(side, price, qty) ==
  [type |-> "FILLED", side |-> side, price |-> price * qty, qty |-> qty]

Accepted(side, price) == [type |-> "ACCEPTED", side |-> side, price |-> price, qty |-> 0]

Canceled == [type |-> "CANCELED", side |-> "kInvalid", price |-> PriceInvalid, qty |-> 0]

\* The prices that a response with a side may name.
NamedPrices == Prices \cup UNION { { p * q : q \in Qtys } : p \in Prices }

Responses ==
  { Fill(s, p, q) : s \in {"kAsk", "kBid"}, p \in Prices, q \in Qtys }
    \cup { Accepted(s, p) : s \in {"kAsk", "kBid"}, p \in Prices }
    \cup { Canceled }

-----------------------------------------------------------------------------

\* unreal_pnl of what is held at a price.
Unreal(i, price) ==
  IF i.position = 0 THEN 0
  ELSE IF i.position > 0 THEN price * i.position - i.vwap["kAsk"]
  ELSE i.vwap["kBid"] - price * (-i.position)

\* The second half of addFill and of updateBBO: what is held is valued at price.
Valued(i, price) ==
  [i EXCEPT !.unreal = Unreal(i, price), !.total = Unreal(i, price) + i.real]

\* The average price of the side opposite to a decrease, and whether it is whole.
Average(i, r) == i.vwap[Opposite(r.side)] \div Abs(i.position)

Decreases(i, r) == i.position * sideToValue[r.side] < 0

Whole(i, r) ==
  Decreases(i, r) => Average(i, r) * Abs(i.position) = i.vwap[Opposite(r.side)]

NewPosition(i, r) == i.position + r.qty * sideToValue[r.side]

\* Opened or increased.  The slot of kInvalid in open_vwap is read by nothing.
Increased(i, r) ==
  [i EXCEPT !.position = NewPosition(i, r),
            !.vwap = [s \in {"kAsk", "kBid"} |->
                        IF s = r.side THEN @[s] + r.price * r.qty ELSE @[s]]]

\* Mutant of Decreased: a flip keeps the average of the position it closed.
DecreasedKeepsOpposite(i, r) ==
  LET avg == Average(i, r)
      position == NewPosition(i, r)
  IN
  [i EXCEPT !.position = position,
            !.real = @ + MinOf(r.qty, Abs(i.position)) * (avg - r.price) * sideToValue[r.side],
            !.vwap = [@ EXCEPT ![Opposite(r.side)] = avg * Abs(position)]]

\* Decreased, perhaps closed or flipped to the other sign.
Decreased(i, r) ==
  LET avg == Average(i, r)
      position == NewPosition(i, r)
      flipped == position * i.position < 0
  IN
  [i EXCEPT !.position = position,
            !.real = @ + MinOf(r.qty, Abs(i.position)) * (avg - r.price) * sideToValue[r.side],
            !.vwap = [s \in {"kAsk", "kBid"} |->
                        IF s = r.side
                          THEN IF flipped THEN r.price * Abs(position) ELSE @[s]
                          ELSE IF flipped THEN 0 ELSE avg * Abs(position)]]

\* A flat position forgets what it was opened at.
Flattened(i) ==
  IF i.position = 0 THEN [i EXCEPT !.vwap = [s \in {"kAsk", "kBid"} |-> 0]] ELSE i

\* Mutant of addFill: a decrease is booked like an increase.
addFillOneWay(i, r) == Valued(Flattened(Increased(i, r)), r.price)

\* PositionInfo::addFill.
addFill(i, r) ==
  Valued(Flattened(IF Decreases(i, r) THEN Decreased(i, r) ELSE Increased(i, r)), r.price)

\* PositionInfo::updateBBO: both prices must be valid and something held.  The
\* model follows the books whose mid price is whole.
updateBBO(i, bid, ask) ==
  IF i.position # 0 /\ bid # PriceInvalid /\ ask # PriceInvalid
    THEN Valued(i, (bid + ask) \div 2)
    ELSE i

-----------------------------------------------------------------------------

Init ==
  /\ info = [k \in Instruments |-> NewPositionInfo]
  /\ events = 0
  /\ last = "none"

\* PositionKeeper::AddFill of exchange e.
AddFill(e, p, r) ==
  info' = [info EXCEPT ![<<e, p>>] = addFill(@, r)]

InBounds(e, p, r) ==
  /\ Whole(info[<<e, p>>], r)
  /\ Abs(NewPosition(info[<<e, p>>], r)) <= MaxPosition

\* TradeEngine::OnOrderResponse: only a fill reaches the keeper.
OnOrderResponse(e, p, r) ==
  /\ events < MaxEvents
  /\ r.type = "FILLED"
  /\ InBounds(e, p, r)
  /\ AddFill(e, p, r)
  /\ events' = events + 1
  /\ last' = r.type

\* TradeEngine::OnOrderBookUpdate, and exchange::PositionKeeper::UpdateBBO.
UpdateBBO(e, p, bid, ask) ==
  /\ events < MaxEvents
  /\ bid # PriceInvalid /\ ask # PriceInvalid => (bid + ask) % 2 = 0
  /\ info' = [info EXCEPT ![<<e, p>>] = updateBBO(@, bid, ask)]
  /\ events' = events + 1
  /\ last' = "BBO"

\* PositionKeeperComponent::AsyncHandleEvent(BusEventResponse*), posted, and
\* exchange::PositionKeeper::HandleResponse.  The type is not looked at; an
\* exchange without a keeper is reported and skipped.
HandleResponse(e, p, r) ==
  /\ events < MaxEvents
  /\ \/ e \in Kept /\ InBounds(e, p, r) /\ AddFill(e, p, r)
     \/ e \notin Kept /\ UNCHANGED info
  /\ events' = events + 1
  /\ last' = r.type

Next ==
  \E p \in Pairs :
    \/ \E e \in Kept, r \in Responses : OnOrderResponse(e, p, r)
    \/ \E e \in Kept, bid, ask \in Prices \cup {PriceInvalid} : UpdateBBO(e, p, bid, ask)
    \/ \E e \in Exchanges, r \in Responses : HandleResponse(e, p, r)

Spec == Init /\ [][Next]_vars

-----------------------------------------------------------------------------

\* Types of PositionInfo: whole amounts, and a position within its bound.
TypeOK ==
  /\ info \in [Instruments -> PositionInfo]
  /\ \A k \in Instruments : Abs(info[k].position) <= MaxPosition
  /\ events \in 0 .. MaxEvents
  /\ last \in {"none", "BBO", "FILLED", "ACCEPTED", "CANCELED"}

\* open_vwap of a side is the cost of what is open on that side and nothing
\* else: addFill never leaves the cost of a closed position behind, however
\* often a position is opened, reduced, closed and flipped.
OneSided ==
  \A k \in Instruments :
    /\ info[k].position <= 0 => info[k].vwap["kAsk"] = 0
    /\ info[k].position >= 0 => info[k].vwap["kBid"] = 0

\* The cash that the fields of a PositionInfo stand for: the realised pnl, less
\* what is invested in a long position, plus what a short one brought in.
Cash(i) == i.real - i.vwap["kAsk"] + i.vwap["kBid"]

Ledger ==
  INSTANCE PnlLedger WITH
    TradePrices <- NamedPrices,
    TradeQtys <- Qtys \cup {0},
    Marks <- { (bid + ask) \div 2 : bid, ask \in Prices } \cup {PriceInvalid},
    position <- [k \in Instruments |-> info[k].position],
    cash <- [k \in Instruments |-> Cash(info[k])],
    equity <- [k \in Instruments |-> info[k].total]

\* The averages, the two kinds of pnl and the flips of addFill and updateBBO
\* keep the books of PnlLedger: total_pnl is always the cash earned plus the
\* position at the last price, and each response moves the cash by its price
\* times its qty, where the price of a fill is a total already.
ImplementsLedger == Ledger!Spec

\* "add only filled order" (position_keeper.h): a PositionInfo changes only for
\* a fill or a new BBO.
OnlyFillsCount ==
  [][ info' # info => last' \in {"FILLED", "BBO"} ]_vars

=============================================================================
