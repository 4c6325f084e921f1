--------------------------- MODULE MarketOrderBook2 ---------------------------
(***************************************************************************)
(* Trading::MarketOrderBook2 (aot/strategy/market_order_book.h and          *)
(* src/market_order_book.cpp): the local order book of one exchange and     *)
(* trading pair, its cached best bid and offer (bbo_) and the BBO events it *)
(* emits.  OrderBookComponent runs the handlers one at a time on its        *)
(* executor, so each handler is one action.                                 *)
(*                                                                         *)
(* A side of the book is the quantity at every price, 0 where there is no   *)
(* level: the hash map finds the level of a price, the tree orders the same *)
(* levels by price.  One side of a message maps the prices it mentions to   *)
(* their new quantity; OrderBookLoop shows that the code's loop over a      *)
(* message's levels computes what is written here in closed form.           *)
(***************************************************************************)
EXTENDS Naturals, FiniteSets

CONSTANTS
  Prices,       \* prices that occur
  Qtys,         \* non-zero quantities that occur
  UpdateTypes,  \* types of the single updates the publishers send
  MaxLevels     \* bound: levels of one side of a message

ASSUME PricesAssumption ==
  /\ Prices \subseteq Nat
  /\ \A S \in SUBSET Prices :      \* a book has finitely many levels
       S # {} => /\ \E p \in S : \A q \in S : q <= p
                 /\ \E p \in S : \A q \in S : p <= q

ASSUME QtysAssumption == Qtys \subseteq Nat \ {0}

VARIABLES
  levels,     \* levels[side][price]: quantity, 0 when the book has no level
  bbo,        \* bbo_: per side the best price with its quantity
  seen        \* the last BBO emitted to the subscribers

vars == <<levels, bbo, seen>>

Sides == {"kBid", "kAsk"}
Qty0  == {0} \union Qtys
NoBBO == << >>                       \* kPriceInvalid, kQtyInvalid

(* One side of a diff or snapshot: prices with their new quantity. *)
Changes ==
  UNION {[P -> Qty0] : P \in {S \in SUBSET Prices : Cardinality(S) <= MaxLevels}}

-------------------------------------------------------------------------------
(* Order of the side's tree: std::greater for bids, std::less for asks. *)
Better(side, p, q) == IF side = "kBid" THEN p > q ELSE p < q

Occupied(lv) == {p \in Prices : lv[p] > 0}

(* begin() of the side's tree. *)
IsTop(side, lv, p) ==
  /\ p \in Occupied(lv)
  /\ \A q \in Occupied(lv) : ~Better(side, q, p)

TopOf(side, lv) ==
  IF Occupied(lv) = {} THEN NoBBO
  ELSE LET t == CHOOSE p \in Prices : IsTop(side, lv, p) IN <<t, lv[t]>>

(* Mutants of the code, for the checks of the properties below. *)
StrictlyBetterOnly(side, lv, change) ==
  \E p \in DOMAIN change : \A q \in Occupied(lv) : Better(side, p, q)

(* AddOrder for a positive quantity, RemoveOrdersAtPrice for 0 (a price that *)
(* has no level is left alone).                                              *)
ApplyLevels(lv, change) ==
  [p \in Prices |-> IF p \in DOMAIN change THEN change[p] ELSE lv[p]]

(* bid_will_be_updated, ask_will_be_updated of the diff and update handlers: *)
(* some level is at or better than the top.  Until the first such level the  *)
(* top stays what it was, so the flag depends on the book before the message *)
(* only.                                                                     *)
WillBeUpdated(side, lv, change) ==
  \E p \in DOMAIN change : \A q \in Occupied(lv) : ~Better(side, q, p)

(* The flags of the snapshot handler, which starts from the cleared book:    *)
(* set by the first level with a quantity.                                   *)
SnapshotWillUpdate(change) == \E p \in DOMAIN change : change[p] > 0

(* UpdateBBO, then the BBO is emitted when a side was asked for. *)
UpdateBBO(flag) ==
  /\ bbo' = [s \in Sides |-> IF flag[s] THEN TopOf(s, levels'[s]) ELSE bbo[s]]
  /\ seen' = IF \E s \in Sides : flag[s] THEN bbo' ELSE seen

ClearOrderBook == [s \in Sides |-> [p \in Prices |-> 0]]

-------------------------------------------------------------------------------
Init ==
  /\ levels = ClearOrderBook
  /\ bbo = [s \in Sides |-> NoBBO]
  /\ seen = [s \in Sides |-> NoBBO]

(* OnMarketUpdate(MEMarketUpdate2): a CLEAR empties the book and then goes   *)
(* on with the update's own level.  No publisher in the repository sends one *)
(* to this class; UpdateTypes says which types arrive.                       *)
OnMarketUpdate(type, side, price, qty) ==
  LET before == IF type = "CLEAR" THEN ClearOrderBook ELSE levels
      change == [p \in {price} |-> qty]
  IN  /\ levels' = [before EXCEPT ![side] = ApplyLevels(@, change)]
      /\ UpdateBBO([s \in Sides |->
                      s = side /\ WillBeUpdated(side, before[side], change)])

(* OnMarketUpdate(BookSnapshot2) *)
OnSnapshot(bids, asks) ==
  /\ levels' = [s \in Sides |->
       ApplyLevels(ClearOrderBook[s], IF s = "kBid" THEN bids ELSE asks)]
  /\ UpdateBBO([s \in Sides |->
       SnapshotWillUpdate(IF s = "kBid" THEN bids ELSE asks)])

(* OnMarketUpdate(BookDiffSnapshot2) *)
OnDiff(bids, asks) ==
  /\ levels' = [s \in Sides |->
       ApplyLevels(levels[s], IF s = "kBid" THEN bids ELSE asks)]
  /\ UpdateBBO([s \in Sides |->
       WillBeUpdated(s, levels[s], IF s = "kBid" THEN bids ELSE asks)])

Next ==
  \/ \E type \in UpdateTypes, side \in Sides, price \in Prices, qty \in Qty0 :
       OnMarketUpdate(type, side, price, qty)
  \/ \E bids, asks \in Changes : OnSnapshot(bids, asks)
  \/ \E bids, asks \in Changes : OnDiff(bids, asks)

Spec == Init /\ [][Next]_vars

-------------------------------------------------------------------------------
(* The types of the variables. *)
TypeOK ==
  /\ levels \in [Sides -> [Prices -> Qty0]]
  /\ bbo \in [Sides -> {NoBBO} \union (Prices \X Qtys)]
  /\ seen \in [Sides -> {NoBBO} \union (Prices \X Qtys)]

(* The BBO the handlers cache and the BBO their subscribers last received    *)
(* are the top of the book, price and quantity, for every side that has      *)
(* levels: although a handler refreshes a side only when one of the          *)
(* message's levels was at or better than the old top.                       *)
SubscribersSeeTop ==
  \A s \in Sides : Occupied(levels[s]) # {} =>
    bbo[s] = TopOf(s, levels[s]) /\ seen[s] = bbo[s]

(* A side without levels has no best price: UpdateBBO's else branches set    *)
(* kPriceInvalid and kQtyInvalid.                                            *)
EmptySideHasNoBBO ==
  \A s \in Sides : Occupied(levels[s]) = {} => bbo[s] = NoBBO
===============================================================================
