----------------------------- MODULE OrderBookLoop -----------------------------
(***************************************************************************)
(* The loops of MarketOrderBook2::OnMarketUpdate over the levels of a       *)
(* message, level by level as the code runs them, against the closed form   *)
(* MarketOrderBook2 uses.  A message is a sequence of levels here and may   *)
(* name a price more than once.                                             *)
(***************************************************************************)
EXTENDS MarketOrderBook2, Sequences

CONSTANT MaxLength      \* bound: levels in one side of a message

ASSUME LengthAssumption == MaxLength \in Nat

Level    == [price : Prices, qty : Qty0]
Messages == UNION {[1 .. n -> Level] : n \in 0 .. MaxLength}

(* !map.size() || level.price at or better than map.begin()->price_ *)
AtOrBetterThanTop(side, lv, price) ==
  \/ Occupied(lv) = {}
  \/ ~Better(side, TopOf(side, lv)[1], price)

AddOrder(lv, level) == [lv EXCEPT ![level.price] = level.qty]

(* !order_at_price: the price is not in the book, nothing happens *)
RemoveOrdersAtPrice(lv, price) ==
  IF lv[price] = 0 THEN lv ELSE [lv EXCEPT ![price] = 0]

ApplyOne(lv, level) ==
  IF level.qty > 0 THEN AddOrder(lv, level) ELSE RemoveOrdersAtPrice(lv, level.price)

(* Mutant of the code: the flag looks at added levels only. *)
DiffIterationAddsOnly(side, st, level) ==
  [lv   |-> ApplyOne(st.lv, level),
   flag |-> st.flag \/ (level.qty > 0 /\ AtOrBetterThanTop(side, st.lv, level.price))]

(* The body of the diff handler's loops. *)
DiffIteration(side, st, level) ==
  [lv   |-> ApplyOne(st.lv, level),
   flag |-> st.flag \/ AtOrBetterThanTop(side, st.lv, level.price)]

(* Mutant of the code: a level without quantity raises the flag as well. *)
SnapshotIterationAnyQty(side, st, level) ==
  [lv   |-> ApplyOne(st.lv, level),
   flag |-> st.flag \/ AtOrBetterThanTop(side, st.lv, level.price)]

(* The body of the snapshot handler's loops. *)
SnapshotIteration(side, st, level) ==
  [lv   |-> ApplyOne(st.lv, level),
   flag |-> st.flag \/ (level.qty > 0 /\ AtOrBetterThanTop(side, st.lv, level.price))]

(* The loop of a handler over one side of its message. *)
Iteration(handler, side, st, level) ==
  IF handler = "diff" THEN DiffIteration(side, st, level) ELSE SnapshotIteration(side, st, level)

Loop(handler, side, lv, msg) ==
  LET st[n \in 0 .. Len(msg)] ==
        IF n = 0 THEN [lv |-> lv, flag |-> FALSE]
        ELSE Iteration(handler, side, st[n - 1], msg[n])
  IN  st[Len(msg)]

(* ++ of an iterator of the side's tree. *)
IsNext(side, lv, p, q) ==
  /\ q \in Occupied(lv) /\ Better(side, p, q)
  /\ \A r \in Occupied(lv) : Better(side, p, r) => ~Better(side, r, q)

Increment(side, lv, p) ==
  IF \E q \in Prices : IsNext(side, lv, p, q)
  THEN CHOOSE q \in Prices : IsNext(side, lv, p, q)
  ELSE p                             \* end(), where AtLevel never gets

(* The price that begin() advanced by level is at. *)
Advanced(side, lv, level) ==
  LET it[n \in 0 .. level] ==
        IF n = 0 THEN TopOf(side, lv)[1] ELSE Increment(side, lv, it[n - 1])
  IN  it[level]

(* Mutant of the code: levels counted from one, as the comment at the         *)
(* iterator's advance has it.                                                 *)
AtLevelFromOne(side, lv, level) ==
  IF level > Cardinality(Occupied(lv)) \/ level = 0 THEN NoBBO
  ELSE LET p == Advanced(side, lv, level - 1) IN <<p, lv[p]>>

(* AsyncGetPriceAndQtyAtLevelBid and ...Ask for a known exchange and pair:    *)
(* price_map.begin() advanced by level, invalid past the last level.         *)
AtLevel(side, lv, level) ==
  IF level >= Cardinality(Occupied(lv)) THEN NoBBO
  ELSE LET p == Advanced(side, lv, level) IN <<p, lv[p]>>

-------------------------------------------------------------------------------
(* What a message says of each price in the end. *)
LastOf(msg) ==
  [p \in {msg[i].price : i \in DOMAIN msg} |->
     msg[CHOOSE i \in DOMAIN msg :
           /\ msg[i].price = p
           /\ \A j \in DOMAIN msg : msg[j].price = p => j <= i].qty]

(* The diff handler's loop leaves the book ApplyLevels describes, and its    *)
(* flag, tested against a top that moves during the loop, is WillBeUpdated   *)
(* of the book before the loop.                                              *)
DiffLoopIsClosedForm ==
  \A side \in Sides, msg \in Messages :
    LET end == Loop("diff", side, levels[side], msg)
    IN  /\ end.lv = ApplyLevels(levels[side], LastOf(msg))
        /\ end.flag = WillBeUpdated(side, levels[side], LastOf(msg))

(* The snapshot handler's loop, from the cleared book: whatever BBO was there *)
(* before, a side that ends up with levels gets its new top, and for a message *)
(* that names a price once the flag is SnapshotWillUpdate.                     *)
SnapshotLoopIsClosedForm ==
  \A side \in Sides, msg \in Messages :
    LET end == Loop("snapshot", side, ClearOrderBook[side], msg)
    IN  /\ end.lv = ApplyLevels(ClearOrderBook[side], LastOf(msg))
        /\ (\A i, j \in DOMAIN msg : msg[i].price = msg[j].price => i = j) =>
             end.flag = SnapshotWillUpdate(LastOf(msg))
        /\ Occupied(end.lv) # {} =>
             (IF end.flag THEN TopOf(side, end.lv) ELSE bbo[side]) = TopOf(side, end.lv)

(* AsyncGetPriceAndQtyAtLevelBid and ...Ask answer, for a level, the price    *)
(* that exactly so many levels of the book are better than, with its         *)
(* quantity, and an invalid price when the book has no such level; level 0    *)
(* is the top, which the cached BBO of updateBBO agrees with.                 *)
LevelsFromTheTop ==
  \A side \in Sides, level \in 0 .. Cardinality(Prices) :
    LET answer == AtLevel(side, levels[side], level)
        rank(p) == Cardinality({q \in Occupied(levels[side]) : Better(side, q, p)})
    IN  /\ IF answer = NoBBO
           THEN \A p \in Occupied(levels[side]) : rank(p) # level
           ELSE /\ answer[1] \in Occupied(levels[side]) /\ rank(answer[1]) = level
                /\ answer[2] = levels[side][answer[1]]
        /\ level = 0 /\ answer # NoBBO => answer = bbo[side]

(* The loops over the levels, those of the two handlers and those of the     *)
(* readers of a level, compute the closed forms.                             *)
LoopsAreClosedForms ==
  DiffLoopIsClosedForm /\ SnapshotLoopIsClosedForm /\ LevelsFromTheTop
===============================================================================
