------------------------ MODULE CrossArbitrage_proofs ------------------------
(***************************************************************************)
(* Proofs about cross arbitrage, for all prices, pairs, pool sizes and     *)
(* channel capacities.                                                     *)
(***************************************************************************)
EXTENDS CrossArbitrage, TLAPS

-----------------------------------------------------------------------------
(* The types the proofs need.                                              *)
Types ==
  /\ book \in [Exchanges -> [Prices -> Sides \cup {"none"}]]
  /\ bbo \in [Exchanges -> [Sides -> QuotedPrices]]
  /\ pool \in [Exchanges -> [Sides -> [busy : SUBSET Blocks, next : Blocks]]]
  /\ queue \in [Exchanges -> Seq(Signal)]
  /\ prices \in [Exchanges -> [Sides -> QuotedPrices]]
  /\ orders \in [Pairs \X Sides -> [live : BOOLEAN, price : QuotedPrices]]

(* begin() of a tree is a quoted price.                                    *)
LEMMA BestType ==
  ASSUME NEW s \in Sides, NEW levels \in SUBSET Prices
  PROVE  Best(s, levels) \in QuotedPrices
<1>1. CASE levels = {}
  BY <1>1, Zenon DEF Best, QuotedPrices
<1>2. CASE levels # {}
  <2>1. \E p \in levels : \A q \in levels : AtOrBetter(s, p, q)
    BY <1>2, PricesAssumption, Zenon DEF AtOrBetter
  <2>2. Best(s, levels) \in levels
    BY <1>2, <2>1, Zenon DEF Best
  <2> QED
    BY <2>2, Zenon DEF QuotedPrices
<1> QED
  BY <1>1, <1>2, Zenon

(* The order manager keeps its slots typed.                                *)
LEMMA LaunchType ==
  ASSUME NEW slots \in [Pairs \X Sides -> [live : BOOLEAN, price : QuotedPrices]],
         NEW quotes \in [Exchanges -> [Sides -> QuotedPrices]],
         NEW i \in Exchanges, NEW j \in Exchanges
  PROVE  Arbitrage(slots, quotes, i, j) \in [Pairs \X Sides -> [live : BOOLEAN, price : QuotedPrices]]
<1> DEFINE Slots == [Pairs \X Sides -> [live : BOOLEAN, price : QuotedPrices]]
<1>1. ASSUME NEW t \in Slots, NEW pair \in Pairs, NEW s \in Sides, NEW price \in QuotedPrices
      PROVE  NewOrder(t, pair, s, price) \in Slots
  <2>1. <<pair, s>> \in Pairs \X Sides
    OBVIOUS
  <2>2. [live |-> TRUE, price |-> price] \in [live : BOOLEAN, price : QuotedPrices]
    OBVIOUS
  <2> QED
    BY <2>1, <2>2, Zenon DEF NewOrder
<1>2. WorkingPair[i] \in Pairs /\ WorkingPair[j] \in Pairs
  BY PairsAssumption, Zenon DEF Exchanges
<1>3. /\ quotes[i]["kAsk"] \in QuotedPrices /\ quotes[j]["kBid"] \in QuotedPrices
      /\ "kAsk" \in Sides /\ "kBid" \in Sides
  BY Zenon DEF Sides
<1> HIDE DEF Slots
<1>4. BuySomeAsset(slots, quotes, i) \in Slots
  BY <1>1, <1>2, <1>3, Zenon DEF BuySomeAsset, Slots
<1>5. SellSomeAsset(BuySomeAsset(slots, quotes, i), quotes, j) \in Slots
  BY <1>1, <1>2, <1>3, <1>4, Zenon DEF SellSomeAsset
<1> QED
  BY <1>5, Zenon DEF Arbitrage, Slots

(* What a step of a book does to the channel, the pool and the BBO.        *)
LEMMA UpdateTypes ==
  ASSUME Types, NEW e \in Exchanges, NEW s \in Sides, NEW p \in Prices, NEW add \in BOOLEAN,
         OnMarketUpdate(e, s, p, add)
  PROVE  Types'
<1> DEFINE changed == Changed(e, s, p, add)
<1>1. changed \in [Prices -> Sides \cup {"none"}]
  BY DEF Types, Changed
<1>2. book' \in [Exchanges -> [Prices -> Sides \cup {"none"}]]
  BY <1>1, Zenon DEF Types, OnMarketUpdate
<1>3. prices' = prices /\ orders' = orders
  BY Zenon DEF OnMarketUpdate
<1>4. CASE WillBeUpdated(e, s, p)
  <2> DEFINE best == Best(s, {q \in Prices : changed[q] = s})
             signal == [side |-> s, price |-> bbo'[e][s], block |-> pool[e][s].next]
  <2>1. best \in QuotedPrices
    BY BestType, Zenon
  <2>2. bbo' = [bbo EXCEPT ![e][s] = best] /\ updateBBO(e, s)
    BY <1>4, Zenon DEF OnMarketUpdate
  <2> HIDE DEF best
  <2>3. bbo' \in [Exchanges -> [Sides -> QuotedPrices]] /\ bbo'[e][s] = best
    BY <2>1, <2>2, Zenon DEF Types
  <2>4. pool' \in [Exchanges -> [Sides -> [busy : SUBSET Blocks, next : Blocks]]]
    <3>1. pool[e][s] \in [busy : SUBSET Blocks, next : Blocks]
      BY DEF Types
    <3>2. PICK next \in Blocks :
            pool' = [pool EXCEPT ![e][s] =
                       [busy |-> pool[e][s].busy \cup {pool[e][s].next}, next |-> next]]
      BY <2>2, Zenon DEF updateBBO
    <3>3. [busy |-> pool[e][s].busy \cup {pool[e][s].next}, next |-> next]
            \in [busy : SUBSET Blocks, next : Blocks]
      BY <3>1, Zenon
    <3> QED
      BY <3>2, <3>3, Zenon DEF Types
  <2>5. signal \in Signal
    BY <2>3 DEF Types, Signal
  <2>6. queue' \in {queue, Enqueued(e, signal)}
    BY <2>2, Zenon DEF updateBBO
  <2> HIDE DEF signal
  <2>7. queue' \in [Exchanges -> Seq(Signal)]
    <3>1. queue \in [Exchanges -> Seq(Signal)] /\ queue[e] \in Seq(Signal)
      BY Zenon DEF Types
    <3>2. Append(queue[e], signal) \in Seq(Signal)
      BY <2>5, <3>1
    <3>3. Enqueued(e, signal) = [queue EXCEPT ![e] = Append(queue[e], signal)]
      BY Zenon DEF Enqueued
    <3> QED
      BY <2>6, <3>1, <3>2, <3>3, Zenon
  <2> QED
    BY <1>2, <1>3, <2>3, <2>4, <2>7, Zenon DEF Types
<1>5. CASE ~WillBeUpdated(e, s, p)
  <2>1. UNCHANGED <<bbo, pool, queue>>
    BY <1>5, Zenon DEF OnMarketUpdate
  <2> QED
    BY <1>2, <1>3, <2>1, Zenon DEF Types
<1> QED
  BY <1>4, <1>5, Zenon

(* The engine keeps the types.                                             *)
LEMMA SignalTypes ==
  ASSUME Types, NEW e \in Exchanges, OnNewSignal(e)
  PROVE  Types' /\ Head(queue[e]) \in Signal
<1> DEFINE signal == Head(queue[e])
<1>1. queue[e] \in Seq(Signal) /\ queue[e] # << >>
  BY Zenon DEF Types, OnNewSignal
<1>2. signal \in Signal /\ Tail(queue[e]) \in Seq(Signal)
  BY <1>1
<1>3. signal.side \in Sides /\ signal.price \in QuotedPrices /\ signal.block \in Blocks
  BY <1>2, Zenon DEF Signal
<1>4. /\ queue' = [queue EXCEPT ![e] = Tail(queue[e])]
      /\ prices' = [prices EXCEPT ![e][signal.side] = signal.price]
      /\ pool' = [pool EXCEPT ![e][signal.side] = Deallocated(pool[e][signal.side], signal.block)]
      /\ orders' = LaunchPayload(orders, prices')
      /\ UNCHANGED <<book, bbo>>
  BY Zenon DEF OnNewSignal
<1> HIDE DEF signal
<1>5. queue' \in [Exchanges -> Seq(Signal)]
  BY <1>2, <1>4, Zenon DEF Types
<1>6. prices' \in [Exchanges -> [Sides -> QuotedPrices]]
  BY <1>3, <1>4, Zenon DEF Types
<1>7. pool' \in [Exchanges -> [Sides -> [busy : SUBSET Blocks, next : Blocks]]]
  <2>1. Deallocated(pool[e][signal.side], signal.block) \in [busy : SUBSET Blocks, next : Blocks]
    <3>1. pool[e][signal.side] \in [busy : SUBSET Blocks, next : Blocks]
      BY <1>3 DEF Types
    <3>2. pool[e][signal.side].busy \ {signal.block} \in SUBSET Blocks
      BY <3>1, Zenon
    <3> QED
      BY <3>1, <3>2, Zenon DEF Deallocated
  <2> QED
    BY <1>3, <1>4, <2>1, Zenon DEF Types
<1>8. orders' \in [Pairs \X Sides -> [live : BOOLEAN, price : QuotedPrices]]
  <2>1. orders' \in {orders, Arbitrage(orders, prices', 1, 2), Arbitrage(orders, prices', 2, 1)}
    BY <1>4, Zenon DEF LaunchPayload
  <2>2. 1 \in Exchanges /\ 2 \in Exchanges
    BY Zenon DEF Exchanges
  <2>3. orders \in [Pairs \X Sides -> [live : BOOLEAN, price : QuotedPrices]]
    BY Zenon DEF Types
  <2>4. Arbitrage(orders, prices', 1, 2) \in [Pairs \X Sides -> [live : BOOLEAN, price : QuotedPrices]]
    BY <1>6, <2>2, <2>3, LaunchType, Zenon
  <2>5. Arbitrage(orders, prices', 2, 1) \in [Pairs \X Sides -> [live : BOOLEAN, price : QuotedPrices]]
    BY <1>6, <2>2, <2>3, LaunchType, Zenon
  <2> QED
    BY <2>1, <2>3, <2>4, <2>5, Zenon
<1> QED
  BY <1>2, <1>4, <1>5, <1>6, <1>7, <1>8, Zenon DEF Types, signal

-----------------------------------------------------------------------------
(* A side that neither the book nor the channel touches stays mirrored.    *)
LEMMA MirrorUntouched ==
  ASSUME NEW e \in Exchanges, NEW s \in Sides, Mirrored(e, s),
         queue'[e] = queue[e], prices'[e][s] = prices[e][s], bbo'[e][s] = bbo[e][s]
  PROVE  Mirrored(e, s)'
  BY Zenon DEF Mirrored, NoneWaits, LastIs

(* A signal appended about one side: that side is mirrored by it, and the  *)
(* other side as before.                                                   *)
LEMMA MirrorAppend ==
  ASSUME NEW e \in Exchanges, NEW s \in Sides, NEW t \in Sides,
         queue[e] \in Seq(Signal), NEW signal \in Signal, signal.side = s,
         queue'[e] = Append(queue[e], signal), prices'[e][t] = prices[e][t],
         t = s => signal.price = bbo'[e][s],
         t # s => bbo'[e][t] = bbo[e][t] /\ Mirrored(e, t)
  PROVE  Mirrored(e, t)'
<1> DEFINE q == queue[e]
           r == queue'[e]
<1>1. Len(q) \in Nat /\ Len(r) = Len(q) + 1
  OBVIOUS
<1>2. \A n \in 1 .. Len(q) : r[n] = q[n]
  OBVIOUS
<1>3. r[Len(q) + 1] = signal
  OBVIOUS
<1> HIDE DEF q, r
<1>4. CASE t = s
  <2>1. PICK last \in Nat : last = Len(q) + 1
    BY <1>1
  <2>2. last \in 1 .. Len(r) /\ r[last] = signal
    BY <1>1, <1>3, <2>1
  <2>3. \A m \in 1 .. Len(r) : ~(m > last)
    BY <1>1, <2>1
  <2>4. LastIs(e, t, last)'
    BY <1>4, <2>2, <2>3, Zenon DEF LastIs, r
  <2> QED
    BY <1>4, <2>2, <2>4, Zenon DEF Mirrored, r
<1>5. CASE t # s
  <2>1. CASE prices[e][t] = bbo[e][t] /\ NoneWaits(e, t)
    <3>1. \A n \in 1 .. Len(r) : r[n].side # t
      BY <1>1, <1>2, <1>3, <1>5, <2>1 DEF NoneWaits, q
    <3> QED
      BY <1>5, <2>1, <3>1, Zenon DEF Mirrored, NoneWaits, r
  <2>2. ASSUME NEW n \in 1 .. Len(q), LastIs(e, t, n), q[n].price = bbo[e][t]
        PROVE  Mirrored(e, t)'
    <3>1. n \in 1 .. Len(r) /\ r[n] = q[n]
      BY <1>1, <1>2
    <3>2. r[n].side = t /\ \A m \in 1 .. Len(r) : m > n => r[m].side # t
      BY <1>1, <1>2, <1>3, <1>5, <2>2, <3>1 DEF LastIs, q
    <3>3. LastIs(e, t, n)'
      BY <3>2, Zenon DEF LastIs, r
    <3> QED
      BY <1>5, <2>2, <3>1, <3>3, Zenon DEF Mirrored, r
  <2> QED
    BY <1>5, <2>1, <2>2, Zenon DEF Mirrored, q
<1> QED
  BY <1>4, <1>5, Zenon

(* The engine takes the first signal.                                      *)
LEMMA MirrorTail ==
  ASSUME NEW e \in Exchanges, NEW t \in Sides, Mirrored(e, t),
         queue[e] \in Seq(Signal), queue[e] # << >>,
         queue'[e] = Tail(queue[e]), bbo'[e][t] = bbo[e][t],
         prices'[e][t] = IF Head(queue[e]).side = t THEN Head(queue[e]).price ELSE prices[e][t]
  PROVE  Mirrored(e, t)'
<1> DEFINE q == queue[e]
           r == queue'[e]
<1>1. Len(q) \in Nat /\ Len(q) > 0 /\ Len(r) = Len(q) - 1
  OBVIOUS
<1>2. \A n \in 1 .. Len(r) : r[n] = q[n + 1]
  OBVIOUS
<1>3. Head(q) = q[1]
  OBVIOUS
<1>4. prices'[e][t] = IF q[1].side = t THEN q[1].price ELSE prices[e][t]
  BY <1>3, Zenon
<1> HIDE DEF q, r
<1>5. CASE prices[e][t] = bbo[e][t] /\ NoneWaits(e, t)
  <2>1. \A n \in 1 .. Len(q) : q[n].side # t
    BY <1>5, Zenon DEF NoneWaits, q
  <2>2. \A n \in 1 .. Len(r) : r[n].side # t
    BY <1>1, <1>2, <2>1
  <2>3. prices'[e][t] = bbo'[e][t]
    BY <1>1, <1>4, <1>5, <2>1
  <2> QED
    BY <2>2, <2>3, Zenon DEF Mirrored, NoneWaits, r
<1>6. ASSUME NEW n \in 1 .. Len(q), LastIs(e, t, n), q[n].price = bbo[e][t]
      PROVE  Mirrored(e, t)'
  <2>1. q[n].side = t /\ \A m \in 1 .. Len(q) : m > n => q[m].side # t
    BY <1>6, Zenon DEF LastIs, q
  <2>2. CASE n = 1
    <3>1. \A m \in 1 .. Len(r) : r[m].side # t
      BY <1>1, <1>2, <2>1, <2>2
    <3>2. prices'[e][t] = bbo'[e][t]
      BY <1>4, <1>6, <2>1, <2>2, Zenon
    <3> QED
      BY <3>1, <3>2, Zenon DEF Mirrored, NoneWaits, r
  <2>3. CASE n > 1
    <3>1. n - 1 \in 1 .. Len(r) /\ r[n - 1] = q[n]
      BY <1>1, <1>2, <2>3
    <3>2. \A m \in 1 .. Len(r) : m > n - 1 => r[m].side # t
      <4> SUFFICES ASSUME NEW m \in 1 .. Len(r), m > n - 1 PROVE r[m].side # t
        OBVIOUS
      <4>1. m + 1 \in 1 .. Len(q) /\ m + 1 > n
        BY <1>1
      <4>2. r[m] = q[m + 1]
        BY <1>2, Zenon
      <4> QED
        BY <2>1, <4>1, <4>2, Zenon
    <3>3. LastIs(e, t, n - 1)'
      BY <2>1, <3>1, <3>2, Zenon DEF LastIs, r
    <3> QED
      BY <1>6, <3>1, <3>3, Zenon DEF Mirrored, r
  <2> QED
    BY <2>2, <2>3
<1> QED
  BY <1>5, <1>6, Zenon DEF Mirrored, q

(* What an update that reaches the best level does.                        *)
LEMMA UpdateEffect ==
  ASSUME Types, NEW e \in Exchanges, NEW s \in Sides, NEW p \in Prices, NEW add \in BOOLEAN,
         OnMarketUpdate(e, s, p, add), WillBeUpdated(e, s, p)
  PROVE  /\ \A f \in Exchanges, t \in Sides : <<f, t>> # <<e, s>> => bbo'[f][t] = bbo[f][t]
         /\ prices' = prices
         /\ \/ queue' = queue /\ lost' = lost \cup {<<e, s>>}
            \/ /\ lost' = lost \ {<<e, s>>}
               /\ queue' = [queue EXCEPT ![e] = Append(@,
                    [side |-> s, price |-> bbo'[e][s], block |-> pool[e][s].next])]
         /\ [side |-> s, price |-> bbo'[e][s], block |-> pool[e][s].next] \in Signal
<1>1. /\ bbo' = [bbo EXCEPT ![e][s] = Best(s, {q \in Prices : Changed(e, s, p, add)[q] = s})]
      /\ updateBBO(e, s) /\ prices' = prices
  BY Zenon DEF OnMarketUpdate
<1>2. \A f \in Exchanges, t \in Sides : <<f, t>> # <<e, s>> => bbo'[f][t] = bbo[f][t]
  BY <1>1, Zenon DEF Types
<1>3. Types'
  BY UpdateTypes, Zenon
<1>4. [side |-> s, price |-> bbo'[e][s], block |-> pool[e][s].next] \in Signal
  <2>1. bbo'[e][s] \in QuotedPrices
    BY <1>3 DEF Types
  <2>2. pool[e][s].next \in Blocks
    BY DEF Types
  <2> QED
    BY <2>1, <2>2, Zenon DEF Signal
<1>5. \/ queue' = queue /\ lost' = lost \cup {<<e, s>>}
      \/ /\ lost' = lost \ {<<e, s>>}
         /\ queue' = [queue EXCEPT ![e] = Append(@,
              [side |-> s, price |-> bbo'[e][s], block |-> pool[e][s].next])]
  BY <1>1, Zenon DEF updateBBO, Enqueued
<1> QED
  BY <1>1, <1>2, <1>4, <1>5, Zenon

(* A market update keeps the strategy and its channel in step with bbo_.   *)
LEMMA MirrorUpdate ==
  ASSUME Types, SignalsMirrorBBO,
         NEW e \in Exchanges, NEW s \in Sides, NEW p \in Prices, NEW add \in BOOLEAN,
         OnMarketUpdate(e, s, p, add)
  PROVE  SignalsMirrorBBO'
<1> SUFFICES ASSUME NEW f \in Exchanges, NEW t \in Sides, <<f, t>> \notin lost'
             PROVE  Mirrored(f, t)'
  BY Zenon DEF SignalsMirrorBBO
<1>1. <<f, t>> # <<e, s>> => Mirrored(f, t)
  <2>1. <<f, t>> # <<e, s>> => <<f, t>> \notin lost
    <3>1. CASE WillBeUpdated(e, s, p)
      <4>1. lost' = lost \ {<<e, s>>} \/ lost' = lost \cup {<<e, s>>}
        BY <3>1, Zenon DEF OnMarketUpdate, updateBBO
      <4> QED
        BY <4>1, Zenon
    <3>2. CASE ~WillBeUpdated(e, s, p)
      BY <3>2, Zenon DEF OnMarketUpdate
    <3> QED
      BY <3>1, <3>2, Zenon
  <2> QED
    BY <2>1, Zenon DEF SignalsMirrorBBO
<1>2. CASE ~WillBeUpdated(e, s, p)
  <2>1. UNCHANGED <<bbo, queue, lost, prices>>
    BY <1>2, Zenon DEF OnMarketUpdate
  <2>2. Mirrored(f, t)
    BY <2>1, Zenon DEF SignalsMirrorBBO
  <2> QED
    BY <2>1, <2>2, MirrorUntouched, Zenon
<1>3. CASE WillBeUpdated(e, s, p)
  <2> DEFINE signal == [side |-> s, price |-> bbo'[e][s], block |-> pool[e][s].next]
  <2>1. /\ \A g \in Exchanges, u \in Sides : <<g, u>> # <<e, s>> => bbo'[g][u] = bbo[g][u]
        /\ prices' = prices /\ signal \in Signal
        /\ \/ queue' = queue /\ lost' = lost \cup {<<e, s>>}
           \/ /\ lost' = lost \ {<<e, s>>}
              /\ queue' = [queue EXCEPT ![e] = Append(@, signal)]
    BY <1>3, UpdateEffect
  <2>2. signal.side = s /\ signal.price = bbo'[e][s]
    OBVIOUS
  <2> HIDE DEF signal
  <2>3. CASE queue' = queue /\ lost' = lost \cup {<<e, s>>}
    BY <1>1, <2>1, <2>3, MirrorUntouched, Zenon
  <2>4. CASE queue' = [queue EXCEPT ![e] = Append(@, signal)]
    <3>1. queue \in [Exchanges -> Seq(Signal)]
      BY Zenon DEF Types
    <3>2. CASE f = e
      <4>1. queue'[e] = Append(queue[e], signal) /\ queue[e] \in Seq(Signal)
        BY <2>4, <3>1, Zenon
      <4>2. t # s => bbo'[e][t] = bbo[e][t] /\ Mirrored(e, t)
        BY <1>1, <2>1, <3>2, Zenon
      <4> QED
        BY <2>1, <2>2, <3>2, <4>1, <4>2, MirrorAppend
    <3>3. CASE f # e
      <4>1. queue'[f] = queue[f]
        BY <2>4, <3>1, <3>3, Zenon
      <4> QED
        BY <1>1, <2>1, <3>3, <4>1, MirrorUntouched, Zenon
    <3> QED
      BY <3>2, <3>3, Zenon
  <2> QED
    BY <2>1, <2>3, <2>4, Zenon
<1> QED
  BY <1>2, <1>3, Zenon

(* So does the engine.                                                     *)
LEMMA MirrorSignal ==
  ASSUME Types, SignalsMirrorBBO, NEW e \in Exchanges, OnNewSignal(e)
  PROVE  SignalsMirrorBBO'
<1> SUFFICES ASSUME NEW f \in Exchanges, NEW t \in Sides, <<f, t>> \notin lost'
             PROVE  Mirrored(f, t)'
  BY Zenon DEF SignalsMirrorBBO
<1> DEFINE signal == Head(queue[e])
<1>1. /\ queue[e] # << >> /\ queue' = [queue EXCEPT ![e] = Tail(@)]
      /\ prices' = [prices EXCEPT ![e][signal.side] = signal.price]
      /\ bbo' = bbo /\ lost' = lost
  BY Zenon DEF OnNewSignal
<1>2. Mirrored(f, t)
  BY <1>1, Zenon DEF SignalsMirrorBBO
<1>3. signal \in Signal
  BY SignalTypes, Zenon
<1>4. signal.side \in Sides
  BY <1>3, Zenon DEF Signal
<1>5. queue \in [Exchanges -> Seq(Signal)] /\ prices \in [Exchanges -> [Sides -> QuotedPrices]]
  BY Zenon DEF Types
<1>6. CASE f = e
  <2>1. queue'[e] = Tail(queue[e]) /\ queue[e] \in Seq(Signal)
    BY <1>1, <1>5, Zenon
  <2>2. prices'[e][t] = IF signal.side = t THEN signal.price ELSE prices[e][t]
    BY <1>1, <1>4, <1>5, Zenon
  <2> QED
    BY <1>1, <1>2, <1>6, <2>1, <2>2, MirrorTail, Zenon
<1>7. CASE f # e
  <2>1. queue'[f] = queue[f] /\ prices'[f][t] = prices[f][t]
    BY <1>1, <1>4, <1>5, <1>7, Zenon
  <2> QED
    BY <1>1, <1>2, <2>1, MirrorUntouched, Zenon
<1> QED
  BY <1>6, <1>7, Zenon

(* CLEAR touches nothing that the strategy has been told.                  *)
LEMMA ClearSteps ==
  ASSUME Types, NEW e \in Exchanges, ClearOrderBook(e)
  PROVE  /\ Types' /\ (SignalsMirrorBBO => SignalsMirrorBBO')
         /\ UNCHANGED <<queue, pool, orders, exited>>
<1>1. UNCHANGED <<bbo, pool, queue, prices, orders, lost, exited>>
  BY Zenon DEF ClearOrderBook
<1>2. book' \in [Exchanges -> [Prices -> Sides \cup {"none"}]]
  BY Zenon DEF ClearOrderBook, Types
<1>3. Types'
  BY <1>1, <1>2, Zenon DEF Types
<1> QED
  BY <1>1, <1>3 DEF SignalsMirrorBBO, Mirrored, NoneWaits, LastIs

(* The start.                                                              *)
LEMMA InitSteps ==
  ASSUME Init
  PROVE  Types /\ SignalsMirrorBBO
<1>1. NoBBO \in [Sides -> QuotedPrices]
  BY Zenon DEF NoBBO, QuotedPrices
<1>2. 0 \in Blocks
  BY PoolAssumption DEF Blocks
<1>3. PriceInvalid \in QuotedPrices
  BY Zenon DEF QuotedPrices
<1>4. Types
  BY <1>1, <1>2, <1>3 DEF Init, Types
<1>5. SignalsMirrorBBO
  BY DEF Init, SignalsMirrorBBO, Mirrored, NoneWaits
<1> QED
  BY <1>4, <1>5, Zenon

(* prices_ and the channel together are bbo_, for any interleaving of the  *)
(* two books and the engine.                                               *)
THEOREM StrategyMirrorsBooks == Spec => []SignalsMirrorBBO
<1> DEFINE Inv == Types /\ SignalsMirrorBBO
<1>1. Init => Inv
  BY InitSteps, Zenon
<1>2. Inv /\ [Next]_vars => Inv'
  <2> SUFFICES ASSUME Inv, [Next]_vars PROVE Inv'
    OBVIOUS
  <2>1. ASSUME NEW e \in Exchanges, NEW s \in Sides, NEW p \in Prices, NEW add \in BOOLEAN,
               OnMarketUpdate(e, s, p, add)
        PROVE  Inv'
    BY <2>1, UpdateTypes, MirrorUpdate, Zenon
  <2>2. ASSUME NEW e \in Exchanges, ClearOrderBook(e) PROVE Inv'
    BY <2>2, ClearSteps, Zenon
  <2>3. ASSUME NEW e \in Exchanges, OnNewSignal(e) PROVE Inv'
    BY <2>3, SignalTypes, MirrorSignal, Zenon
  <2>4. CASE UNCHANGED vars
    BY <2>4 DEF vars, bookVars, Types, SignalsMirrorBBO, Mirrored, NoneWaits, LastIs
  <2> QED
    BY <2>1, <2>2, <2>3, <2>4, Zenon DEF Next
<1>3. Inv => SignalsMirrorBBO
  OBVIOUS
<1> QED
  BY <1>1, <1>2, <1>3, PTL DEF Spec

-----------------------------------------------------------------------------
(* A book takes the block that its pool has as the next one, and finds     *)
(* another unless that was the last.                                       *)
LEMMA BlocksUpdate ==
  ASSUME Types, WaitingSignalsOwnBlocks,
         NEW e \in Exchanges, NEW s \in Sides, NEW p \in Prices, NEW add \in BOOLEAN,
         OnMarketUpdate(e, s, p, add)
  PROVE  WaitingSignalsOwnBlocks'
<1>1. CASE ~WillBeUpdated(e, s, p)
  BY <1>1 DEF OnMarketUpdate, WaitingSignalsOwnBlocks
<1>2. CASE WillBeUpdated(e, s, p)
  <2> DEFINE block == pool[e][s].next
             busy == pool[e][s].busy \cup {block}
             signal == [side |-> s, price |-> bbo'[e][s], block |-> block]
  <2>1. updateBBO(e, s) /\ ~exited
    BY <1>2, Zenon DEF OnMarketUpdate, Running
  <2>2. PICK next \in Blocks :
          /\ IsNextFree(busy, block, next)
          /\ pool' = [pool EXCEPT ![e][s] = [busy |-> busy, next |-> next]]
    BY <2>1, Zenon DEF updateBBO
  <2>3. block \notin pool[e][s].busy
    BY <2>1, Zenon DEF WaitingSignalsOwnBlocks
  <2>4. busy # Blocks => next \notin busy
    BY <2>2, Zenon DEF IsNextFree
  <2>5. busy = Blocks => exited'
    BY <2>1, Zenon DEF updateBBO
  <2>6. queue' = queue \/ queue' = [queue EXCEPT ![e] = Append(@, signal)]
    BY <2>1, Zenon DEF updateBBO, Enqueued
  <2>7. /\ pool'[e][s].busy = busy /\ pool'[e][s].next = next
        /\ \A f \in Exchanges, t \in Sides : f # e \/ t # s => pool'[f][t] = pool[f][t]
    BY <2>2, Zenon DEF Types
  <2>8. /\ signal.side = s /\ signal.block = block /\ signal \in Signal
        /\ pool[e][s].busy \subseteq busy /\ block \in busy
    BY <1>2, UpdateEffect, Zenon
  <2>9. queue \in [Exchanges -> Seq(Signal)]
    BY Zenon DEF Types
  <2> HIDE DEF block, busy, signal
  <2>10. ASSUME NEW f \in Exchanges, NEW n \in 1 .. Len(queue[f])
         PROVE  /\ queue[f][n].side \in Sides /\ queue[f][n].block \in pool[f][queue[f][n].side].busy
                /\ pool[f][queue[f][n].side].busy \subseteq pool'[f][queue[f][n].side].busy
    <3>1. queue[f][n] \in Signal
      BY <2>9
    <3>2. queue[f][n].side \in Sides
      BY <3>1, Zenon DEF Signal
    <3>3. queue[f][n].block \in pool[f][queue[f][n].side].busy
      BY Zenon DEF WaitingSignalsOwnBlocks
    <3>4. \A t \in Sides : pool[f][t].busy \subseteq pool'[f][t].busy
      <4> SUFFICES ASSUME NEW t \in Sides
                   PROVE  pool[f][t].busy \subseteq pool'[f][t].busy
        OBVIOUS
      <4>1. CASE f = e /\ t = s
        BY <2>7, <2>8, <4>1, Zenon
      <4>2. CASE f # e \/ t # s
        BY <2>7, <4>2, Zenon
      <4> QED
        BY <4>1, <4>2, Zenon
    <3> QED
      BY <3>2, <3>3, <3>4, Zenon
  <2> SUFFICES ASSUME NEW f \in Exchanges
               PROVE
                 /\ \A n \in 1 .. Len(queue'[f]) :
                      queue'[f][n].block \in pool'[f][queue'[f][n].side].busy
                 /\ \A m, n \in 1 .. Len(queue'[f]) :
                      m # n /\ queue'[f][m].side = queue'[f][n].side
                        => queue'[f][m].block # queue'[f][n].block
                 /\ \A t \in Sides : ~exited' => pool'[f][t].next \notin pool'[f][t].busy
    BY Zenon DEF WaitingSignalsOwnBlocks
  <2>11. \A t \in Sides : ~exited' => pool'[f][t].next \notin pool'[f][t].busy
    BY <2>1, <2>4, <2>5, <2>7 DEF WaitingSignalsOwnBlocks
  <2>12. CASE queue'[f] = queue[f]
    <3>1. \A n \in 1 .. Len(queue'[f]) : queue'[f][n].block \in pool'[f][queue'[f][n].side].busy
      BY <2>10, <2>12, Zenon
    <3>2. \A m, n \in 1 .. Len(queue'[f]) :
            m # n /\ queue'[f][m].side = queue'[f][n].side => queue'[f][m].block # queue'[f][n].block
      BY <2>12 DEF WaitingSignalsOwnBlocks
    <3> QED
      BY <2>11, <3>1, <3>2, Zenon
  <2>13. CASE f = e /\ queue' = [queue EXCEPT ![e] = Append(@, signal)]
    <3>1. queue'[e] = Append(queue[e], signal) /\ queue[e] \in Seq(Signal)
      BY <2>9, <2>13, Zenon
    <3>2. /\ Len(queue'[e]) = Len(queue[e]) + 1 /\ Len(queue[e]) \in Nat
          /\ queue'[e][Len(queue[e]) + 1] = signal
          /\ \A n \in 1 .. Len(queue[e]) : queue'[e][n] = queue[e][n]
      BY <2>8, <3>1
    <3>3. PICK last \in Nat : last = Len(queue[e]) + 1
      BY <3>2
    <3>4. \A n \in 1 .. Len(queue'[e]) : n = last \/ n \in 1 .. Len(queue[e])
      BY <3>2, <3>3
    <3>5. queue'[e][last] = signal
      BY <3>2, <3>3, Zenon
    <3>6. \A n \in 1 .. Len(queue'[e]) : queue'[e][n].block \in pool'[e][queue'[e][n].side].busy
      BY <2>7, <2>8, <2>10, <3>2, <3>4, <3>5, Zenon
    <3>7. \A n \in 1 .. Len(queue[e]) : queue[e][n].side = s => queue[e][n].block # block
      BY <2>3, <2>10, Zenon
    <3>8. ASSUME NEW m \in 1 .. Len(queue'[e]), NEW n \in 1 .. Len(queue'[e]),
                 m # n, queue'[e][m].side = queue'[e][n].side
          PROVE  queue'[e][m].block # queue'[e][n].block
      <4>1. CASE m = last
        BY <2>8, <3>2, <3>4, <3>5, <3>7, <3>8, <4>1, Zenon
      <4>2. CASE n = last
        BY <2>8, <3>2, <3>4, <3>5, <3>7, <3>8, <4>2, Zenon
      <4>3. CASE m # last /\ n # last
        BY <3>2, <3>4, <3>8, <4>3 DEF WaitingSignalsOwnBlocks
      <4> QED
        BY <4>1, <4>2, <4>3, Zenon
    <3> QED
      BY <2>11, <2>13, <3>6, <3>8
  <2>14. queue'[f] = queue[f] \/ (f = e /\ queue' = [queue EXCEPT ![e] = Append(@, signal)])
    BY <2>6, <2>9, Zenon
  <2> QED
    BY <2>12, <2>13, <2>14, Zenon
<1> QED
  BY <1>1, <1>2, Zenon

(* The engine gives a block back when its signal leaves the channel.       *)
LEMMA BlocksSignal ==
  ASSUME Types, WaitingSignalsOwnBlocks, NEW e \in Exchanges, OnNewSignal(e)
  PROVE  WaitingSignalsOwnBlocks'
<1> DEFINE signal == Head(queue[e])
<1>1. /\ queue[e] # << >> /\ queue' = [queue EXCEPT ![e] = Tail(@)]
      /\ pool' = [pool EXCEPT ![e][signal.side] = Deallocated(@, signal.block)]
      /\ exited' = exited
  BY Zenon DEF OnNewSignal
<1>2. signal \in Signal
  BY SignalTypes, Zenon
<1>3. signal.side \in Sides
  BY <1>2, Zenon DEF Signal
<1>4. queue \in [Exchanges -> Seq(Signal)] /\ queue[e] \in Seq(Signal)
  BY Zenon DEF Types
<1>5. /\ signal = queue[e][1]
      /\ queue'[e] = Tail(queue[e])
      /\ \A f \in Exchanges : f # e => queue'[f] = queue[f]
      /\ Len(queue'[e]) = Len(queue[e]) - 1 /\ Len(queue[e]) \in Nat \ {0}
  BY <1>1, <1>4
<1>6. \A n \in 1 .. Len(queue'[e]) :
        queue'[e][n] = queue[e][n + 1] /\ n + 1 \in 1 .. Len(queue[e]) /\ n + 1 # 1
  BY <1>4, <1>5
<1> HIDE DEF signal
<1>7. /\ \A f \in Exchanges, t \in Sides : f # e \/ t # signal.side => pool'[f][t] = pool[f][t]
      /\ pool'[e][signal.side].busy = pool[e][signal.side].busy \ {signal.block}
      /\ pool'[e][signal.side].next = pool[e][signal.side].next
  <2>1. pool[e][signal.side] \in [busy : SUBSET Blocks, next : Blocks]
    BY <1>3 DEF Types
  <2>2. /\ pool'[e][signal.side] = Deallocated(pool[e][signal.side], signal.block)
        /\ \A f \in Exchanges, t \in Sides : f # e \/ t # signal.side => pool'[f][t] = pool[f][t]
    BY <1>1, <1>3, Zenon DEF Types
  <2> QED
    BY <2>1, <2>2, Zenon DEF Deallocated
<1>8. ASSUME NEW f \in Exchanges, NEW t \in Sides
      PROVE  pool'[f][t].next = pool[f][t].next /\ pool'[f][t].busy \subseteq pool[f][t].busy
  BY <1>3, <1>7, Zenon
<1> SUFFICES ASSUME NEW f \in Exchanges
             PROVE
               /\ \A n \in 1 .. Len(queue'[f]) :
                    queue'[f][n].block \in pool'[f][queue'[f][n].side].busy
               /\ \A m, n \in 1 .. Len(queue'[f]) :
                    m # n /\ queue'[f][m].side = queue'[f][n].side
                      => queue'[f][m].block # queue'[f][n].block
               /\ \A t \in Sides : ~exited' => pool'[f][t].next \notin pool'[f][t].busy
  BY Zenon DEF WaitingSignalsOwnBlocks
<1>9. \A t \in Sides : ~exited' => pool'[f][t].next \notin pool'[f][t].busy
  BY <1>1, <1>8 DEF WaitingSignalsOwnBlocks
<1>10. \A n \in 1 .. Len(queue[f]) : queue[f][n] \in Signal
  BY <1>4
<1>11. \A n \in 1 .. Len(queue[f]) : queue[f][n].side \in Sides
  BY <1>10, Zenon DEF Signal
<1>12. CASE f # e
  <2>1. queue'[f] = queue[f]
    BY <1>5, <1>12, Zenon
  <2>2. \A n \in 1 .. Len(queue'[f]) : queue'[f][n].block \in pool'[f][queue'[f][n].side].busy
    BY <1>7, <1>11, <1>12, <2>1 DEF WaitingSignalsOwnBlocks
  <2>3. \A m, n \in 1 .. Len(queue'[f]) :
          m # n /\ queue'[f][m].side = queue'[f][n].side => queue'[f][m].block # queue'[f][n].block
    BY <2>1 DEF WaitingSignalsOwnBlocks
  <2> QED
    BY <1>9, <2>2, <2>3, Zenon
<1>13. CASE f = e
  <2>1. 1 \in 1 .. Len(queue[e])
    BY <1>5
  <2>2. ASSUME NEW n \in 1 .. Len(queue[e]), n # 1
        PROVE  queue[e][n].block \in pool'[e][queue[e][n].side].busy
    <3>1. queue[e][n].block \in pool[e][queue[e][n].side].busy /\ queue[e][n].side \in Sides
      BY <1>11, <1>13, Zenon DEF WaitingSignalsOwnBlocks
    <3>2. queue[e][n].side = signal.side => queue[e][n].block # signal.block
      BY <1>5, <2>1, <2>2 DEF WaitingSignalsOwnBlocks
    <3> QED
      BY <1>7, <3>1, <3>2, Zenon
  <2>3. \A n \in 1 .. Len(queue'[e]) : queue'[e][n].block \in pool'[e][queue'[e][n].side].busy
    BY <1>6, <2>2, Zenon
  <2>4. ASSUME NEW m \in 1 .. Len(queue'[e]), NEW n \in 1 .. Len(queue'[e]),
               m # n, queue'[e][m].side = queue'[e][n].side
        PROVE  queue'[e][m].block # queue'[e][n].block
    <3>1. PICK k \in 1 .. Len(queue[e]), l \in 1 .. Len(queue[e]) : k = m + 1 /\ l = n + 1
      BY <1>6, Zenon
    <3>2. k # l /\ queue'[e][m] = queue[e][k] /\ queue'[e][n] = queue[e][l]
      BY <1>6, <2>4, <3>1
    <3> QED
      BY <2>4, <3>2 DEF WaitingSignalsOwnBlocks
  <2> QED
    BY <1>9, <1>13, <2>3, <2>4
<1> QED
  BY <1>12, <1>13, Zenon

(* No block is handed to a second signal while the first one waits.        *)
THEOREM BlocksAreOwned == Spec => []WaitingSignalsOwnBlocks
<1> DEFINE Inv == Types /\ WaitingSignalsOwnBlocks
<1>1. Init => Inv
  <2> SUFFICES ASSUME Init PROVE Inv
    OBVIOUS
  <2>1. \A e \in Exchanges, s \in Sides : queue[e] = << >> /\ pool[e][s].busy = {}
    BY Zenon DEF Init
  <2>2. ASSUME NEW e \in Exchanges, NEW n \in 1 .. Len(queue[e]) PROVE FALSE
    <3>1. queue[e] = << >>
      BY Zenon DEF Init
    <3> QED
      BY <3>1
  <2> QED
    BY <2>1, <2>2, InitSteps, Zenon DEF WaitingSignalsOwnBlocks
<1>2. Inv /\ [Next]_vars => Inv'
  <2> SUFFICES ASSUME Inv, [Next]_vars PROVE Inv'
    OBVIOUS
  <2>1. ASSUME NEW e \in Exchanges, NEW s \in Sides, NEW p \in Prices, NEW add \in BOOLEAN,
               OnMarketUpdate(e, s, p, add)
        PROVE  Inv'
    BY <2>1, UpdateTypes, BlocksUpdate
  <2>2. ASSUME NEW e \in Exchanges, ClearOrderBook(e) PROVE Inv'
    BY <2>2, ClearSteps DEF WaitingSignalsOwnBlocks
  <2>3. ASSUME NEW e \in Exchanges, OnNewSignal(e) PROVE Inv'
    BY <2>3, SignalTypes, BlocksSignal
  <2>4. CASE UNCHANGED vars
    BY <2>4 DEF vars, bookVars, Types, WaitingSignalsOwnBlocks
  <2> QED
    BY <2>1, <2>2, <2>3, <2>4 DEF Next
<1>3. Inv => WaitingSignalsOwnBlocks
  OBVIOUS
<1> QED
  BY <1>1, <1>2, <1>3, PTL DEF Spec

-----------------------------------------------------------------------------
(* A leg stands alone only where the pair of the other has no clip.        *)
HedgedSlots(slots) ==
  \A i \in Exchanges :
    /\ slots[<<WorkingPair[i], "kAsk">>].live /\ WorkingPair[3 - i] \in configured
         => slots[<<WorkingPair[3 - i], "kBid">>].live
    /\ slots[<<WorkingPair[3 - i], "kBid">>].live /\ WorkingPair[i] \in configured
         => slots[<<WorkingPair[i], "kAsk">>].live

(* after is slots, with the order of pair live as well if it has a clip.   *)
Opens(slots, after, pair, side) ==
  /\ DOMAIN after = Pairs \X Sides
  /\ IF pair \in configured THEN after[<<pair, side>>].live
                             ELSE after[<<pair, side>>].live = slots[<<pair, side>>].live
  /\ \A q \in Pairs \X Sides : q # <<pair, side>> => after[q].live = slots[q].live

(* NewOrder makes its slot live, whoever opened it, and touches no other.  *)
LEMMA NewOrderOpens ==
  ASSUME NEW slots, DOMAIN slots = Pairs \X Sides,
         NEW pair \in Pairs, pair \in configured, NEW side \in Sides, NEW price
  PROVE  Opens(slots, NewOrder(slots, pair, side, price), pair, side)
<1>1. <<pair, side>> \in Pairs \X Sides
  OBVIOUS
<1>2. CASE slots[<<pair, side>>].live
  BY <1>2, Zenon DEF NewOrder, Opens
<1>3. CASE ~slots[<<pair, side>>].live
  <2> DEFINE opened == [slots EXCEPT ![<<pair, side>>] = [live |-> TRUE, price |-> price]]
  <2>1. NewOrder(slots, pair, side, price) = opened
    BY <1>3, Zenon DEF NewOrder
  <2>2. /\ DOMAIN opened = Pairs \X Sides
        /\ opened[<<pair, side>>] = [live |-> TRUE, price |-> price]
        /\ \A o \in Pairs \X Sides : o # <<pair, side>> => opened[o] = slots[o]
    BY <1>1, Zenon
  <2> HIDE DEF opened
  <2>3. opened[<<pair, side>>].live
    BY <2>2
  <2> QED
    BY <2>1, <2>2, <2>3, Zenon DEF Opens
<1> QED
  BY <1>2, <1>3, Zenon

(* BuySomeAsset and SellSomeAsset open their slot if the pair has a clip.  *)
LEMMA LegOpens ==
  ASSUME NEW slots, DOMAIN slots = Pairs \X Sides, NEW quotes, NEW i \in Exchanges
  PROVE  /\ quotes[i]["kAsk"] # PriceInvalid
              => Opens(slots, BuySomeAsset(slots, quotes, i), WorkingPair[i], "kAsk")
         /\ quotes[i]["kBid"] # PriceInvalid
              => Opens(slots, SellSomeAsset(slots, quotes, i), WorkingPair[i], "kBid")
<1>1. WorkingPair[i] \in Pairs /\ "kAsk" \in Sides /\ "kBid" \in Sides
  BY PairsAssumption DEF Exchanges, Sides
<1>2. CASE WorkingPair[i] \in configured
  <2>1. Opens(slots, NewOrder(slots, WorkingPair[i], "kAsk", quotes[i]["kAsk"]), WorkingPair[i], "kAsk")
    BY <1>1, <1>2, NewOrderOpens, Zenon
  <2>2. Opens(slots, NewOrder(slots, WorkingPair[i], "kBid", quotes[i]["kBid"]), WorkingPair[i], "kBid")
    BY <1>1, <1>2, NewOrderOpens, Zenon
  <2> QED
    BY <1>2, <2>1, <2>2, Zenon DEF BuySomeAsset, SellSomeAsset
<1>3. CASE WorkingPair[i] \notin configured
  BY <1>1, <1>3, Zenon DEF Opens, BuySomeAsset, SellSomeAsset
<1> QED
  BY <1>2, <1>3, Zenon

(* Two orders make a pair of legs, whether the pairs of the two exchanges  *)
(* are the same or not.                                                    *)
LEMMA ArbitrageHedges ==
  ASSUME NEW slots, DOMAIN slots = Pairs \X Sides,
         NEW quotes, NEW i \in Exchanges, HedgedSlots(slots), Worthwhile(quotes, i, 3 - i)
  PROVE  HedgedSlots(Arbitrage(slots, quotes, i, 3 - i))
<1> DEFINE j == 3 - i
           a == WorkingPair[i]
           b == WorkingPair[j]
           bought == BuySomeAsset(slots, quotes, i)
           done == Arbitrage(slots, quotes, i, j)
<1>1. j \in Exchanges /\ i = 3 - j /\ i # j /\ Exchanges = {i, j}
  BY DEF Exchanges
<1>2. a \in Pairs /\ b \in Pairs
  BY PairsAssumption DEF Exchanges
<1>3. Opens(slots, bought, a, "kAsk")
  BY LegOpens, Zenon DEF Worthwhile
<1>4. Opens(bought, done, b, "kBid")
  <2>1. DOMAIN bought = Pairs \X Sides
    BY <1>3, Zenon DEF Opens
  <2>2. done = SellSomeAsset(bought, quotes, j)
    BY Zenon DEF Arbitrage
  <2>3. quotes[j]["kBid"] # PriceInvalid
    BY Zenon DEF Worthwhile
  <2> HIDE DEF bought, done, j
  <2> QED
    BY <1>1, <2>1, <2>2, <2>3, LegOpens, Zenon DEF b
<1> HIDE DEF bought, done
<1>5. \A p \in Pairs : <<p, "kAsk">> \in Pairs \X Sides /\ <<p, "kBid">> \in Pairs \X Sides
  BY DEF Sides
<1>6. /\ IF a \in configured THEN done[<<a, "kAsk">>].live
                             ELSE done[<<a, "kAsk">>].live = slots[<<a, "kAsk">>].live
      /\ IF b \in configured THEN done[<<b, "kBid">>].live
                             ELSE done[<<b, "kBid">>].live = slots[<<b, "kBid">>].live
  BY <1>2, <1>3, <1>4, <1>5 DEF Opens
<1>7. a # b => /\ done[<<b, "kAsk">>].live = slots[<<b, "kAsk">>].live
               /\ done[<<a, "kBid">>].live = slots[<<a, "kBid">>].live
  BY <1>2, <1>3, <1>4, <1>5 DEF Opens
<1>8. /\ slots[<<a, "kAsk">>].live /\ b \in configured => slots[<<b, "kBid">>].live
      /\ slots[<<b, "kBid">>].live /\ a \in configured => slots[<<a, "kAsk">>].live
      /\ slots[<<b, "kAsk">>].live /\ a \in configured => slots[<<a, "kBid">>].live
      /\ slots[<<a, "kBid">>].live /\ b \in configured => slots[<<b, "kAsk">>].live
  BY <1>1, Zenon DEF HedgedSlots
<1> HIDE DEF a, b
<1>9. /\ done[<<a, "kAsk">>].live /\ b \in configured => done[<<b, "kBid">>].live
      /\ done[<<b, "kBid">>].live /\ a \in configured => done[<<a, "kAsk">>].live
  BY <1>6, <1>8, Zenon
<1>10. /\ done[<<b, "kAsk">>].live /\ a \in configured => done[<<a, "kBid">>].live
       /\ done[<<a, "kBid">>].live /\ b \in configured => done[<<b, "kAsk">>].live
  <2>1. CASE a = b
    BY <1>9, <2>1, Zenon
  <2>2. CASE a # b
    BY <1>7, <1>8, <2>2, Zenon
  <2> QED
    BY <2>1, <2>2, Zenon
<1> QED
  BY <1>1, <1>9, <1>10, Zenon DEF HedgedSlots, a, b, done

(* LaunchPayload opens both legs or, where a pair has no clip, the one it  *)
(* can: for any prices, pairs, configuration and interleaving.             *)
THEOREM LegsAreHedged == Spec => []Hedged
<1> DEFINE Inv == Types /\ HedgedSlots(orders)
<1>1. Init => Inv
  <2> SUFFICES ASSUME Init PROVE Inv
    OBVIOUS
  <2>1. ASSUME NEW i \in Exchanges
        PROVE  WorkingPair[i] \in Pairs /\ WorkingPair[3 - i] \in Pairs
    BY PairsAssumption DEF Exchanges
  <2>2. \A o \in Pairs \X Sides : orders[o].live = FALSE
    BY Zenon DEF Init
  <2>3. HedgedSlots(orders)
    BY <2>1, <2>2, Zenon DEF HedgedSlots, Sides
  <2> QED
    BY <2>3, InitSteps, Zenon
<1>2. Inv /\ [Next]_vars => Inv'
  <2> SUFFICES ASSUME Inv, [Next]_vars PROVE Inv'
    OBVIOUS
  <2>1. ASSUME NEW e \in Exchanges, NEW s \in Sides, NEW p \in Prices, NEW add \in BOOLEAN,
               OnMarketUpdate(e, s, p, add)
        PROVE  Inv'
    BY <2>1, UpdateTypes, Zenon DEF OnMarketUpdate, HedgedSlots
  <2>2. ASSUME NEW e \in Exchanges, ClearOrderBook(e) PROVE Inv'
    BY <2>2, ClearSteps, Zenon DEF ClearOrderBook, HedgedSlots
  <2>3. ASSUME NEW e \in Exchanges, OnNewSignal(e) PROVE Inv'
    <3>1. Types'
      BY <2>3, SignalTypes, Zenon
    <3>2. orders' = LaunchPayload(orders, prices') /\ configured' = configured
      BY <2>3, Zenon DEF OnNewSignal
    <3>3. HedgedSlots(orders')
      <4>1. DOMAIN orders = Pairs \X Sides
        BY Zenon DEF Types
      <4>2. 1 \in Exchanges /\ 2 \in Exchanges /\ 3 - 1 = 2 /\ 3 - 2 = 1
        BY DEF Exchanges
      <4>3. Worthwhile(prices', 1, 2) => HedgedSlots(Arbitrage(orders, prices', 1, 2))
        BY <4>1, <4>2, ArbitrageHedges, Zenon
      <4>4. Worthwhile(prices', 2, 1) => HedgedSlots(Arbitrage(orders, prices', 2, 1))
        BY <4>1, <4>2, ArbitrageHedges, Zenon
      <4> QED
        BY <3>2, <4>3, <4>4, Zenon DEF LaunchPayload
    <3> QED
      BY <3>1, <3>2, <3>3, Zenon DEF HedgedSlots
  <2>4. CASE UNCHANGED vars
    BY <2>4, Zenon DEF vars, bookVars, Types, HedgedSlots
  <2> QED
    BY <2>1, <2>2, <2>3, <2>4, Zenon DEF Next
<1>3. Inv => Hedged
  BY Zenon DEF Hedged, Buys, Sells, HedgedSlots
<1> QED
  BY <1>1, <1>2, <1>3, PTL DEF Spec

-----------------------------------------------------------------------------
(* Best is determined by its levels: whatever is at or better than all.    *)
LEMMA BestIs ==
  ASSUME NEW s \in Sides, NEW levels \in SUBSET Prices, NEW b \in levels,
         \A q \in levels : AtOrBetter(s, b, q)
  PROVE  Best(s, levels) = b
<1> DEFINE c == CHOOSE p \in levels : \A q \in levels : AtOrBetter(s, p, q)
<1>1. c \in levels /\ \A q \in levels : AtOrBetter(s, c, q)
  OBVIOUS
<1>2. Best(s, levels) = c
  BY Zenon DEF Best
<1> HIDE DEF c
<1>3. AtOrBetter(s, c, b) /\ AtOrBetter(s, b, c)
  BY <1>1, Zenon
<1>4. b \in Nat /\ c \in Nat
  BY <1>1, PricesAssumption
<1> QED
  BY <1>2, <1>3, <1>4 DEF AtOrBetter

(* begin() of a tree that is not empty is one of its levels, and none is   *)
(* better.                                                                 *)
LEMMA BestIsBest ==
  ASSUME NEW s \in Sides, NEW levels \in SUBSET Prices, levels # {}
  PROVE  Best(s, levels) \in levels /\ \A q \in levels : AtOrBetter(s, Best(s, levels), q)
<1>1. \E p \in levels : \A q \in levels : AtOrBetter(s, p, q)
  BY PricesAssumption, Zenon DEF AtOrBetter
<1> QED
  BY <1>1, Zenon DEF Best

(* A change below the best level leaves the best level where it is: why    *)
(* OnMarketUpdate may skip updateBBO for a side it decided not to update.  *)
LEMMA BestSurvives ==
  ASSUME NEW s \in Sides, NEW old \in SUBSET Prices, NEW new \in SUBSET Prices, old # {},
         NEW p \in Prices, ~AtOrBetter(s, p, Best(s, old)),
         \A q \in Prices : q # p => (q \in new <=> q \in old)
  PROVE  Best(s, new) = Best(s, old)
<1> DEFINE b == Best(s, old)
<1>1. b \in old /\ \A q \in old : AtOrBetter(s, b, q)
  BY BestIsBest, Zenon
<1> HIDE DEF b
<1>2. b \in Nat /\ p \in Nat
  BY <1>1, PricesAssumption
<1>3. AtOrBetter(s, b, p) /\ b # p
  BY <1>2 DEF AtOrBetter, b
<1>4. b \in new
  BY <1>1, <1>3, Zenon
<1>5. \A q \in new : AtOrBetter(s, b, q)
  BY <1>1, <1>3, Zenon
<1> QED
  BY <1>4, <1>5, BestIs, Zenon DEF b

(* The levels of a book after a change: one price moves, on the side of    *)
(* the update unless the book is torn.                                     *)
LEMMA ChangedLevels ==
  ASSUME Types, NEW e \in Exchanges, NEW s \in Sides, NEW p \in Prices, NEW add \in BOOLEAN,
         OnMarketUpdate(e, s, p, add), NEW f \in Exchanges, NEW t \in Sides
  PROVE  /\ <<f, t>> # <<e, s>> /\ f \notin torn' => Levels(f, t)' = Levels(f, t)
         /\ Levels(e, s)' = {q \in Prices : Changed(e, s, p, add)[q] = s}
         /\ \A q \in Prices : q # p => (q \in Levels(e, s)' <=> q \in Levels(e, s))
<1>1. book' = [book EXCEPT ![e] = Changed(e, s, p, add)] /\ book[e] \in [Prices -> Sides \cup {"none"}]
  BY Zenon DEF OnMarketUpdate, Types
<1>2. book'[e] = Changed(e, s, p, add) /\ \A g \in Exchanges : g # e => book'[g] = book[g]
  BY <1>1, Zenon DEF Types
<1>3. \A q \in Prices : q # p => Changed(e, s, p, add)[q] = book[e][q]
  BY <1>1, Zenon DEF Changed
<1>4. Changed(e, s, p, add)[p] = IF add THEN (IF book[e][p] = "none" THEN s ELSE book[e][p]) ELSE "none"
  BY <1>1, Zenon DEF Changed
<1>5. f # e => Levels(f, t)' = Levels(f, t)
  BY <1>2, Zenon DEF Levels
<1>6. ASSUME f = e, t # s, f \notin torn' PROVE Levels(f, t)' = Levels(f, t)
  <2>1. t = Other[s] /\ t # "none" /\ s # "none"
    BY <1>6 DEF Other, Sides
  <2>2. ~(~add /\ book[e][p] = t)
    BY <1>6, <2>1, Zenon DEF OnMarketUpdate, Tears
  <2>3. Changed(e, s, p, add)[p] = t <=> book[e][p] = t
    BY <1>4, <1>6, <2>1, <2>2, Zenon
  <2>4. \A q \in Prices : book'[e][q] = t <=> book[e][q] = t
    BY <1>2, <1>3, <2>3, Zenon
  <2> QED
    BY <1>6, <2>4, Zenon DEF Levels
<1> QED
  BY <1>2, <1>3, <1>5, <1>6, Zenon DEF Levels

(* Beside the types, nothing has overdrawn the keeper's pool while the     *)
(* process runs: allocate exits with the block that would be the last.     *)
TypeInv ==
  /\ TypeOK
  /\ ~exited => \A e \in Exchanges : unread[e] < KeeperPoolSize

(* TypeInv has the types the other proofs use.                             *)
LEMMA TypeInvTypes == TypeInv => Types
  BY Zenon DEF TypeInv, TypeOK, Types

(* A market update keeps the counters in range.                            *)
LEMMA UpdateTypeInv ==
  ASSUME TypeInv, NEW e \in Exchanges, NEW s \in Sides, NEW p \in Prices, NEW add \in BOOLEAN,
         OnMarketUpdate(e, s, p, add)
  PROVE  TypeInv'
<1>1. Types'
  BY TypeInvTypes, UpdateTypes, Zenon
<1>2. updates' \in 0 .. MaxUpdates
  BY BoundAssumption DEF TypeInv, TypeOK, OnMarketUpdate, Running
<1>3. torn' \subseteq Exchanges /\ configured' \in Configurations
  BY Zenon DEF TypeInv, TypeOK, OnMarketUpdate
<1>4. ~exited /\ unread \in [Exchanges -> 0 .. KeeperPoolSize]
      /\ \A f \in Exchanges : unread[f] < KeeperPoolSize
  BY Zenon DEF TypeInv, TypeOK, OnMarketUpdate, Running
<1>5. CASE WillBeUpdated(e, s, p)
  <2>1. /\ unread' = [unread EXCEPT ![e] = unread[e] + 1]
        /\ exited' \in BOOLEAN
        /\ ~exited' => unread'[e] # KeeperPoolSize
    BY <1>5, Zenon DEF OnMarketUpdate, updateBBO
  <2>2. unread[e] + 1 \in 0 .. KeeperPoolSize
    BY <1>4, PoolAssumption
  <2>3. unread' \in [Exchanges -> 0 .. KeeperPoolSize]
    BY <1>4, <2>1, <2>2, Zenon
  <2>4. ~exited' => \A f \in Exchanges : unread'[f] < KeeperPoolSize
    BY <1>4, <2>1, <2>2, PoolAssumption
  <2>5. cleared' \subseteq Exchanges \X Sides
    BY <1>5, Zenon DEF TypeInv, TypeOK, OnMarketUpdate
  <2>6. lost' \subseteq Exchanges \X Sides
    <3>1. lost' = lost \ {<<e, s>>} \/ lost' = lost \cup {<<e, s>>}
      BY <1>5, Zenon DEF OnMarketUpdate, updateBBO
    <3>2. lost \subseteq Exchanges \X Sides /\ <<e, s>> \in Exchanges \X Sides
      BY Zenon DEF TypeInv, TypeOK
    <3> QED
      BY <3>1, <3>2, Zenon
  <2> QED
    BY <1>1, <1>2, <1>3, <2>1, <2>3, <2>4, <2>5, <2>6, Zenon DEF TypeInv, TypeOK, Types
<1>6. CASE ~WillBeUpdated(e, s, p)
  <2>1. UNCHANGED <<unread, exited, cleared, lost>>
    BY <1>6, Zenon DEF OnMarketUpdate
  <2> QED
    BY <1>1, <1>2, <1>3, <2>1, Zenon DEF TypeInv, TypeOK, Types
<1> QED
  BY <1>5, <1>6

(* A market update leaves every BBO that is followed at the top.           *)
LEMMA TopUpdate ==
  ASSUME Types, BBOIsTop,
         NEW e \in Exchanges, NEW s \in Sides, NEW p \in Prices, NEW add \in BOOLEAN,
         OnMarketUpdate(e, s, p, add)
  PROVE  BBOIsTop'
<1> SUFFICES ASSUME NEW f \in Exchanges, NEW t \in Sides, f \notin torn', <<f, t>> \notin cleared'
             PROVE  bbo'[f][t] = Best(t, Levels(f, t)')
  BY Zenon DEF BBOIsTop, Best, AtOrBetter
<1>1. f \notin torn
  BY Zenon DEF OnMarketUpdate
<1>2. CASE <<f, t>> # <<e, s>>
  <2>1. Levels(f, t)' = Levels(f, t)
    BY <1>2, ChangedLevels
  <2>2. bbo'[f][t] = bbo[f][t]
    <3>1. ~WillBeUpdated(e, s, p) => bbo' = bbo
      BY Zenon DEF OnMarketUpdate
    <3>2. ASSUME WillBeUpdated(e, s, p)
          PROVE  bbo'[f][t] = bbo[f][t]
      <4>1. \E b : bbo' = [bbo EXCEPT ![e][s] = b]
        BY <3>2, Zenon DEF OnMarketUpdate
      <4> QED
        BY <1>2, <4>1 DEF Types
    <3> QED
      BY <3>1, <3>2, Zenon
  <2>3. <<f, t>> \notin cleared
    <3>1. cleared' = cleared \ {<<e, s>>} \/ cleared' = cleared
      BY Zenon DEF OnMarketUpdate
    <3> QED
      BY <1>2, <3>1, Zenon
  <2> QED
    BY <1>1, <2>1, <2>2, <2>3, Zenon DEF BBOIsTop
<1>3. CASE <<f, t>> = <<e, s>> /\ WillBeUpdated(e, s, p)
  <2>1. bbo' = [bbo EXCEPT ![e][s] = Best(s, {q \in Prices : Changed(e, s, p, add)[q] = s})]
    BY <1>3, Zenon DEF OnMarketUpdate
  <2>2. bbo'[e][s] = Best(s, {q \in Prices : Changed(e, s, p, add)[q] = s})
    BY <2>1, Zenon DEF Types
  <2>3. f = e /\ t = s
    BY <1>3, Zenon
  <2>4. Levels(e, s)' = {q \in Prices : Changed(e, s, p, add)[q] = s}
    BY ChangedLevels
  <2> QED
    BY <2>2, <2>3, <2>4, Zenon
<1>4. CASE <<f, t>> = <<e, s>> /\ ~WillBeUpdated(e, s, p)
  <2>1. Levels(e, s) # {} /\ ~AtOrBetter(s, p, Best(s, Levels(e, s)))
    BY <1>4, Zenon DEF WillBeUpdated
  <2>2. Levels(e, s) \in SUBSET Prices /\ Levels(e, s)' \in SUBSET Prices
    BY Zenon DEF Levels
  <2>3. Best(s, Levels(e, s)') = Best(s, Levels(e, s))
    BY <2>1, <2>2, ChangedLevels, BestSurvives
  <2>4. bbo' = bbo /\ cleared' = cleared
    BY <1>4, Zenon DEF OnMarketUpdate
  <2> QED
    BY <1>1, <1>4, <2>3, <2>4, Zenon DEF BBOIsTop
<1> QED
  BY <1>2, <1>3, <1>4, Zenon

(* A step that leaves the books alone leaves their BBOs right.             *)
LEMMA TopUntouched ==
  ASSUME BBOIsTop, UNCHANGED <<book, bbo, torn, cleared>>
  PROVE  BBOIsTop'
<1>1. \A e \in Exchanges, s \in Sides : Levels(e, s)' = Levels(e, s)
  BY Zenon DEF Levels
<1> QED
  BY <1>1, Zenon DEF BBOIsTop

(* bbo_ is the best level of both sides of both books, for any interleaving *)
(* and for any prices: deciding which side to update before the book        *)
(* changes misses nothing.  CLEAR and a torn tree are the exceptions.       *)
THEOREM BooksAnnounceTheirTop == Spec => []CrossBBOIsTop
<1> DEFINE Inv == TypeInv /\ BBOIsTop
<1>1. Init => Inv
  <2> SUFFICES ASSUME Init PROVE Inv
    OBVIOUS
  <2>1. Types
    BY InitSteps, Zenon
  <2>2. TypeInv
    <3>1. 0 \in 0 .. KeeperPoolSize /\ 0 < KeeperPoolSize /\ 0 \in 0 .. MaxUpdates
      BY PoolAssumption, BoundAssumption
    <3>2. unread \in [Exchanges -> 0 .. KeeperPoolSize]
          /\ \A e \in Exchanges : unread[e] < KeeperPoolSize
      BY <3>1, Zenon DEF Init
    <3>3. updates \in 0 .. MaxUpdates /\ exited \in BOOLEAN
          /\ torn = {} /\ cleared = {} /\ lost = {} /\ configured \in Configurations
      BY <3>1, Zenon DEF Init
    <3> QED
      BY <2>1, <3>2, <3>3, Zenon DEF Types, TypeInv, TypeOK
  <2>3. ASSUME NEW e \in Exchanges, NEW s \in Sides PROVE bbo[e][s] = Best(s, Levels(e, s))
    <3>1. Levels(e, s) = {}
      BY Zenon DEF Init, Levels, Sides
    <3> QED
      BY <3>1, Zenon DEF Init, Best, NoBBO
  <2> QED
    BY <2>2, <2>3, Zenon DEF BBOIsTop
<1>2. Inv /\ [Next]_vars => Inv'
  <2> SUFFICES ASSUME Inv, [Next]_vars PROVE Inv'
    OBVIOUS
  <2>1. ASSUME NEW e \in Exchanges, NEW s \in Sides, NEW p \in Prices, NEW add \in BOOLEAN,
               OnMarketUpdate(e, s, p, add)
        PROVE  Inv'
    BY <2>1, TypeInvTypes, UpdateTypeInv, TopUpdate, Zenon
  <2>2. ASSUME NEW e \in Exchanges, ClearOrderBook(e) PROVE Inv'
    <3>1. Types'
      BY <2>2, TypeInvTypes, ClearSteps, Zenon
    <3>2. cleared' = cleared \cup {<<e, s>> : s \in Sides}
          /\ UNCHANGED <<bbo, unread, exited, torn, configured, lost>>
          /\ updates' \in 0 .. MaxUpdates
      BY <2>2, BoundAssumption DEF ClearOrderBook, TypeInv, TypeOK, Running
    <3>3. TypeInv'
      BY <3>1, <3>2 DEF TypeInv, TypeOK, Types
    <3>4. ASSUME NEW f \in Exchanges, NEW t \in Sides, <<f, t>> \notin cleared'
          PROVE  f # e /\ <<f, t>> \notin cleared /\ Levels(f, t)' = Levels(f, t)
      BY <2>2, <3>2, <3>4, Zenon DEF ClearOrderBook, Levels, TypeInv, TypeOK
    <3> QED
      BY <3>2, <3>3, <3>4 DEF BBOIsTop, Best, AtOrBetter
  <2>3. ASSUME NEW e \in Exchanges, OnNewSignal(e) PROVE Inv'
    <3>1. Types'
      BY <2>3, TypeInvTypes, SignalTypes, Zenon
    <3>2. UNCHANGED <<book, bbo, unread, updates, exited, torn, cleared, configured, lost>>
      BY <2>3, Zenon DEF OnNewSignal
    <3>3. TypeInv'
      BY <3>1, <3>2, Zenon DEF TypeInv, TypeOK, Types
    <3> QED
      BY <3>2, <3>3, TopUntouched, Zenon
  <2>4. CASE UNCHANGED vars
    <3>1. TypeInv'
      BY <2>4, Zenon DEF vars, bookVars, TypeInv, TypeOK
    <3> QED
      BY <2>4, <3>1, TopUntouched, Zenon DEF vars, bookVars
  <2> QED
    BY <2>1, <2>2, <2>3, <2>4 DEF Next
<1>3. Inv => CrossBBOIsTop
  BY Zenon DEF CrossBBOIsTop, TypeInv
<1> QED
  BY <1>1, <1>2, <1>3, PTL DEF Spec

=============================================================================
