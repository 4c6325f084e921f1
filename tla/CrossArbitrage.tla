--------------------------- MODULE CrossArbitrage ---------------------------
(***************************************************************************)
(* Cross-exchange arbitrage as the unit test wires it.  Each exchange has  *)
(* a book (strategy::cross_arbitrage::OrderBook over the first             *)
(* MarketOrderBook) on a thread of its own (OrderBookService).  When its   *)
(* BBO changes it allocates a signal from its MemPool and enqueues it.     *)
(* The engine thread takes the signals, keeps the BBO of both exchanges    *)
(* in prices_, and may buy on one and sell on the other through            *)
(* backtesting::OrderManager.                                              *)
(*                                                                         *)
(* Quantities decide nothing except whether a level is removed, and are    *)
(* left out.  A ConcurrentQueue keeps the order of one producer only, so   *)
(* there is a sequence of signals for each book.                           *)
(***************************************************************************)
EXTENDS Integers, Sequences

CONSTANTS
  Pairs,
  WorkingPair,      \* working_pairs_: pair traded on exchange 1 and on 2
  Configurations,   \* the sets of pairs ticker_cfg_ may have a clip for
  Prices,
  PriceRange,       \* Price is unsigned: values below PriceRange, 2^64 in the code
  PoolSize,         \* blocks of each signal pool
  KeeperPoolSize,   \* blocks of update_bbo_pool_
  QueueCap,         \* signals try_enqueue takes without allocating memory
  MaxUpdates        \* bound: market updates

PriceInvalid == PriceRange - 1

ASSUME PricesAssumption ==
  /\ PriceRange \in Nat
  /\ Prices \subseteq 1 .. PriceRange - 2
  /\ \A S \in SUBSET Prices : S # {} =>
       (\E p \in S : \A q \in S : p <= q) /\ (\E p \in S : \A q \in S : p >= q)
ASSUME PoolAssumption == PoolSize \in Nat \ {0} /\ KeeperPoolSize \in Nat \ {0}
ASSUME BoundAssumption == MaxUpdates \in Nat
ASSUME PairsAssumption ==
  WorkingPair \in [{1, 2} -> Pairs] /\ Configurations \subseteq SUBSET Pairs

VARIABLES
  book,             \* the levels of each exchange: price -> tree it is linked in
  bbo,              \* bbo_: best price of each side
  pool,             \* bbu_pool_ and bau_pool_
  unread,           \* UpdateBBO events in the channel to the position keeper
  queue,            \* signals of each book in the channel to the engine
  configured,       \* pairs with a clip in ticker_cfg_
  prices,           \* prices_ of the strategy
  orders,           \* ticker_side_order_ of the order manager
  updates,          \* market updates so far
  exited,           \* an ASSERT ended the process
  torn,             \* exchanges with a freed level still linked in a tree
  cleared,          \* history: <<e, side>> emptied by CLEAR since it was last set
  lost              \* history: <<e, side>> with a signal that did not fit the channel

bookVars == <<book, bbo, pool, unread, updates, exited, torn, cleared>>

vars == <<bookVars, queue, configured, prices, orders, lost>>

-----------------------------------------------------------------------------

Exchanges == {1, 2}

Sides == {"kBid", "kAsk"}

Other == [kBid |-> "kAsk", kAsk |-> "kBid"]

Blocks == 0 .. PoolSize - 1

QuotedPrices == Prices \cup {PriceInvalid}

Signal == [side : Sides, price : QuotedPrices, block : Blocks]

Levels(e, s) == {p \in Prices : book[e][p] = s}

AtOrBetter(s, p, q) == IF s = "kBid" THEN p >= q ELSE p <= q

\* begin() of a tree, or PriceInvalid.
Best(s, levels) ==
  IF levels = {} THEN PriceInvalid
  ELSE CHOOSE p \in levels : \A q \in levels : AtOrBetter(s, p, q)

\* Mutant of WillBeUpdated: a change at the best price itself is not looked at.
WillBeBettered(e, s, p) ==
  Levels(e, s) = {} \/ (p # Best(s, Levels(e, s)) /\ AtOrBetter(s, p, Best(s, Levels(e, s))))

\* bid_will_be_updated and ask_will_be_updated, taken before the book changes.
WillBeUpdated(e, s, p) ==
  Levels(e, s) = {} \/ AtOrBetter(s, p, Best(s, Levels(e, s)))

-----------------------------------------------------------------------------
(* common::MemPool: is_free_ of every block, and next_free_index_.         *)

\* Mutant of IsNextFree: the index is not moved on.
IsSameBlock(busy, i, j) == j = i

\* updateNextFreeIndex searches round from i and stops at a free block j, any of
\* them: the engine frees blocks while the search is going on, and a block that is
\* free by now may have been passed before.  When there is none, taking the last
\* block was an ASSERT.
IsNextFree(busy, i, j) == IF busy = Blocks THEN j = i ELSE j \notin busy

\* deallocate.
Deallocated(m, block) == [m EXCEPT !.busy = @ \ {block}]

-----------------------------------------------------------------------------

NoBBO == [s \in Sides |-> PriceInvalid]

Init ==
  /\ book = [e \in Exchanges |-> [p \in Prices |-> "none"]]
  /\ bbo = [e \in Exchanges |-> NoBBO]
  /\ pool = [e \in Exchanges |-> [s \in Sides |-> [busy |-> {}, next |-> 0]]]
  /\ unread = [e \in Exchanges |-> 0]
  /\ queue = [e \in Exchanges |-> << >>]
  /\ configured \in Configurations
  /\ prices = [e \in Exchanges |-> NoBBO]
  /\ orders = [o \in Pairs \X Sides |-> [live |-> FALSE, price |-> PriceInvalid]]
  /\ updates = 0
  /\ exited = FALSE
  /\ torn = {}
  /\ cleared = {}
  /\ lost = {}

Running(e) == ~exited /\ e \notin torn /\ updates < MaxUpdates

\* addOrder and removeOrdersAtPrice on the one hash map of both sides: a price
\* known on either side is only given the new quantity.
Changed(e, s, p, add) ==
  [book[e] EXCEPT ![p] = IF add THEN (IF @ = "none" THEN s ELSE @) ELSE "none"]

\* removeOrdersAtPrice on the wrong side: "critical error", and the level is
\* freed while the other tree still links it.  What that tree does from then on
\* is undefined, and the book is not followed further.
Tears(e, s, p, add) == ~add /\ book[e][p] = Other[s]

\* Mutant of Enqueued: the signal is put before the ones that wait.
EnqueuedFirst(e, signal) == [queue EXCEPT ![e] = <<signal>> \o @]

Enqueued(e, signal) == [queue EXCEPT ![e] = Append(@, signal)]

\* Mutant of updateBBO: the signal is made before the base class has set bbo_.
updateBBOAfterSignal(e, s) ==
  LET block == pool[e][s].next
      busy == pool[e][s].busy \cup {block}
      signal == [side |-> s, price |-> bbo[e][s], block |-> block]
      fits == Len(queue[1]) + Len(queue[2]) < QueueCap
  IN
  /\ \E next \in Blocks :
       /\ IsNextFree(busy, block, next)
       /\ pool' = [pool EXCEPT ![e][s] = [busy |-> busy, next |-> next]]
  /\ queue' = IF fits THEN Enqueued(e, signal) ELSE queue
  /\ lost' = IF fits THEN lost \ {<<e, s>>} ELSE lost \cup {<<e, s>>}
  /\ unread' = [unread EXCEPT ![e] = @ + 1]
  /\ exited' = (busy = Blocks \/ unread'[e] = KeeperPoolSize)

\* cross_arbitrage::OrderBook::updateBBO for the side that will be updated: the
\* signal to the engine, which a full channel refuses, and the event to the
\* position keeper, which no service of the program takes out.  allocate exits
\* the process when it takes the last block of a pool.  One step: until it is
\* enqueued the engine knows nothing of the signal, and what the engine frees in
\* the meantime is in IsNextFree.
updateBBO(e, s) ==
  LET block == pool[e][s].next
      busy == pool[e][s].busy \cup {block}
      signal == [side |-> s, price |-> bbo'[e][s], block |-> block]
      fits == Len(queue[1]) + Len(queue[2]) < QueueCap
  IN
  /\ \E next \in Blocks :
       /\ IsNextFree(busy, block, next)
       /\ pool' = [pool EXCEPT ![e][s] = [busy |-> busy, next |-> next]]
  /\ queue' = IF fits THEN Enqueued(e, signal) ELSE queue
  /\ lost' = IF fits THEN lost \ {<<e, s>>} ELSE lost \cup {<<e, s>>}
  /\ unread' = [unread EXCEPT ![e] = @ + 1]
  /\ exited' = (busy = Blocks \/ unread'[e] = KeeperPoolSize)

\* MarketOrderBook::OnMarketUpdate of one level.
OnMarketUpdate(e, s, p, add) ==
  /\ Running(e)
  /\ updates' = updates + 1
  /\ book' = [book EXCEPT ![e] = Changed(e, s, p, add)]
  /\ torn' = IF Tears(e, s, p, add) THEN torn \cup {e} ELSE torn
  /\ IF WillBeUpdated(e, s, p)
       THEN /\ bbo' = [bbo EXCEPT ![e][s] =
                         Best(s, {q \in Prices : Changed(e, s, p, add)[q] = s})]
            /\ cleared' = cleared \ {<<e, s>>}
            /\ updateBBO(e, s)
       ELSE UNCHANGED <<bbo, cleared, pool, queue, lost, unread, exited>>
  /\ UNCHANGED <<configured, prices, orders>>

\* OnMarketUpdate of CLEAR: the levels go, bbo_ stays and nobody is told.
ClearOrderBook(e) ==
  /\ Running(e)
  /\ updates' = updates + 1
  /\ book' = [book EXCEPT ![e] = [p \in Prices |-> "none"]]
  /\ cleared' = cleared \cup {<<e, s>> : s \in Sides}
  /\ UNCHANGED <<bbo, pool, unread, exited, torn, queue, configured, prices, orders, lost>>

-----------------------------------------------------------------------------

Minus(a, b) == (a - b) % PriceRange

\* One branch of LaunchPayload: buy at the ask of i and sell at the bid of j.
Worthwhile(quotes, i, j) ==
  /\ quotes[j]["kBid"] # PriceInvalid
  /\ quotes[i]["kAsk"] # PriceInvalid
  /\ Minus(quotes[j]["kBid"], quotes[i]["kAsk"]) > 0

\* backtesting::OrderManager::NewOrder.
NewOrder(slots, pair, side, price) ==
  IF slots[<<pair, side>>].live THEN slots
  ELSE [slots EXCEPT ![<<pair, side>>] = [live |-> TRUE, price |-> price]]

\* BuySomeAsset on i, and SellSomeAsset on j.
BuySomeAsset(slots, quotes, i) ==
  IF WorkingPair[i] \in configured /\ quotes[i]["kAsk"] # PriceInvalid
    THEN NewOrder(slots, WorkingPair[i], "kAsk", quotes[i]["kAsk"])
    ELSE slots

\* Mutant of SellSomeAsset: the pair of the other exchange is sold.
SellOtherAsset(slots, quotes, j) ==
  IF WorkingPair[j] \in configured /\ quotes[j]["kBid"] # PriceInvalid
    THEN NewOrder(slots, WorkingPair[3 - j], "kBid", quotes[j]["kBid"])
    ELSE slots

SellSomeAsset(slots, quotes, j) ==
  IF WorkingPair[j] \in configured /\ quotes[j]["kBid"] # PriceInvalid
    THEN NewOrder(slots, WorkingPair[j], "kBid", quotes[j]["kBid"])
    ELSE slots

Arbitrage(slots, quotes, i, j) ==
  SellSomeAsset(BuySomeAsset(slots, quotes, i), quotes, j)

LaunchPayload(slots, quotes) ==
  IF Worthwhile(quotes, 1, 2) THEN Arbitrage(slots, quotes, 1, 2)
  ELSE IF Worthwhile(quotes, 2, 1) THEN Arbitrage(slots, quotes, 2, 1)
  ELSE slots

\* CrossArbitrage::OnNewSignal: ProcessSignal, then LaunchPayload.
OnNewSignal(e) ==
  LET signal == Head(queue[e]) IN
  /\ ~exited /\ queue[e] # << >>
  /\ queue' = [queue EXCEPT ![e] = Tail(@)]
  /\ prices' = [prices EXCEPT ![e][signal.side] = signal.price]
  /\ pool' = [pool EXCEPT ![e][signal.side] = Deallocated(@, signal.block)]
  /\ orders' = LaunchPayload(orders, prices')
  /\ UNCHANGED <<book, bbo, unread, updates, exited, torn, cleared, configured, lost>>

Next ==
  \E e \in Exchanges :
    \/ \E s \in Sides, p \in Prices, add \in BOOLEAN : OnMarketUpdate(e, s, p, add)
    \/ ClearOrderBook(e)
    \/ OnNewSignal(e)

Spec == Init /\ [][Next]_vars

\* TradeEngine::Run polls the channel for ever, and try_dequeue_bulk visits all
\* producers.
Fairness == \A e \in Exchanges : WF_vars(OnNewSignal(e))

FairSpec == Spec /\ Fairness

-----------------------------------------------------------------------------

\* Types of the books, pools, channels, strategy and order slots.
TypeOK ==
  /\ book \in [Exchanges -> [Prices -> Sides \cup {"none"}]]
  /\ bbo \in [Exchanges -> [Sides -> QuotedPrices]]
  /\ pool \in [Exchanges -> [Sides -> [busy : SUBSET Blocks, next : Blocks]]]
  /\ unread \in [Exchanges -> 0 .. KeeperPoolSize]
  /\ queue \in [Exchanges -> Seq(Signal)]
  /\ configured \in Configurations
  /\ prices \in [Exchanges -> [Sides -> QuotedPrices]]
  /\ orders \in [Pairs \X Sides -> [live : BOOLEAN, price : QuotedPrices]]
  /\ updates \in 0 .. MaxUpdates
  /\ exited \in BOOLEAN
  /\ torn \subseteq Exchanges
  /\ cleared \subseteq Exchanges \X Sides
  /\ lost \subseteq Exchanges \X Sides

\* bbo_ is the best level of each side, although updateBBO runs only for the
\* side WillBeUpdated picked before the change; CLEAR leaves it behind, and so
\* does a freed level.
BBOIsTop ==
  \A e \in Exchanges, s \in Sides :
    e \notin torn /\ <<e, s>> \notin cleared => bbo[e][s] = Best(s, Levels(e, s))

\* ... in a state of its types, in which the keeper's pool is never overdrawn.
CrossBBOIsTop == TypeOK /\ BBOIsTop

\* Signal n is the last one about side s in the channel of book e.
LastIs(e, s, n) ==
  queue[e][n].side = s /\ \A m \in 1 .. Len(queue[e]) : m > n => queue[e][m].side # s

NoneWaits(e, s) == \A n \in 1 .. Len(queue[e]) : queue[e][n].side # s

Mirrored(e, s) ==
  \/ prices[e][s] = bbo[e][s] /\ NoneWaits(e, s)
  \/ \E n \in 1 .. Len(queue[e]) : LastIs(e, s, n) /\ queue[e][n].price = bbo[e][s]

\* The strategy works on deltas: prices_ together with the signals still in the
\* channel is always the BBO of the book, however the two books and the engine
\* interleave, unless the last signal of that side did not fit.
SignalsMirrorBBO ==
  \A e \in Exchanges, s \in Sides : <<e, s>> \in lost \/ Mirrored(e, s)

\* A block belongs to one waiting signal: MemPool never hands out, nor has as
\* its next, a block whose signal the engine has not read, though the engine
\* returns blocks from another thread and they are used again.
WaitingSignalsOwnBlocks ==
  \A e \in Exchanges :
    /\ \A n \in 1 .. Len(queue[e]) : queue[e][n].block \in pool[e][queue[e][n].side].busy
    /\ \A m, n \in 1 .. Len(queue[e]) :
         m # n /\ queue[e][m].side = queue[e][n].side => queue[e][m].block # queue[e][n].block
    /\ \A s \in Sides : ~exited => pool[e][s].next \notin pool[e][s].busy

Buys(i) == orders[<<WorkingPair[i], "kAsk">>].live

Sells(i) == orders[<<WorkingPair[i], "kBid">>].live

\* LaunchPayload opens both legs wherever it can: an order to buy on one exchange
\* stands without the order to sell on the other, or the other way round, only
\* when ticker_cfg_ has no clip for the pair of the missing leg, which
\* BuySomeAsset and SellSomeAsset find out after the other leg was sent.
Hedged ==
  \A i \in Exchanges :
    /\ Buys(i) /\ ~Sells(3 - i) => WorkingPair[3 - i] \notin configured
    /\ Sells(3 - i) /\ ~Buys(i) => WorkingPair[i] \notin configured

\* Every signal is taken: in the end prices_ is the BBO of both books, or the
\* last signal did not fit, or the process has exited.
StrategyCatchesUp ==
  <>[]( exited \/ \A e \in Exchanges, s \in Sides :
                    <<e, s>> \in lost \/ prices[e][s] = bbo[e][s] )

\* Arbitrage buys below the price at which it sells ("there aren't conditions
\* for cross arbitrage", base_strategy.h).  Refuted: the difference is unsigned.
SellsAboveBuy ==
  \A i \in Exchanges :
    Buys(i) /\ Sells(3 - i) =>
      orders[<<WorkingPair[3 - i], "kBid">>].price > orders[<<WorkingPair[i], "kAsk">>].price

\* No leg stands alone.  Refuted where a pair has no clip.
NoLegAlone == \A i \in Exchanges : Buys(i) <=> Sells(3 - i)

\* The process does not exit.  Refuted: nothing drains the keeper's channel.
NeverExits == ~exited

\* "critical error" (market_order_book.h): a level is only removed from the side
\* it is on.  Refuted.
NeverTorn == torn = {}

=============================================================================
