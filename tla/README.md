# A TLA+ model of the trading bot

The bot receives order book snapshots (REST) and diffs (websocket), joins them
into a book per trading pair, lets strategies send orders through an order
manager and a gateway, and keeps positions and funds up to date from the
exchange's answers. Components talk through a bus of reference-counted events or
through lock-free queues, and each runs on its own strand or thread.

These modules model the parts where that concurrency, and the order in which the
exchange's messages arrive, decide correctness.

## Parts, and how they fit together

```
 HttpsPool, RequestSessions ─ answers ─┐
                                       ├─> BidAskGenerator / BybitGenerator ─> MarketOrderBook2 ─┐
 WssFeed ─ diffs ──────────────────────┘            (events on EventBus)                        │ BBO
   ^                                                                                            v
   └─ Requests (endpoint, arguments, signature, parsers)         Arbitrage, RedPanda (books, topics)

 history file ─> Backtesting (kline thread, queue, engine thread)

 CrossArbitrage (first-version books, signals, engine) ─> OrderManager ─> gateway ─> exchange
                                                             └─ answers ─> PositionKeeper, Wallet
 MemoryPool: the blocks all events and requests live in
```

`PROJECT.json` lists every component with its status, and maps every definition
to the lines it models.

## Modules

An action is one whole handler, unless stated otherwise.

Market data

- **BidAskGenerator**: Binance's `BidAskGeneratorComponent` with `SpotPolicy` and
  the batch callback handler. A diff is an interval of update ids, a snapshot its
  last id, the consumer's book the set of ids applied. Diffs arrive in order or
  are lost; snapshot answers arrive in any order or are lost. `HandleCancellation`
  clears the pair's state while messages remain in flight; the code runs it off
  the strand and the model takes it as one step. Pairs share no state, so there
  is one pair.
- **BidAskResync** adds a history variable that counts the diffs published since
  the exchange became calm (nothing in flight, nothing lost).
- **BybitGenerator**: Bybit's generator, its parsers' choices and error paths, and
  the resubscription after a missed delta.
- **BookFeed**: what a consumer is promised. Each step replaces the book by a
  prefix of the exchange's history that contains it.
- **MarketOrderBook2**: the three `OnMarketUpdate` overloads, the BBO and the
  signal to subscribers. A message is a function from prices to quantities.
- **OrderBookLoop**: the level-by-level loops of those handlers and of the readers
  of a level, compared with the closed forms from every reachable book.
- **Backtesting**: `example/backtesting`: main, the kline service and the engine
  from construction to destruction. `punctual` says whether a one-second sleep
  is long enough for a started thread to run. A decimal of the file may fall one
  tick short when it is truncated.

Network

- **HttpsPool**: `HttpsSession3`, `ConnectionPool` and `BookSnapshot2`. Sessions
  are addresses: a session that ends is freed and its successor is created in the
  same block.
- **RequestSessions**: the five session classes that serve one request each. A
  record `class` says how they differ.
- **WssFeed**: `WssSession3`, its pool and `BookEventGetter3`, with the write and
  read loops.
- **Requests**: endpoint table, argument maps, signing, subscription messages and
  the parser managers. An HMAC is a term, a document a record, and the hash of an
  endpoint key the set of its bits.

Memory

- **MemoryPool**: `MemoryPoolThreadSafety`, one shared-memory access per action.
  Memory is sequentially consistent and `boost::pool::malloc` is one step. Both
  make the model safer than the code: a counterexample here is one of the code,
  and what holds here holds of the code under these two assumptions.
- **EventBus**: events and payloads with their reference counts, publication to
  several subscribers, and coroutines that hold an `intrusive_ptr` or only a raw
  pointer.

Trading

- **OrderManager** (with **MCOrderManager** for constant values): the slots of one
  pair, two request queues, `OrderGateway2::Run`, the Binance parsers, and an
  exchange that accepts, fills, rejects, cancels and loses messages. `Truncated`
  lists the pairs (original, executed) whose remainder the floating-point cast
  loses.
- **Wallet**: `Reserve` and `Update` beside the account at the exchange. No program
  of the repository sends a reservation, so the producer is external.
- **PositionKeeper**: fills, BBOs and the two ways they arrive. **PnlLedger** is its
  abstract specification: cash, holding, equity. Money is exact, and the model
  follows the executions whose averages are whole numbers.
- **CrossArbitrage**: two first-version books on their threads, the signal pools
  and channels, the engine and the strategy. Prices are unsigned, below
  `PriceRange`.
- **Arbitrage**: `ArbitrageStrategyComponent` on a thread pool, one action per
  access to what the tasks share. A BBO read while another task copies one into
  the same slot takes each field from either.
- **RedPanda**: the order book components, the Kafka client's strand, the producer's
  thread and the topics.

**MCFeeds**, **MCOrders**, **MCMemory**, **MCHttps**, **MCStream**,
**MCStrategies** and **MCRecords** put two or three components into one run. The
variable `at` picks the component a behaviour is about, and the others rest in one
initial state. The reachable states are thus the disjoint union of the components'
own, and nothing about one component depends on another. Each MC module names the
properties it takes from its components, restates their fairness, and joins some
invariants of one component under one name.

## Runs

| Run | Expected | What it shows |
|---|---|---|
| `feeds` | pass | Binance: gaps come only from late snapshot answers, the book never rolls back, and otherwise the generator implements `BookFeed`; a calm exchange repairs the feed within two diffs and one request. Bybit: every loss is known, pursued and repaired, and a book without a gap is a feed. Backtesting: the replay is whole, in order, touches no destroyed service, and ends. |
| `generator_gap` | violation | a late snapshot answer does cause a gap |
| `order_book` | pass | subscribers hold the top of every non-empty side; the loops compute the closed forms |
| `orders` | pass | one order per side, slots that tell the truth, answers that match their slot; the wallet never overstates, and only rejected orders keep a reservation |
| `order_manager_truncation` | violation | a truncated remainder lets a second order out |
| `memory` | pass | with one allocating thread the free list is sound; reference counts keep an event for whoever holds it, and return it once |
| `memory_pool_aba` | violation | two allocating threads can be given the same block |
| `event_bus_raw` | violation | a coroutine reads a request through a raw pointer after the request's block was used again |
| `https_pool` | pass | one exchange at a time on a session, a pool that keeps its size, callers that get a session and an answer; the older sessions serve one request and end |
| `stream` | pass | requests reach their venue in a form it accepts; one writer per session, every request written, every waiting getter served |
| `strategies` | pass | the cross-arbitrage engine follows the books and trades hedged; concurrent evaluations of a cycle leave no trade open |
| `records` | pass | the position keeper implements a ledger; what the topics show is in order, complete but for failed sends, and described |

`PROJECT.json` names for every checked property at least one plausible bug (an
operator marked "mutant" in the modules) that makes TLC find it violated. Where a
property joins several invariants there is a mutant for most of its conjuncts.

### Bounds

| Run | Bounds, and what they allow |
|---|---|
| `feeds` | Binance: seven ids in batches of up to two, enough for a synchronisation, a loss, a late answer and two calm diffs. Bybit: five ids with one loss, one malformed message and one stop, each at any point. Replay: no file, an empty one, one of four rows and one with a row that is skipped; a queue of two, so that the producer waits. |
| `order_book` | three prices and two quantities per side, messages of two levels (three where the loops are compared, so that one message moves the top twice) |
| `orders` | two orders of up to two lots, enough for one order to follow another in a slot; the wallet has three orders of up to two lots and a deposit of two, so that it runs out |
| `order_manager_truncation` | three lots: 0.3 - 0.2 is the smallest case that loses one |
| `memory` | three threads, one of them allocating, and three blocks; three events for two pairs |
| `memory_pool_aba`, `event_bus_raw` | two threads and three blocks; four events |
| `https_pool` | two sessions, two requests and one fault or early timeout at any point; two calls and two messages for the older sessions |
| `stream` | two pairs, a depth below and one above the cap of 5000, two requests and two documents; two sessions and one fault |
| `strategies` | two prices, pools of three blocks, a queue of two and four updates, so that queues fill and pools run out; two cycles in opposite directions, three BBOs and two threads |
| `records` | two prices, three quantities and five events, so that a position opens, shrinks, closes and flips; two markets, one with a pair that has no description, and three BBOs |

Deadlock is checked in `feeds`, `order_book`, `orders`, `memory` and two of the
violation runs. In the MC modules a component that ends at its bounds stutters
explicitly. The other runs really may stop: a program returns, a crashed process
ends, a caller has no more requests, a bound on events is reached.

### Fairness

Only what the code's own scheduling guarantees is fair, as weak fairness: handlers
that have been queued on an `io_context` or strand are run, threads that can run
do so.

- BybitGenerator: the handler of a message that has arrived, and the exchange's
  answer to a subscription request. A session that stays up answers.
- EventBus: every thread takes its next step, every spawned coroutine is started.
- HttpsPool: a session's set-up, its request loop and its responses, the aborts,
  and the component's strand. Failures are bounded by `MaxFaults`.
- RequestSessions: queued handlers and the timer. Nothing is assumed of the
  network, so a session may wait for ever where no timer runs.
- WssFeed: the one `io_context` thread while it has set-up, timers or writes to do,
  of whichever session, and the getter's strand. Nothing makes data arrive.
- CrossArbitrage: the engine handles waiting signals. Arbitrage: each task runs.
- RedPanda: each strand, the producer and the end of the program.
- Backtesting: the three threads.

No fairness is assumed of BidAskGenerator: nothing bounds how long diffs outrun the
snapshot answers. That it recovers when they stop doing so is the safety property
`RecoversWhenCalm`. The compare-and-exchange loops of MemoryPool may always lose.

## Proofs

TLAPS checks the following for every value of the constants. Each proof finds an
inductive invariant, has one lemma or step per action, and ends with PTL.

- **BidAskGenerator_proofs**: `GeneratorInv` is inductive. It adds to the property
  that diffs arrive in order after everything in the book, and that a synchronised
  pair's stored snapshot is older than its last diff. `GapOnlyAfterLateSnapshot`,
  `NeverRollsBack`, `FeedUnlessLate` and the refinement of `BookFeed` follow.
  `CalmInv` is inductive together with it and says where the one diff, request or
  answer of a calm exchange can be: the diff that finds the pair unsynchronised asks
  for a snapshot as of its own last id, which the next diff continues.
  `RecoversWhenCalm` follows: from any reachable state, two calm diffs and one request.
  The second half is about BybitGenerator. `BybitLossIsKnown` needs `GapInv` (a snapshot
  that waits for the next delta is the last message handled) and `PursuitInv` (requests
  to subscribe and to unsubscribe alternate, so that one that is owed is never answered
  by an older subscription). `BybitImplementsFeed` needs `OrderInv`: every message on
  its way follows all the consumer has.
- **MarketOrderBook2_proofs**: types, and `SubscribersSeeTop`. The key fact is that a
  message that raises no flag does not touch the top. The second half is about the loops
  of OrderBookLoop: `LoopsAreClosedForms`, for messages of any length that may name a
  price again. After n iterations of a handler's loop the book is the closed form of the
  first n levels. A diff's flag is tested against the top as the earlier levels left it,
  and is raised exactly when the closed form says so; a snapshot's is when the message
  names each price once, and in any case when the side's new top is not the BBO. The
  readers of a level stand, after n increments, on the level with n better ones.
- **OrderManager_proofs**: `OrderInv` says that every message in flight belongs to the
  order in its slot and that a side has one such message. It needs
  `RemaindersSurvive`: no remainder is truncated to zero. The type theorem does not.
  The second half is about Backtesting: `ReplayIsWhole` for any file, queue and batch
  size. `ReplayInv` says where the rows are (the first were shown to the book, the next
  are in the engine's batch, then come the queue and the kline being pushed) and, for
  each place main can be at, which objects the two threads may still find.
- **Wallet_proofs**: `WalletReservedForeverOnlyIfRejected` follows from `ReservationInv`
  (while funds are reserved, all of them are, or an answer that releases them is on its
  way). `WalletNeverOverstates` needs a sum over the orders: what the wallet shows plus
  what each order will still take or bring is at most what the account has free. The
  sum is the cardinality of a set of tokens, one per lot, so that no induction is
  needed. It assumes `InOrderAtPar`, without which the property is false (see below).
- **HttpsPool_proofs**: `PoolIsSound` for any sessions, requests, faults and timeouts. `Inv`
  says for each address where its one request loop is (posted, suspended in the one
  exchange, or ended) and in which places a request can be; an address where a step meant
  for a predecessor took place is exempt, and a ghost remembers it. The second half is
  about RequestSessions: `SingleIsSound` for the five classes, from `SingleInv` (what was
  accepted, and that only it reaches the exchange until a text is replaced under its
  write).
- **MemoryPool_proofs**: `PoolInv`, assuming `SingleAllocator`. The ghost `list` holds
  the free blocks oldest first, so a push moves no index; the block a single
  allocator saw stays on the list with the link it read. With two allocators that
  is false, as `memory_pool_aba` shows. Which pools of the program are allocated
  from on one thread only has not been established.
- **PositionKeeper_proofs**: `OneSided` with the types is inductive, and under it every
  fill and BBO is a step of `PnlLedger`: realised plus unrealised pnl is cash plus
  the value of the holding. The lemmas separate opening, reducing, closing and
  flipping a position. The second half is about Arbitrage: `CyclicNothingLeftOpen` for
  any number of tasks that share the trades and the BBOs without a lock. A ghost names
  the task that wrote an entry price; since a task evaluates a cycle once, an entry of
  its own is a price of this very evaluation, so that a profit needs a second task. That
  a task meets a cycle once is `EachCycleOnce`: after any calls of `AddArbitrageCycle`, a
  cycle is listed once under each of its keys.
- **CrossArbitrage_proofs**: `SignalsMirrorBBO` (for each side the last waiting signal, or
  the strategy's price when none waits, is the book's BBO), `WaitingSignalsOwnBlocks`,
  `Hedged` and `CrossBBOIsTop` (the BBO is the top although `updateBBO` runs only for the
  side that `WillBeUpdated` picked before the change), each inductive with the types.
  `PricesAssumption` says that every non-empty set of prices has a least and a greatest
  member.

`EachCycleOnce`, the loops, and the rows `OHLCVI` keeps of a file are inductions over a
list. The library's induction theorems cannot be instantiated by the provers, so the step
from n to n + 1 is used through a smallest counterexample: `LeastNatural` takes it from
the well-foundedness of the naturals, `UpTo` closes a set of naturals under successor,
and `LoopRuns` gives the function a loop defines.

The assumptions on constants are `ASSUME`s of the components or, for a component that
shares a run with another, an operator (`WalletAssumption`, `SessionAssumption`,
`ArbitrageAssumption`, `IdsAssumption`, `ReplayAssumption`) that is a hypothesis of the
theorem and an `ASSUME` of the MC module.

Only model-checked: liveness, which needs fairness, and the properties of EventBus,
WssFeed, Requests and RedPanda.

## What the models show to be false

Four disagreements between the code and its comments or tests are runs of their
own, described under `findings` in `PROJECT.json`. The modules also state the
formulas below, which a reader of the code might expect. TLC refutes them when they
are added to a configuration; no run does so.

- MarketOrderBook2 `EmptySideHasNoBBO`: a side emptied by a snapshot keeps its BBO.
- OrderManager `PendingCancelIsUnanswered`: a cancellation's answer misses its slot. A
  rejected or lost new order leaves its slot PENDING_NEW.
- Wallet `NeverThrows`: CANCELED after ACCEPTED throws. `NeverOverstates` fails with
  `Reordered = TRUE` (CANCELED overtakes FILLED) and with `BasePerQuote = 2` (a sale
  credits base lots as quote).
- HttpsPool `OwnCallback`: of two requests on one session, the later registration gets
  both answers. WssFeed `AcquiredIsConnected`: a session may end before it is used.
- PositionKeeper `OnlyFillsCount`: `HandleResponse` adds every response as a fill.
- Requests `UnhandledIsNotBookData` and `SnapshotNamesItsPair`.
- CrossArbitrage `SellsAboveBuy` (the unsigned difference of two prices is positive
  unless they are equal) and `NeverTorn` (decisions between the two sides of one
  update). Nothing drains the keeper's channel, so `update_bbo_pool_` runs out and the
  process exits.
- Arbitrage `MapIsLatest`: a task that is overtaken leaves an older BBO in the map.

A gap from a late snapshot answer is not repaired by calm: it stays until the next loss
(`RecoversWhenCalm` promises the whole book only while no late answer is stored).

## Not modelled

- Code that is commented out or not built: Bybit's order and cancel requests, the first
  versions of Binance's order requests, the older sessions inside comments of `Https.h`
  and `WS.h`, MEXC, the body of `backtesting::OrderGateway::Run`, and `SpreadMonitor`,
  which nothing includes.
- `FuturesPolicy`: it compares the previous id with the last one. Where ids follow each
  other without holes that is `SpotPolicy`'s test; streams with holes are left out.
- Data races whose outcome C++ does not define: `HandleCancellation` against the
  handlers on the strand, a rehash of the BBO map under a reader, `pool_.malloc()`.
- Two readers of one response: `OnOrderResponse` and `BusEventResponse` both
  deallocate it, and the bus passes it by raw pointer.
- `Start` and `Stop` of the live `TradeEngine` and services; their loops are modelled.
- `MemoryPoolThreadSafety::Reset` and `Clear`, and the variant for one thread.
- Input, output and computation without shared state: JSON text, HMAC, configuration,
  logging, Prometheus, the protobuf classes, kline readers, the Python predictor, the
  drift detector.
